------------------------- MODULE StripePaymentsProofs -------------------------
(***************************************************************************)
(* Proofs about StripePayments: what the books say of money is so at       *)
(* Stripe, for any number of sessions and requests.                        *)
(***************************************************************************)
EXTENDS StripePayments, TLAPS

\* The fields of a row, one at a time.
LEMMA RowFields ==
  ASSUME NEW r \in Row
  PROVE  /\ r.status \in Statuses /\ r.paid \in BOOLEAN /\ r.session \in Rentals \cup {None}
         /\ r.hold \in HoldStatuses /\ r.holdSession \in Deposits \cup {None}
         /\ r.pi \in Deposits \cup {None}
BY DEF Row

\* A row stays a row when the payments write their fields of it.
LEMMA RowUpdates ==
  ASSUME NEW r \in Row, NEW st \in Statuses, NEW s \in Rentals, NEW d \in Deposits, NEW h \in HoldStatuses
  PROVE  /\ [r EXCEPT !.status = st] \in Row
         /\ [r EXCEPT !.session = s] \in Row
         /\ [r EXCEPT !.hold = h] \in Row
         /\ [r EXCEPT !.holdSession = d, !.hold = h] \in Row
         /\ [r EXCEPT !.pi = d, !.hold = h] \in Row
         /\ [r EXCEPT !.paid = TRUE, !.session = s, !.status = st] \in Row
BY DEF Row

LEMMA IdleSound == Idle \in Request /\ Sound(Idle)
BY DEF Idle, Request, Sound

LEMMA IdleSoundNext == Sound(Idle)'
BY DEF Idle, Sound

\* Initially nothing has happened.
LEMMA InitInv == Init => PaymentsInv
<1>. SUFFICES ASSUME Init PROVE PaymentsInv
  OBVIOUS
<1>1. row \in Row /\ ~row.paid /\ row.hold = "NONE"
  BY PaymentsAssumption DEF Init, Row, HoldStatuses
<1>2. TypeOK
  BY <1>1, IdleSound, PaymentsAssumption DEF Init, TypeOK, SessionStates
<1>3. RequestsSound
  BY IdleSound DEF Init, RequestsSound
<1>4. EventsSound /\ ReadsSound /\ RecordedIsApplied
  BY DEF Init, EventsSound, ReadsSound, RecordedIsApplied
<1>5. PaidIsReal /\ CapturedIsReal
  BY <1>1 DEF PaidIsReal, CapturedIsReal
<1>6. SessionsApart
  BY DEF Init, Idle, SessionsApart
<1>7. HoldsReported
  BY DEF Init, HoldsReported
<1>. QED BY <1>2, <1>3, <1>4, <1>5, <1>6, <1>7 DEF Books, PaymentsInv

\* One request moves, Stripe does not.
LEMMA GoSound ==
  ASSUME TypeOK, RequestsSound, NEW p \in Requests, NEW n \in Request, Sound(n), Go(p, n),
         stripe' = stripe, refunded' = refunded
  PROVE  req' \in [Requests -> Request] /\ RequestsSound'
<1>1. req' \in [Requests -> Request]
  BY DEF TypeOK, Go
<1>2. ASSUME NEW q \in Requests PROVE Sound(req'[q])
  BY <1>2 DEF TypeOK, Go, RequestsSound
<1>. QED BY <1>1, <1>2 DEF RequestsSound, Sound, Refundable

\* The claims about the row and the webhooks in flight, where only the row moves.
Booked == PaidIsReal /\ CapturedIsReal /\ RecordedIsApplied

\* Stripe never takes back a payment or a capture.
LEMMA BookedStays ==
  ASSUME Booked, row' = row, processed' = processed,
         \A s \in Sessions : stripe[s] \in {"paid", "captured"} => stripe'[s] = stripe[s]
  PROVE  Booked'
BY DEF Booked, PaidIsReal, CapturedIsReal, RecordedIsApplied, Sessions

LEMMA ArriveInv ==
  ASSUME Books, NEW p \in Requests, NEW op \in AllOps,
         NEW at \in {"create", "retrieve", "call", "refund", "write"}, Arrive(p, op, at),
         at \in {"retrieve", "call"} => op \in Settling /\ row.pi # None,
         at = "refund" => op \in Refunding /\ Refundable([row |-> row, op |-> op]) \in Sessions,
         at = "create" => op \in {"checkout", "publicCheckout", "deposit"}
  PROVE  Books'
<1>. DEFINE n == [Idle EXCEPT !.op = op, !.at = at, !.row = row]
<1>1. /\ Go(p, n) /\ row \in Row
      /\ UNCHANGED <<row, stripe, sent, refunded, processed, hook, ledger, crashes>>
  BY DEF Arrive, external, Books, TypeOK
<1>2. n \in Request /\ Sound(n)
  BY <1>1 DEF Idle, Request, Sound, Refundable
<1>. HIDE DEF n
<1>3. req' \in [Requests -> Request] /\ RequestsSound'
  BY <1>1, <1>2, GoSound DEF Books
<1>. QED BY <1>1, <1>3 DEF Books, TypeOK, EventsSound, ReadsSound, PaidIsReal, CapturedIsReal,
                           RecordedIsApplied, Applies

LEMMA RequestInv ==
  ASSUME Books, NEW p \in Requests,
         \/ RequestCheckout(p) \/ RequestDeposit(p) \/ RequestCapture(p) \/ RequestRelease(p)
         \/ RequestRefund(p) \/ RequestCancel(p) \/ RequestDelete(p)
  PROVE  Books'
<1>. USE DEF AllOps, Settling, Refunding
<1>0. row # None => row \in Row
  BY DEF Books, TypeOK
<1>1. CASE RequestCheckout(p) BY <1>1, ArriveInv DEF RequestCheckout
<1>2. CASE RequestDeposit(p) BY <1>2, ArriveInv DEF RequestDeposit
<1>3. CASE RequestCapture(p) BY <1>3, ArriveInv DEF RequestCapture
<1>4. CASE RequestRelease(p) BY <1>4, ArriveInv DEF RequestRelease
<1>5. CASE RequestRefund(p)
  <2>1. row \in Row
    BY <1>0, <1>5 DEF RequestRefund, Arrive
  <2>2. CASE Arrive(p, "refundRental", "refund") /\ row.paid /\ row.session # None
    <3>1. Refundable([row |-> row, op |-> "refundRental"]) \in Sessions
      BY <2>1, <2>2, RowFields DEF Refundable, Sessions
    <3>. QED BY <3>1, <2>2, ArriveInv
  <2>3. CASE Arrive(p, "refundDeposit", "refund") /\ row.hold = "CAPTURED" /\ row.pi # None
    <3>1. Refundable([row |-> row, op |-> "refundDeposit"]) \in Sessions
      BY <2>1, <2>3, RowFields DEF Refundable, Sessions
    <3>. QED BY <3>1, <2>3, ArriveInv
  <2>. QED BY <1>5, <2>2, <2>3 DEF RequestRefund
<1>6. CASE RequestCancel(p) BY <1>6, ArriveInv DEF RequestCancel
<1>7. CASE RequestDelete(p) BY <1>7, ArriveInv DEF RequestDelete
<1>. QED BY <1>1, <1>2, <1>3, <1>4, <1>5, <1>6, <1>7

\* A step of the customer: an event is sent only with what it reports.
LEMMA CustomerStep ==
  ASSUME Books, NEW s \in Sessions, NEW from \in {"open", "processing", "held"}, NEW to \in SessionStates,
         Becomes(s, from, to), NEW type \in {"completed", "succeeded"}, NEW payment \in {"paid", "unpaid"},
         UNCHANGED sent \/ Emit(s, type, payment),
         s \in Rentals => to = "paid" \/ UNCHANGED sent \/ (type = "completed" /\ payment = "unpaid")
  PROVE  Books'
<1>2. /\ stripe' = [stripe EXCEPT ![s] = to] /\ stripe[s] = from
      /\ UNCHANGED <<row, processed, hook, req, refunded, ledger, crashes>>
  BY DEF Becomes
<1>3. \A x \in Sessions : stripe[x] \in {"paid", "captured", "created"} => stripe'[x] = stripe[x]
  BY <1>2 DEF Books, TypeOK
<1>. DEFINE e == [session |-> s, type |-> type, payment |-> payment]
<1>4. e \in Events /\ e.session = s /\ e.type = type /\ e.payment = payment
  BY DEF Events
<1>5. sent' = sent \/ (sent' = sent \cup {e} /\ (s \in Rentals /\ Applies(e) => stripe'[s] = "paid"))
  <2>1. stripe'[s] = to
    BY <1>2 DEF Books, TypeOK
  <2>2. CASE Emit(s, type, payment)
    <3>1. s \in Rentals => to = "paid" \/ UNCHANGED sent \/ ~Applies(e)
      BY <1>4, PaymentsAssumption DEF Applies
    <3>. QED BY <2>1, <2>2, <3>1 DEF Emit
  <2>. QED BY <2>2
<1>. HIDE DEF e
<1>6. TypeOK'
  BY <1>2, <1>4, <1>5 DEF Books, TypeOK
<1>7. EventsSound'
  <2>1. ASSUME NEW x \in sent', x.session \in Rentals, Applies(x) PROVE stripe'[x.session] = "paid"
    BY <1>3, <1>4, <1>5, <2>1 DEF Books, EventsSound, Sessions
  <2>. QED BY <1>2, <1>5, <2>1 DEF Books, EventsSound, Applies
<1>8. RequestsSound'
  BY <1>2, <1>3 DEF Books, TypeOK, RequestsSound, Sound, Refundable, Row, Sessions
<1>9. ReadsSound' /\ Booked'
  BY <1>2, <1>3, BookedStays DEF Books, ReadsSound, Booked
<1>. QED BY <1>6, <1>7, <1>8, <1>9 DEF Books, Booked

LEMMA CustomerInv ==
  ASSUME Books,
         \/ \E s \in Rentals : CustomerPays(s)
         \/ \E d \in Deposits : CustomerAuthorises(d)
         \/ \E s \in Sessions : SessionExpires(s)
  PROVE  Books'
<1>. USE DEF SessionStates, Sessions
<1>1. ASSUME NEW s \in Rentals, CustomerPays(s) PROVE Books'
  <2>1. CASE Becomes(s, "open", "paid") /\ Emit(s, "completed", "paid") BY <2>1, CustomerStep
  <2>2. CASE Becomes(s, "open", "processing") /\ Emit(s, "completed", "unpaid") BY <2>2, CustomerStep
  <2>3. CASE Becomes(s, "processing", "paid") /\ Emit(s, "succeeded", "paid") BY <2>3, CustomerStep
  <2>4. CASE Becomes(s, "processing", "failed") /\ UNCHANGED sent BY <2>4, CustomerStep
  <2>. QED BY <1>1, <2>1, <2>2, <2>3, <2>4 DEF CustomerPays
<1>2. ASSUME NEW d \in Deposits, CustomerAuthorises(d) PROVE Books'
  <2>1. d \notin Rentals BY PaymentsAssumption
  <2>2. CASE Becomes(d, "open", "held") /\ Emit(d, "completed", "unpaid") BY <2>1, <2>2, CustomerStep
  <2>3. CASE Becomes(d, "held", "canceled") /\ UNCHANGED sent BY <2>1, <2>3, CustomerStep
  <2>. QED BY <1>2, <2>2, <2>3 DEF CustomerAuthorises
<1>3. ASSUME NEW s \in Sessions, SessionExpires(s) PROVE Books'
  BY <1>3, CustomerStep DEF SessionExpires
<1>. QED BY <1>1, <1>2, <1>3

LEMMA WebhookBeginInv == ASSUME Books, NEW e \in Events, WebhookBegin(e) PROVE Books'
<1>. DEFINE h == [event |-> e, row |-> row]
<1>1. /\ hook' = hook \cup {h} /\ e \in sent /\ Applies(e)
      /\ UNCHANGED <<row, stripe, sent, refunded, processed, req, ledger, crashes>>
  BY DEF WebhookBegin, external
<1>2. h \in [event : Events, row : Row \cup {None}] /\ h.event = e /\ h.row = row
  BY DEF Books, TypeOK
<1>. HIDE DEF h
<1>3. TypeOK' /\ EventsSound'
  BY <1>1, <1>2 DEF Books, TypeOK, EventsSound, Applies
<1>4. ReadsSound'
  BY <1>1, <1>2 DEF Books, ReadsSound
<1>5. RequestsSound' /\ Booked'
  BY <1>1, BookedStays DEF Books, RequestsSound, Sound, Refundable, Booked
<1>. QED BY <1>3, <1>4, <1>5 DEF Books, Booked

LEMMA WebhookRollbackInv == ASSUME Books, NEW e \in Events, WebhookRollback(e) PROVE Books'
<1>1. /\ hook' \subseteq hook /\ crashes' \in 0..MaxCrashes
      /\ UNCHANGED <<row, stripe, sent, refunded, processed, req, ledger>>
  BY PaymentsAssumption DEF WebhookRollback, external, Books, TypeOK
<1>2. TypeOK' /\ EventsSound' /\ ReadsSound'
  BY <1>1 DEF Books, TypeOK, EventsSound, ReadsSound, Applies
<1>3. RequestsSound' /\ Booked'
  BY <1>1, BookedStays DEF Books, RequestsSound, Sound, Refundable, Booked
<1>. QED BY <1>2, <1>3 DEF Books, Booked

\* The write of a webhook transaction, on a row that is still there.
LEMMA AppliedRow ==
  ASSUME Books, NEW h \in hook, ~Ignored(h), row # None
  PROVE  /\ Applied(h) \in Row
         /\ h.event.session \in Rentals => Applied(h).paid /\ Applied(h).hold = row.hold
         /\ h.event.session \notin Rentals => Applied(h).paid = row.paid /\ Applied(h).hold = "UNCAPTURED"
<1>1. row \in Row /\ h.event \in Events /\ h.row \in Row
  BY DEF Books, TypeOK, Ignored
<1>2. nextStatus(h.row.status) \in Statuses
  BY <1>1, RowFields DEF nextStatus, Statuses, Cancellable
<1>3. h.event.session \in Sessions
  BY <1>1 DEF Events
<1>4. CASE h.event.session \in Rentals
  BY <1>1, <1>2, <1>4 DEF Applied, Row
<1>5. CASE h.event.session \notin Rentals
  BY <1>1, <1>3, <1>5 DEF Applied, Row, Sessions, HoldStatuses, OnBook
<1>. QED BY <1>4, <1>5

LEMMA WebhookCommitInv == ASSUME Books, NEW e \in Events, WebhookCommit(e) PROVE Books'
<1>1. PICK h \in hook :
        /\ h.event = e /\ hook' = hook \ {h}
        /\ row' = IF Ignored(h) \/ row = None THEN row ELSE Applied(h)
        /\ processed' = IF Ignored(h) \/ row # None THEN processed \cup {e} ELSE processed
        /\ UNCHANGED <<stripe, sent, refunded, req, ledger, crashes>>
  BY DEF WebhookCommit, external
<1>2. e \in sent /\ Applies(e)
  BY <1>1 DEF Books, EventsSound
<1>3. RequestsSound'
  BY <1>1 DEF Books, RequestsSound, Sound, Refundable
<1>4. CASE Ignored(h) \/ row = None
  <2>1. row' = row
    BY <1>1, <1>4
  <2>2. TypeOK' /\ EventsSound' /\ ReadsSound'
    BY <1>1, <1>2, <2>1 DEF Books, TypeOK, EventsSound, ReadsSound, Applies
  <2>3. PaidIsReal' /\ CapturedIsReal'
    BY <1>1, <2>1 DEF Books, PaidIsReal, CapturedIsReal
  <2>4. RecordedIsApplied'
    <3>1. SUFFICES ASSUME row # None, e \in processed', e.session \in Rentals PROVE row.paid
      BY <1>1, <2>1 DEF Books, RecordedIsApplied
    <3>2. Ignored(h)
      BY <1>4, <3>1
    <3>3. h.row # None
      BY <3>1 DEF Books, ReadsSound
    <3>4. h.row.paid
      BY <1>1, <3>1, <3>2, <3>3, PaymentsAssumption DEF Ignored
    <3>. QED BY <3>1, <3>3, <3>4 DEF Books, ReadsSound
  <2>. QED BY <1>3, <2>2, <2>3, <2>4 DEF Books
<1>5. CASE ~Ignored(h) /\ row # None
  <2>. DEFINE a == Applied(h)
  <2>1. row' = a /\ processed' = processed \cup {e}
    BY <1>1, <1>5
  <2>2. /\ a \in Row
        /\ e.session \in Rentals => a.paid /\ a.hold = row.hold
        /\ e.session \notin Rentals => a.paid = row.paid /\ a.hold = "UNCAPTURED"
    BY <1>1, <1>5, AppliedRow
  <2>. HIDE DEF a
  <2>3. TypeOK' /\ EventsSound'
    BY <1>1, <1>2, <2>1, <2>2 DEF Books, TypeOK, EventsSound, Applies
  <2>4. ReadsSound'
    BY <1>1, <1>5, <2>1, <2>2 DEF Books, ReadsSound
  <2>5. PaidIsReal'
    <3>1. e.session \in Rentals => stripe[e.session] = "paid"
      BY <1>2 DEF Books, EventsSound
    <3>. QED BY <1>1, <1>5, <2>1, <2>2, <3>1 DEF Books, PaidIsReal
  <2>6. CapturedIsReal' /\ RecordedIsApplied'
    BY <1>1, <1>5, <2>1, <2>2 DEF Books, CapturedIsReal, RecordedIsApplied
  <2>. QED BY <1>3, <2>3, <2>4, <2>5, <2>6 DEF Books
<1>. QED BY <1>4, <1>5

\* A request ends, and the row is written with the same or less paid and captured.
LEMMA FinishSound ==
  ASSUME TypeOK, RequestsSound, NEW p \in Requests, Finish(p), stripe' = stripe, refunded' = refunded
  PROVE  req' \in [Requests -> Request] /\ RequestsSound'
BY GoSound, IdleSound DEF Finish

LEMMA AbortInv == ASSUME Books, NEW p \in Requests, Abort(p) PROVE Books'
<1>1. /\ Finish(p)
      /\ UNCHANGED <<row, stripe, sent, refunded, processed, hook, ledger, crashes>>
  BY DEF Abort, external
<1>2. req' \in [Requests -> Request] /\ RequestsSound'
  BY <1>1, FinishSound DEF Books
<1>. QED BY <1>1, <1>2 DEF Books, TypeOK, EventsSound, ReadsSound, PaidIsReal, CapturedIsReal,
                           RecordedIsApplied, Applies

\* The requests that have not moved, when Stripe moves one session.
LEMMA OthersSound ==
  ASSUME TypeOK, RequestsSound, NEW p \in Requests, NEW n \in Request, Go(p, n), NEW s \in Sessions, NEW to,
         stripe' = [stripe EXCEPT ![s] = to], stripe[s] # "captured",
         \A q \in Requests : q # p /\ req[q].at = "store" => req[q].session # s,
         refunded' = refunded, Sound(n)'
  PROVE  req' \in [Requests -> Request] /\ RequestsSound'
<1>1. req' \in [Requests -> Request] /\ req' = [req EXCEPT ![p] = n]
  BY DEF TypeOK, Go
<1>2. ASSUME NEW q \in Requests, q # p PROVE Sound(req[q])'
  <2>1. req'[q] = req[q] /\ req[q] \in Request /\ Sound(req[q])
    BY <1>1, <1>2 DEF TypeOK, RequestsSound
  <2>2. req[q].row \in Row /\ req[q].row.pi # None => req[q].row.pi \in Sessions
    BY RowFields DEF Sessions
  <2>3. req[q].session \in Rentals \/ req[q].session \in Deposits => req[q].session \in Sessions
    BY DEF Sessions
  <2>. QED BY <1>2, <2>1, <2>2, <2>3 DEF TypeOK, Sound, Refundable
<1>. QED BY <1>1, <1>2 DEF RequestsSound, Sound, Refundable

LEMMA CreateSessionInv == ASSUME Books, NEW p \in Requests, CreateSession(p) PROVE Books'
<1>. DEFINE r == req[p]
<1>1. PICK s \in IF r.op = "deposit" THEN Deposits ELSE Rentals :
        /\ stripe[s] = "none" /\ stripe' = [stripe EXCEPT ![s] = "created"]
        /\ Go(p, [r EXCEPT !.at = "store", !.session = s])
        /\ UNCHANGED <<row, sent, processed, hook, refunded, ledger, crashes>>
  BY DEF CreateSession
<1>2. s \in Sessions /\ r \in Request
  BY DEF Sessions, Books, TypeOK
<1>. PICK n : n = [r EXCEPT !.at = "store", !.session = s]
  OBVIOUS
<1>3. n \in Request /\ n.at = "store" /\ n.session = s /\ n.op = r.op
  BY <1>2 DEF Request
<1>4. Sound(n)'
  BY <1>1, <1>2, <1>3 DEF Sound, Books, TypeOK
<1>5. \A q \in Requests : req[q].at = "store" => req[q].session # s
  BY <1>1 DEF Books, RequestsSound, Sound
<1>6. req' \in [Requests -> Request] /\ RequestsSound'
  <2>1. /\ TypeOK /\ RequestsSound /\ Go(p, n) /\ refunded' = refunded
        /\ stripe' = [stripe EXCEPT ![s] = "created"] /\ stripe[s] # "captured"
        /\ \A q \in Requests : q # p /\ req[q].at = "store" => req[q].session # s
    BY <1>1, <1>5 DEF Books
  <2>2. s \in Sessions /\ n \in Request
    BY <1>2, <1>3
  <2>. HIDE DEF r
  <2>. QED BY <1>4, <2>1, <2>2, OthersSound, ZenonT(30)
<1>7. \A x \in Sessions : stripe[x] \in {"paid", "captured"} => stripe'[x] = stripe[x]
  BY <1>1 DEF Books, TypeOK
<1>8. TypeOK' /\ EventsSound'
  BY <1>1, <1>6, <1>7 DEF Books, TypeOK, EventsSound, Applies, SessionStates, Sessions
<1>9. ReadsSound' /\ Booked'
  BY <1>1, <1>7, BookedStays DEF Books, ReadsSound, Booked
<1>. QED BY <1>6, <1>8, <1>9 DEF Books, Booked

LEMMA RetrieveHoldInv == ASSUME Books, NEW p \in Requests, RetrieveHold(p) PROVE Books'
<1>. DEFINE n == IF stripe[req[p].row.pi] = "held" THEN [req[p] EXCEPT !.at = "call"] ELSE Idle
<1>1. /\ Go(p, n) /\ req[p].at = "retrieve" /\ req[p] \in Request /\ Sound(req[p])
      /\ UNCHANGED <<row, stripe, sent, refunded, processed, hook, ledger, crashes>>
  BY DEF RetrieveHold, external, Books, TypeOK, RequestsSound
<1>2. n \in Request /\ Sound(n)
  <2>1. CASE stripe[req[p].row.pi] = "held"
    BY <1>1, <2>1 DEF Request, Sound, Refundable
  <2>. QED BY <2>1, IdleSound
<1>. HIDE DEF n
<1>3. req' \in [Requests -> Request] /\ RequestsSound'
  BY <1>1, <1>2, GoSound DEF Books
<1>. QED BY <1>1, <1>3 DEF Books, TypeOK, EventsSound, ReadsSound, PaidIsReal, CapturedIsReal,
                           RecordedIsApplied, Applies

LEMMA SettleHoldInv == ASSUME Books, NEW p \in Requests, SettleHold(p) PROVE Books'
<1>. DEFINE r == req[p]  d == r.row.pi  to == IF r.op = "capture" THEN "captured" ELSE "canceled"
            n(at) == [r EXCEPT !.at = at]
<1>1. r \in Request /\ Sound(r) /\ r.at = "call" /\ UNCHANGED <<row, sent, processed, hook, refunded, ledger, crashes>>
  BY DEF SettleHold, Books, TypeOK, RequestsSound
<1>2. r.op \in Settling /\ r.row \in Row /\ d \in Deposits
  BY <1>1, RowFields DEF Sound
<1>3. \A at \in {"done", "failed"} : n(at) \in Request
  BY <1>1 DEF Request
<1>4. CASE Go(p, n("failed")) /\ UNCHANGED stripe
  <2>1. Sound(n("failed"))
    BY <1>1, <1>2 DEF Sound, Request
  <2>2. req' \in [Requests -> Request] /\ RequestsSound'
    BY <1>1, <1>3, <1>4, <2>1, GoSound DEF Books
  <2>. QED BY <1>1, <1>4, <2>2 DEF Books, TypeOK, EventsSound, ReadsSound, PaidIsReal, CapturedIsReal,
                                   RecordedIsApplied, Applies
<1>5. CASE stripe[d] = "held" /\ stripe' = [stripe EXCEPT ![d] = to] /\ \E at \in {"done", "failed"} : Go(p, n(at))
  <2>. PICK at \in {"done", "failed"} : Go(p, n(at))
    BY <1>5
  <2>. PICK m, x, v : m = n(at) /\ x = d /\ v = to
    OBVIOUS
  <2>1. /\ m \in Request /\ m.at = at /\ m.op = r.op /\ m.row = r.row /\ m.row.pi = x
        /\ x \in Deposits /\ stripe[x] = "held" /\ stripe' = [stripe EXCEPT ![x] = v] /\ Go(p, m)
    BY <1>1, <1>2, <1>3, <1>5 DEF Request
  <2>2. Sound(m)'
    <3>1. r.op = "capture" => stripe'[x] = "captured"
      BY <1>5, <2>1 DEF Books, TypeOK, Sessions
    <3>. QED BY <1>2, <2>1, <3>1, PaymentsAssumption DEF Sound
  <2>3. \A q \in Requests : req[q].at = "store" => req[q].session # x
    BY <2>1 DEF Books, RequestsSound, Sound
  <2>4. req' \in [Requests -> Request] /\ RequestsSound'
    <3>1. x \in Sessions /\ refunded' = refunded /\ TypeOK /\ RequestsSound
      BY <1>1, <2>1 DEF Sessions, Books
    <3>2. stripe[x] # "captured"
      BY <2>1
    <3>. HIDE DEF n, r, d, to
    <3>. QED BY <2>1, <2>2, <2>3, <3>1, <3>2, OthersSound
  <2>5. \A s \in Sessions : stripe[s] \in {"paid", "captured"} => stripe'[s] = stripe[s]
    BY <1>5 DEF Books, TypeOK
  <2>6. TypeOK' /\ EventsSound'
    BY <1>1, <1>2, <1>5, <2>4, <2>5 DEF Books, TypeOK, EventsSound, Applies, SessionStates, Sessions
  <2>7. ReadsSound' /\ Booked'
    BY <1>1, <2>5, BookedStays DEF Books, ReadsSound, Booked
  <2>. QED BY <2>4, <2>6, <2>7 DEF Books, Booked
<1>. QED BY <1>4, <1>5 DEF SettleHold

LEMMA StoreSessionInv == ASSUME Books, SessionsApart, NEW p \in Requests, StoreSession(p) PROVE Books'
<1>. PICK r, s : r = req[p] /\ s = req[p].session
  OBVIOUS
<1>1. /\ r \in Request /\ r.at = "store" /\ Finish(p) /\ stripe[s] = "created" /\ s \in Sessions
      /\ r.op # "deposit" => s \in Rentals
      /\ r.op = "deposit" => s \in Deposits
      /\ UNCHANGED <<sent, processed, hook, refunded, ledger, crashes>>
  BY DEF StoreSession, Books, TypeOK, RequestsSound, Sound, Sessions
<1>2. CASE row = None
  <2>1. row' = row /\ stripe' = stripe
    BY <1>2 DEF StoreSession
  <2>2. req' \in [Requests -> Request] /\ RequestsSound'
    BY <1>1, <2>1, FinishSound DEF Books
  <2>. QED BY <1>1, <2>1, <2>2 DEF Books, TypeOK, EventsSound, ReadsSound, PaidIsReal, CapturedIsReal,
                                   RecordedIsApplied, Applies
<1>3. CASE row # None
  <2>1. /\ stripe' = [stripe EXCEPT ![s] = "open"]
        /\ row' = IF r.op = "deposit" THEN [row EXCEPT !.holdSession = s, !.hold = "PENDING"]
                  ELSE [row EXCEPT !.session = s]
    BY <1>3 DEF StoreSession
  <2>2. row \in Row /\ row' \in Row /\ row'.paid = row.paid /\ (row'.hold = row.hold \/ row'.hold = "PENDING")
    <3>1. row \in Row
      BY <1>3 DEF Books, TypeOK
    <3>2. CASE r.op = "deposit"
      BY <1>1, <2>1, <3>1, <3>2 DEF Row, HoldStatuses
    <3>3. CASE r.op # "deposit"
      BY <1>1, <2>1, <3>1, <3>3 DEF Row
    <3>. QED BY <3>1, <3>2, <3>3
  <2>3. \A q \in Requests : q # p /\ req[q].at = "store" => req[q].session # s
    BY <1>1 DEF SessionsApart
  <2>4. req' \in [Requests -> Request] /\ RequestsSound'
    <3>1. Go(p, Idle) /\ Idle \in Request /\ Sound(Idle)' /\ stripe[s] # "captured"
      BY <1>1, IdleSound, IdleSoundNext DEF Finish
    <3>. QED BY <1>1, <2>1, <2>3, <3>1, OthersSound DEF Books
  <2>5. \A x \in Sessions : stripe[x] \in {"paid", "captured"} => stripe'[x] = stripe[x]
    BY <1>1, <2>1 DEF Books, TypeOK
  <2>6. TypeOK' /\ EventsSound'
    BY <1>1, <2>1, <2>2, <2>4, <2>5 DEF Books, TypeOK, EventsSound, Applies, SessionStates, Sessions
  <2>7. ReadsSound'
    BY <1>1, <1>3, <2>2 DEF Books, ReadsSound
  <2>8. PaidIsReal' /\ CapturedIsReal' /\ RecordedIsApplied'
    BY <1>1, <1>3, <2>2, <2>5 DEF Books, PaidIsReal, CapturedIsReal, RecordedIsApplied, Sessions
  <2>. QED BY <2>4, <2>6, <2>7, <2>8 DEF Books
<1>. QED BY <1>2, <1>3

\* A write of the row that leaves the payment alone, and the deposit but for
\* what Stripe has done.
LEMMA RowWriteInv ==
  ASSUME Books, req' \in [Requests -> Request], RequestsSound',
         UNCHANGED <<stripe, sent, processed, hook, refunded>>, ledger' \subseteq ledger, crashes' = crashes,
         row = None => row' = None,
         \/ row' = None
         \/ row' \in Row /\ row # None /\ row'.paid = row.paid
            /\ (row'.hold = row.hold \/ row'.hold # "CAPTURED" \/ \E d \in Deposits : stripe[d] = "captured")
  PROVE  Books'
<1>1. TypeOK' /\ EventsSound' /\ ReadsSound'
  BY DEF Books, TypeOK, EventsSound, ReadsSound, Applies
<1>2. PaidIsReal' /\ CapturedIsReal' /\ RecordedIsApplied'
  BY DEF Books, PaidIsReal, CapturedIsReal, RecordedIsApplied
<1>. QED BY <1>1, <1>2 DEF Books

LEMMA StoreOutcomeInv == ASSUME Books, NEW p \in Requests, StoreOutcome(p) PROVE Books'
<1>1. /\ Finish(p) /\ req[p].at \in {"done", "failed"}
      /\ row' = IF row = None THEN None ELSE [row EXCEPT !.hold = OutcomeOf(req[p])]
      /\ UNCHANGED <<stripe, sent, processed, hook, refunded, ledger, crashes>>
  BY DEF StoreOutcome, external
<1>2. req' \in [Requests -> Request] /\ RequestsSound'
  BY <1>1, FinishSound DEF Books
<1>3. /\ OutcomeOf(req[p]) \in HoldStatuses
      /\ OutcomeOf(req[p]) = "CAPTURED" => \E d \in Deposits : stripe[d] = "captured"
  <2>1. Sound(req[p])
    BY DEF Books, RequestsSound
  <2>2. req[p].row \in Row /\ req[p].row.pi \in Deposits
    BY <1>1, <2>1, RowFields DEF Sound
  <2>. QED BY <1>1, <2>1, <2>2 DEF Sound, OutcomeOf, HoldStatuses, OnBook
<1>4. row # None => row' \in Row /\ row'.paid = row.paid /\ row'.hold = OutcomeOf(req[p])
  BY <1>1, <1>3 DEF Books, TypeOK, Row
<1>. QED BY <1>1, <1>2, <1>3, <1>4, RowWriteInv

LEMMA WriteInv ==
  ASSUME Books, NEW p \in Requests, WriteCancel(p) \/ WriteDelete(p)
  PROVE  Books'
<1>1. req' \in [Requests -> Request] /\ RequestsSound'
  BY FinishSound DEF Books, WriteCancel, WriteDelete, external
<1>2. CASE WriteCancel(p)
  <2>1. row # None => row' \in Row /\ row'.paid = row.paid /\ row'.hold = row.hold
    BY <1>2 DEF Books, TypeOK, Row, WriteCancel, Statuses
  <2>. QED BY <1>1, <1>2, <2>1, RowWriteInv DEF WriteCancel, external
<1>3. CASE WriteDelete(p)
  BY <1>1, <1>3, RowWriteInv DEF WriteDelete, external
<1>. QED BY <1>2, <1>3

LEMMA SetStatusInv == ASSUME Books, SetStatus PROVE Books'
<1>1. /\ row # None /\ \E st \in DeskStatuses : row' = [row EXCEPT !.status = st]
      /\ UNCHANGED <<stripe, sent, processed, hook, req, refunded, ledger, crashes>>
  BY DEF SetStatus, external
<1>2. row' \in Row /\ row'.paid = row.paid /\ row'.hold = row.hold
  BY <1>1, PaymentsAssumption DEF Books, TypeOK, Row
<1>3. req' \in [Requests -> Request] /\ RequestsSound'
  BY <1>1 DEF Books, TypeOK, RequestsSound, Sound, Refundable
<1>. QED BY <1>1, <1>2, <1>3, RowWriteInv

LEMMA RefundInv == ASSUME Books, NEW p \in Requests, Refund(p) PROVE Books'
<1>. PICK s, n : s = Refundable(req[p]) /\ n = [req[p] EXCEPT !.at = "ledger"]
  OBVIOUS
<1>1. /\ req[p] \in Request /\ req[p].at = "refund" /\ Sound(req[p]) /\ s \in Sessions
      /\ UNCHANGED <<row, stripe, sent, processed, hook, ledger, crashes>>
  BY DEF Refund, Books, TypeOK, RequestsSound, Sound
<1>2. CASE Finish(p) /\ UNCHANGED refunded
  <2>1. req' \in [Requests -> Request] /\ RequestsSound'
    BY <1>1, <1>2, FinishSound DEF Books
  <2>. QED BY <1>1, <1>2, <2>1 DEF Books, TypeOK, EventsSound, ReadsSound, PaidIsReal, CapturedIsReal,
                                   RecordedIsApplied, Applies
<1>3. CASE refunded' = refunded \cup {s} /\ Go(p, n)
  <2>1. n \in Request /\ n.at = "ledger" /\ n.op = req[p].op /\ n.row = req[p].row
    BY <1>1 DEF Request
  <2>2. req' \in [Requests -> Request] /\ req' = [req EXCEPT ![p] = n]
    BY <1>3, <2>1 DEF Books, TypeOK, Go
  <2>3. Refundable(n) = s
    BY <2>1 DEF Refundable
  <2>4. Sound(n)'
    BY <1>1, <1>3, <2>1, <2>3 DEF Sound, Refundable
  <2>5. RequestsSound'
    BY <1>1, <1>3, <2>2, <2>4 DEF Books, TypeOK, RequestsSound, Sound, Refundable
  <2>. QED BY <1>1, <1>3, <2>2, <2>5 DEF Books, TypeOK, EventsSound, ReadsSound, PaidIsReal, CapturedIsReal,
                                        RecordedIsApplied, Applies
<1>. QED BY <1>2, <1>3 DEF Refund

LEMMA RecordRefundInv == ASSUME Books, NEW p \in Requests, RecordRefund(p) PROVE Books'
<1>1. /\ Finish(p) /\ ledger' \subseteq ledger \cup {Refundable(req[p])}
      /\ UNCHANGED <<row, stripe, sent, processed, hook, refunded, crashes>>
  BY DEF RecordRefund, external
<1>2. Refundable(req[p]) \in refunded
  BY DEF RecordRefund, Books, RequestsSound, Sound
<1>3. req' \in [Requests -> Request] /\ RequestsSound'
  BY <1>1, FinishSound DEF Books
<1>. QED BY <1>1, <1>2, <1>3 DEF Books, TypeOK, EventsSound, ReadsSound, PaidIsReal, CapturedIsReal,
                                 RecordedIsApplied, Applies

\* Only CreateSession takes a session, one that nobody has.
LEMMA ApartInv == ASSUME Books, SessionsApart, [Next]_vars PROVE SessionsApart'
<1>1. ASSUME NEW p \in Requests, NEW n, Go(p, n), n.at # "store" PROVE SessionsApart'
  BY <1>1 DEF Books, TypeOK, SessionsApart, Go
<1>2. Idle.at = "idle"
  BY DEF Idle
<1>3. ASSUME UNCHANGED req PROVE SessionsApart'
  BY <1>3 DEF SessionsApart
<1>4. ASSUME NEW p \in Requests, NEW op, NEW at, at # "store", Arrive(p, op, at) PROVE SessionsApart'
  BY <1>1, <1>4 DEF Arrive, Idle
<1>5. ASSUME NEW p \in Requests, CreateSession(p) PROVE SessionsApart'
  <2>1. PICK s \in IF req[p].op = "deposit" THEN Deposits ELSE Rentals :
          stripe[s] = "none" /\ Go(p, [req[p] EXCEPT !.at = "store", !.session = s])
    BY <1>5 DEF CreateSession
  <2>2. \A q \in Requests : req[q].at = "store" => req[q].session # s
    BY <2>1 DEF Books, RequestsSound, Sound
  <2>3. req[p] \in Request
    BY DEF Books, TypeOK
  <2>. QED BY <2>1, <2>2, <2>3 DEF Books, TypeOK, SessionsApart, Go, Request
<1>6. ASSUME NEW p \in Requests,
             \/ StoreSession(p) \/ StoreOutcome(p) \/ RecordRefund(p) \/ WriteCancel(p) \/ WriteDelete(p) \/ Abort(p)
      PROVE  SessionsApart'
  BY <1>1, <1>2, <1>6 DEF StoreSession, StoreOutcome, RecordRefund, WriteCancel, WriteDelete, Abort, Finish
<1>7. ASSUME NEW p \in Requests, RetrieveHold(p) \/ SettleHold(p) \/ Refund(p) PROVE SessionsApart'
  <2>1. req[p] \in Request
    BY DEF Books, TypeOK
  <2>2. \E n : Go(p, n) /\ n.at # "store"
    BY <1>2, <1>7, <2>1 DEF RetrieveHold, SettleHold, Refund, Finish, Request
  <2>. QED BY <1>1, <2>2
<1>8. ASSUME NEW p \in Requests,
             \/ RequestCheckout(p) \/ RequestDeposit(p) \/ RequestCapture(p) \/ RequestRelease(p)
             \/ RequestRefund(p) \/ RequestCancel(p) \/ RequestDelete(p)
      PROVE  SessionsApart'
  BY <1>4, <1>8 DEF RequestCheckout, RequestDeposit, RequestCapture, RequestRelease, RequestRefund,
     RequestCancel, RequestDelete
<1>9. CASE \E s \in Sessions : CustomerPays(s) \/ CustomerAuthorises(s) \/ SessionExpires(s)
  BY <1>3, <1>9 DEF CustomerPays, CustomerAuthorises, SessionExpires, Becomes
<1>10. CASE (\E e \in Events : Webhook(e)) \/ SetStatus \/ UNCHANGED vars
  BY <1>3, <1>10 DEF Webhook, WebhookBegin, WebhookCommit, WebhookRollback, SetStatus, vars
<1>. QED BY <1>5, <1>6, <1>7, <1>8, <1>9, <1>10 DEF Next, Sessions

\* The steps that bring no event, take none up, and leave the row's PaymentIntent.
LEMMA ReportedStays ==
  ASSUME HoldsReported, sent' = sent, hook' = hook, processed' = processed,
         row' = row \/ row' = None \/ (row # None /\ row'.pi = row.pi)
  PROVE  HoldsReported'
BY DEF HoldsReported, Authorised

LEMMA ReportedCommit ==
  ASSUME Books, HoldsReported, NEW e \in Events, WebhookCommit(e)
  PROVE  HoldsReported'
<1>1. PICK h \in hook :
        /\ h.event = e /\ hook' = hook \ {h}
        /\ row' = IF Ignored(h) \/ row = None THEN row ELSE Applied(h)
        /\ processed' = IF Ignored(h) \/ row # None THEN processed \cup {e} ELSE processed
        /\ sent' = sent
  BY DEF WebhookCommit, external
<1>2. \A g \in hook' : g.event \notin processed'
  BY <1>1 DEF HoldsReported
<1>3. ASSUME row' # None, row'.pi # None PROVE Authorised(row'.pi) \in processed'
  <2>1. CASE row' = row
    BY <1>1, <1>3, <2>1 DEF HoldsReported
  <2>2. CASE row' = Applied(h) /\ e.session \in Rentals
    BY <1>1, <1>3, <2>2 DEF Books, TypeOK, Row, Applied, HoldsReported
  <2>3. CASE row' = Applied(h) /\ row # None /\ e.session \notin Rentals
    <3>1. row'.pi = e.session /\ e \in processed'
      BY <1>1, <2>3 DEF Books, TypeOK, Row, Applied
    <3>2. e = Authorised(e.session)
      BY <1>1, <2>3 DEF Books, EventsSound, HoldsReported, Events, Sessions
    <3>. QED BY <3>1, <3>2
  <2>. QED BY <1>1, <2>1, <2>2, <2>3
<1>. QED BY <1>1, <1>2, <1>3 DEF HoldsReported, Authorised

LEMMA ReportedStep == ASSUME Books, HoldsReported, [Next]_vars PROVE HoldsReported'
<1>1. ASSUME NEW d \in Deposits, CustomerAuthorises(d) PROVE HoldsReported'
  BY <1>1 DEF CustomerAuthorises, Becomes, Emit, HoldsReported, Authorised
<1>2. ASSUME NEW s \in Rentals, CustomerPays(s) PROVE HoldsReported'
  BY <1>2, PaymentsAssumption DEF CustomerPays, Becomes, Emit, HoldsReported, Authorised
<1>3. ASSUME NEW e \in Events, WebhookBegin(e) PROVE HoldsReported'
  BY <1>3 DEF WebhookBegin, external, HoldsReported, Authorised
<1>4. ASSUME NEW e \in Events, WebhookRollback(e) PROVE HoldsReported'
  BY <1>4 DEF WebhookRollback, external, HoldsReported, Authorised
<1>5. ASSUME NEW p \in Requests, StoreSession(p) PROVE HoldsReported'
  <2>1. CASE row = None
    BY <1>5, <2>1, ReportedStays DEF StoreSession
  <2>2. CASE row # None
    <3>1. row'.pi = row.pi
      BY <1>5, <2>2 DEF StoreSession, Books, TypeOK, Row
    <3>. QED BY <1>5, <2>2, <3>1, ReportedStays DEF StoreSession
  <2>. QED BY <2>1, <2>2
<1>6. ASSUME NEW p \in Requests, StoreOutcome(p) \/ WriteCancel(p) \/ WriteDelete(p) PROVE HoldsReported'
  <2>1. row' = row \/ row' = None \/ (row # None /\ row'.pi = row.pi)
    BY <1>6 DEF StoreOutcome, WriteCancel, WriteDelete, Books, TypeOK, Row
  <2>. QED BY <1>6, <2>1, ReportedStays DEF StoreOutcome, WriteCancel, WriteDelete, external
<1>7. CASE SetStatus
  BY <1>7, ReportedStays DEF SetStatus, external, Books, TypeOK, Row
<1>8. ASSUME NEW p \in Requests,
             \/ RequestCheckout(p) \/ RequestDeposit(p) \/ RequestCapture(p) \/ RequestRelease(p)
             \/ RequestRefund(p) \/ RequestCancel(p) \/ RequestDelete(p)
      PROVE  HoldsReported'
  BY <1>8, ReportedStays DEF RequestCheckout, RequestDeposit, RequestCapture, RequestRelease, RequestRefund,
     RequestCancel, RequestDelete, Arrive, external
<1>9. ASSUME NEW p \in Requests,
             CreateSession(p) \/ RetrieveHold(p) \/ SettleHold(p) \/ Refund(p) \/ RecordRefund(p) \/ Abort(p)
      PROVE  HoldsReported'
  BY <1>9, ReportedStays DEF CreateSession, RetrieveHold, SettleHold, Refund, RecordRefund, Abort, external
<1>10. CASE (\E s \in Sessions : SessionExpires(s)) \/ UNCHANGED vars
  BY <1>10, ReportedStays DEF SessionExpires, Becomes, vars
<1>. QED BY <1>1, <1>2, <1>3, <1>4, <1>5, <1>6, <1>7, <1>8, <1>9, <1>10, ReportedCommit DEF Next, Webhook

\* Only a webhook opens a hold, and only one whose event is not recorded.
LEMMA ReopenStep == ASSUME Books, HoldsReported, [Next]_vars, row # None, row' # None, row.pi # None,
                           row'.pi = row.pi, row'.hold = "UNCAPTURED"
                    PROVE  row.hold = "UNCAPTURED"
<1>1. row \in Row
  BY DEF Books, TypeOK
<1>2. ASSUME NEW e \in Events, WebhookCommit(e) PROVE row.hold = "UNCAPTURED"
  <2>1. PICK h \in hook : h.event = e /\ row' = IF Ignored(h) \/ row = None THEN row ELSE Applied(h)
    BY <1>2 DEF WebhookCommit
  <2>2. CASE row' = row
    BY <2>2
  <2>3. CASE row' = Applied(h) /\ e.session \in Rentals
    BY <1>1, <2>1, <2>3 DEF Applied, Row
  <2>4. CASE row' = Applied(h) /\ e.session \notin Rentals
    <3>1. row'.pi = e.session
      BY <1>1, <2>1, <2>4 DEF Applied, Row
    <3>2. e = Authorised(e.session) /\ e \notin processed
      BY <2>1, <2>4 DEF Books, EventsSound, HoldsReported, Events, Sessions
    <3>. QED BY <3>1, <3>2 DEF HoldsReported
  <2>. QED BY <2>1, <2>2, <2>3, <2>4
<1>3. ASSUME NEW p \in Requests, StoreSession(p) PROVE row.hold = "UNCAPTURED"
  BY <1>1, <1>3 DEF StoreSession, Row
<1>4. ASSUME NEW p \in Requests, StoreOutcome(p) PROVE row.hold = "UNCAPTURED"
  BY <1>1, <1>4 DEF StoreOutcome, OutcomeOf, Row
<1>5. ASSUME NEW p \in Requests, WriteCancel(p) \/ WriteDelete(p) PROVE row.hold = "UNCAPTURED"
  BY <1>1, <1>5 DEF WriteCancel, WriteDelete, Row
<1>6. CASE SetStatus
  BY <1>1, <1>6 DEF SetStatus, Row
<1>7. ASSUME row' = row PROVE row.hold = "UNCAPTURED"
  BY <1>7
<1>8. ASSUME NEW p \in Requests,
             \/ RequestCheckout(p) \/ RequestDeposit(p) \/ RequestCapture(p) \/ RequestRelease(p)
             \/ RequestRefund(p) \/ RequestCancel(p) \/ RequestDelete(p)
             \/ CreateSession(p) \/ RetrieveHold(p) \/ SettleHold(p) \/ Refund(p) \/ RecordRefund(p) \/ Abort(p)
      PROVE  row' = row
  BY <1>8 DEF RequestCheckout, RequestDeposit, RequestCapture, RequestRelease, RequestRefund, RequestCancel,
     RequestDelete, Arrive, CreateSession, RetrieveHold, SettleHold, Refund, RecordRefund, Abort
<1>9. ASSUME \/ \E s \in Sessions : CustomerPays(s) \/ CustomerAuthorises(s) \/ SessionExpires(s)
             \/ \E e \in Events : WebhookBegin(e) \/ WebhookRollback(e)
             \/ UNCHANGED vars
      PROVE  row' = row
  BY <1>9 DEF CustomerPays, CustomerAuthorises, SessionExpires, Becomes, WebhookBegin, WebhookRollback, vars
<1>. QED BY <1>2, <1>3, <1>4, <1>5, <1>6, <1>7, <1>8, <1>9 DEF Next, Webhook, Sessions

\* One step, whichever it is.
LEMMA BooksStep == ASSUME Books, SessionsApart, [Next]_vars PROVE Books'
<1>1. CASE UNCHANGED vars
  BY <1>1 DEF vars, Books, TypeOK, EventsSound, RequestsSound, ReadsSound, Sound, Refundable, PaidIsReal,
     CapturedIsReal, RecordedIsApplied, Applies
<1>2. CASE \/ \E s \in Rentals : CustomerPays(s)
           \/ \E d \in Deposits : CustomerAuthorises(d)
           \/ \E s \in Sessions : SessionExpires(s)
  BY <1>2, CustomerInv
<1>3. CASE \E e \in Events : Webhook(e)
  BY <1>3, WebhookBeginInv, WebhookCommitInv, WebhookRollbackInv DEF Webhook
<1>4. ASSUME NEW p \in Requests,
             \/ RequestCheckout(p) \/ RequestDeposit(p) \/ RequestCapture(p) \/ RequestRelease(p)
             \/ RequestRefund(p) \/ RequestCancel(p) \/ RequestDelete(p)
             \/ CreateSession(p) \/ StoreSession(p) \/ RetrieveHold(p) \/ SettleHold(p) \/ StoreOutcome(p)
             \/ Refund(p) \/ RecordRefund(p) \/ WriteCancel(p) \/ WriteDelete(p) \/ Abort(p)
      PROVE  Books'
  BY <1>4, RequestInv, CreateSessionInv, StoreSessionInv, RetrieveHoldInv, SettleHoldInv, StoreOutcomeInv,
     RefundInv, RecordRefundInv, WriteInv, AbortInv
<1>5. CASE SetStatus
  BY <1>5, SetStatusInv
<1>. QED BY <1>1, <1>2, <1>3, <1>4, <1>5 DEF Next

\* Whatever the customer, Stripe and the desk do in whatever order, the books
\* are right and every handler in flight rests on something that has happened.
THEOREM PaymentsInvariant == Spec => []PaymentsInv
<1>1. PaymentsInv /\ [Next]_vars => PaymentsInv'
  BY BooksStep, ApartInv, ReportedStep DEF PaymentsInv
<1>. QED BY InitInv, <1>1, PTL DEF Spec

\* A reservation is never recorded as paid (paidAt) before Stripe has the money,
\* whichever link was paid (applyRentalCheckoutCompleted).
THEOREM BooksAreReal == Spec => []PaidIsReal
<1>1. PaymentsInv => PaidIsReal
  BY DEF PaymentsInv, Books
<1>. QED BY PaymentsInvariant, <1>1, PTL

\* A deposit is never recorded as captured before Stripe has captured the hold,
\* however the calls of captureDeposit and releaseDeposit fail in between.
THEOREM CapturesAreReal == Spec => []CapturedIsReal
<1>1. PaymentsInv => CapturedIsReal
  BY DEF PaymentsInv, Books
<1>. QED BY PaymentsInvariant, <1>1, PTL

\* An event whose later deliveries are dropped (ProcessedStripeEvent) has been
\* applied, whatever transactions of the webhook were rolled back.
THEOREM RecordsAreApplied == Spec => []RecordedIsApplied
<1>1. PaymentsInv => RecordedIsApplied
  BY DEF PaymentsInv, Books
<1>. QED BY PaymentsInvariant, <1>1, PTL

\* A delivery of an event that was applied before (applyDepositCheckoutCompleted)
\* never brings back a hold that has been captured, released or has failed.
THEOREM ReplaysChangeNothing == Spec => ReplayNeverReopens
<1>. DEFINE Reopens == row # None /\ row' # None /\ row.pi # None /\ row'.pi = row.pi /\ row'.hold = "UNCAPTURED"
<1>1. PaymentsInv /\ [Next]_vars => [Reopens => row.hold = "UNCAPTURED"]_vars
  BY ReopenStep DEF PaymentsInv
<1>. QED BY PaymentsInvariant, <1>1, PTL DEF Spec, ReplayNeverReopens

-----------------------------------------------------------------------------
(***************************************************************************)
(* Webhooks apart from links and settlements.                              *)
(***************************************************************************)

\* What is paid, captured or released at Stripe stays so.
Finals == \A s \in Sessions : stripe[s] \in {"paid", "captured", "canceled"} => stripe'[s] = stripe[s]

LEMMA FinalsStay == ASSUME Books, [Next]_vars PROVE Finals
<1>1. ASSUME NEW s \in Sessions, NEW to, stripe' = [stripe EXCEPT ![s] = to],
             stripe[s] \notin {"paid", "captured", "canceled"}
      PROVE  Finals
  BY <1>1 DEF Finals, Books, TypeOK
<1>2. ASSUME stripe' = stripe PROVE Finals
  BY <1>2 DEF Finals
<1>3. ASSUME NEW s \in Rentals, CustomerPays(s) PROVE Finals
  <2>1. s \in Sessions
    BY DEF Sessions
  <2>. QED BY <1>1, <1>3, <2>1 DEF CustomerPays, Becomes
<1>4. ASSUME NEW d \in Deposits, CustomerAuthorises(d) PROVE Finals
  <2>1. d \in Sessions
    BY DEF Sessions
  <2>. QED BY <1>1, <1>4, <2>1 DEF CustomerAuthorises, Becomes
<1>5. ASSUME NEW s \in Sessions, SessionExpires(s) PROVE Finals
  BY <1>1, <1>5 DEF SessionExpires, Becomes
<1>6. ASSUME NEW p \in Requests, CreateSession(p) PROVE Finals
  <2>1. PICK s \in Sessions : stripe[s] = "none" /\ stripe' = [stripe EXCEPT ![s] = "created"]
    BY <1>6 DEF CreateSession, Sessions
  <2>. QED BY <1>1, <2>1
<1>7. ASSUME NEW p \in Requests, StoreSession(p) PROVE Finals
  <2>1. stripe[req[p].session] = "created" /\ req[p].session \in Sessions
    BY <1>7 DEF StoreSession, Books, RequestsSound, Sound, Sessions
  <2>. QED BY <1>1, <1>2, <1>7, <2>1 DEF StoreSession
<1>8. ASSUME NEW p \in Requests, SettleHold(p) PROVE Finals
  <2>1. req[p].row \in Row /\ req[p].row.pi # None
    BY <1>8 DEF SettleHold, Books, RequestsSound, Sound
  <2>2. req[p].row.pi \in Sessions
    BY <2>1, RowFields DEF Sessions
  <2>. QED BY <1>1, <1>2, <1>8, <2>2 DEF SettleHold
<1>9. ASSUME NEW p \in Requests,
             \/ RequestCheckout(p) \/ RequestDeposit(p) \/ RequestCapture(p) \/ RequestRelease(p)
             \/ RequestRefund(p) \/ RequestCancel(p) \/ RequestDelete(p)
             \/ RetrieveHold(p) \/ StoreOutcome(p) \/ Refund(p) \/ RecordRefund(p)
             \/ WriteCancel(p) \/ WriteDelete(p) \/ Abort(p)
      PROVE  Finals
  BY <1>2, <1>9 DEF RequestCheckout, RequestDeposit, RequestCapture, RequestRelease, RequestRefund, RequestCancel,
     RequestDelete, Arrive, RetrieveHold, StoreOutcome, Refund, RecordRefund, WriteCancel, WriteDelete, Abort, external
<1>10. CASE (\E e \in Events : Webhook(e)) \/ SetStatus \/ UNCHANGED vars
  BY <1>2, <1>10 DEF Webhook, WebhookBegin, WebhookCommit, WebhookRollback, SetStatus, external, vars
<1>. QED BY <1>3, <1>4, <1>5, <1>6, <1>7, <1>8, <1>9, <1>10 DEF Next

\* The row says of the payment and of the hold what it said, or has gone.
SameHold == row' = None \/ (row # None /\ row'.paid = row.paid /\ row'.pi = row.pi)
SameMoney == row' = None \/ (row # None /\ row'.paid = row.paid /\ row'.pi = row.pi
                                        /\ row'.session = row.session /\ row'.hold = row.hold)

\* What request record r has in hand, of row w and of Stripe's state st.
Held(r, w, st) ==
  /\ r.at \in {"create", "store"} => r.op \in Links \cup {"deposit"}
  /\ r.op \in Links => w = None \/ ~w.paid
  /\ r.op \in Settling => w = None \/ w.pi = r.row.pi
  /\ r.at = "done" => st[r.row.pi] = IF r.op = "capture" THEN "captured" ELSE "canceled"

LEMMA HandsAreHeld ==
  /\ SerialInv <=> RowTells /\ \A q \in Requests : Held(req[q], row, stripe)
  /\ SerialInv' <=> RowTells' /\ \A q \in Requests : Held(req'[q], row', stripe')
BY DEF SerialInv, InHand, Held

LEMMA TellsStay == ASSUME Books, RowTells, Finals, SameMoney PROVE RowTells'
<1>1. row # None => row.session \in Sessions \cup {None} /\ row.pi \in Sessions \cup {None}
  BY RowFields DEF Books, TypeOK, Sessions
<1>. QED BY <1>1 DEF RowTells, SameMoney, Finals

\* What a request has in hand stays so while it waits.
LEMMA HandStays ==
  ASSUME Books, Finals, SameHold, NEW r \in Request, Sound(r), InHand(r)
  PROVE  Held(r, row', stripe')
<1>1. r.at = "done" => r.row.pi \in Sessions /\ r.op \in Settling
  BY RowFields DEF Sound, Sessions
<1>2. r.at = "done" => stripe'[r.row.pi] = IF r.op = "capture" THEN "captured" ELSE "canceled"
  BY <1>1 DEF InHand, Held, Finals
<1>. QED BY <1>2 DEF InHand, Held, SameHold

\* One request moves on.
LEMMA HandsStay ==
  ASSUME Books, Finals, SameHold, SerialInv, NEW p \in Requests, NEW n, Go(p, n), Held(n, row', stripe')
  PROVE  \A q \in Requests : Held(req'[q], row', stripe')
<1>1. ASSUME NEW q \in Requests PROVE Held(req'[q], row', stripe')
  <2>1. CASE q = p
    <3>1. req'[q] = n
      BY <2>1 DEF Books, TypeOK, Go
    <3>. QED BY <3>1
  <2>2. CASE q # p
    <3>1. PICK r \in Request : r = req[q]
      BY DEF Books, TypeOK
    <3>2. Sound(r) /\ InHand(r)
      BY <3>1 DEF Books, RequestsSound, SerialInv
    <3>3. Held(r, row', stripe')
      BY <3>2, HandStays
    <3>4. req'[q] = r
      BY <2>2, <3>1 DEF Books, TypeOK, Go
    <3>. QED BY <3>3, <3>4
  <2>. QED BY <2>1, <2>2
<1>. QED BY <1>1

LEMMA IdleInHand == Held(Idle, row', stripe')
BY DEF Held, Idle, Links, Settling

LEMMA ArriveHand ==
  ASSUME Books, NEW p \in Requests, NEW op \in AllOps, NEW at, Arrive(p, op, at), at \notin {"store", "done"},
         at = "create" => op \in Links \cup {"deposit"}, op \in Links => ~row.paid
  PROVE  \E n : Go(p, n) /\ Held(n, row', stripe')
<1>. PICK n : n = [Idle EXCEPT !.op = op, !.at = at, !.row = row]
  OBVIOUS
<1>1. n.op = op /\ n.at = at /\ n.row = row /\ Go(p, n) /\ row' = row
  BY DEF Arrive, Idle
<1>2. Held(n, row', stripe')
  BY <1>1 DEF Held
<1>. QED BY <1>1, <1>2

LEMMA RequestHand ==
  ASSUME Books, NEW p \in Requests,
         \/ RequestCheckout(p) \/ RequestDeposit(p) \/ RequestCapture(p) \/ RequestRelease(p)
         \/ RequestRefund(p) \/ RequestCancel(p) \/ RequestDelete(p)
  PROVE  /\ \E n : Go(p, n) /\ Held(n, row', stripe')
         /\ row' = row /\ row # None
<1>1. row' = row /\ row # None
  BY DEF RequestCheckout, RequestDeposit, RequestCapture, RequestRelease, RequestRefund, RequestCancel, RequestDelete, Arrive
<1>2. PICK op \in AllOps, at \in {"create", "retrieve", "call", "refund", "write"} :
        /\ Arrive(p, op, at)
        /\ at = "create" => op \in Links \cup {"deposit"}
        /\ op \in Links => ~row.paid
  BY DEF RequestCheckout, RequestDeposit, RequestCapture, RequestRelease, RequestRefund, RequestCancel, RequestDelete,
         AllOps, Settling, Refunding, Links
<1>3. at \notin {"store", "done"}
  BY <1>2
<1>. QED BY <1>1, <1>2, <1>3, ArriveHand

\* Steps of a request that leave the row alone.
LEMMA CallHand ==
  ASSUME Books, NEW p \in Requests, InHand(req[p]),
         CreateSession(p) \/ RetrieveHold(p) \/ SettleHold(p) \/ Refund(p) \/ RecordRefund(p) \/ Abort(p)
  PROVE  row' = row /\ \E n : Go(p, n) /\ Held(n, row', stripe')
<1>0. PICK r \in Request : r = req[p] /\ Sound(r)
  BY DEF Books, TypeOK, RequestsSound
<1>1. row' = row
  BY DEF CreateSession, RetrieveHold, SettleHold, Refund, RecordRefund, Abort
<1>2. ASSUME Finish(p) PROVE \E n : Go(p, n) /\ Held(n, row', stripe')
  BY <1>2, IdleInHand DEF Finish
<1>3. CASE CreateSession(p)
  <2>1. PICK s : Go(p, [r EXCEPT !.at = "store", !.session = s])
    BY <1>0, <1>3 DEF CreateSession
  <2>2. PICK n : n = [r EXCEPT !.at = "store", !.session = s]
    OBVIOUS
  <2>3. n.op = r.op /\ n.at = "store" /\ n.row = r.row /\ r.at = "create"
    BY <1>0, <1>3, <2>2 DEF CreateSession, Request
  <2>4. Held(n, row', stripe')
    BY <1>0, <1>1, <2>3 DEF InHand, Held
  <2>. QED BY <1>1, <2>1, <2>2, <2>4
<1>4. ASSUME NEW at \in {"call", "failed", "ledger"}, Go(p, [r EXCEPT !.at = at]) PROVE \E n : Go(p, n) /\ Held(n, row', stripe')
  <2>1. PICK n : n = [r EXCEPT !.at = at]
    OBVIOUS
  <2>2. n.op = r.op /\ n.at = at /\ n.row = r.row
    BY <1>0, <2>1 DEF Request
  <2>3. Held(n, row', stripe')
    BY <1>0, <1>1, <2>2 DEF InHand, Held
  <2>. QED BY <1>4, <2>1, <2>3
<1>5. CASE RetrieveHold(p)
  BY <1>0, <1>1, <1>2, <1>4, <1>5 DEF RetrieveHold, Finish
<1>6. CASE SettleHold(p)
  <2>1. CASE \E at \in {"failed"} : Go(p, [r EXCEPT !.at = at])
    BY <1>1, <1>4, <2>1
  <2>2. CASE /\ stripe[r.row.pi] = "held" /\ Go(p, [r EXCEPT !.at = "done"])
             /\ stripe' = [stripe EXCEPT ![r.row.pi] = IF r.op = "capture" THEN "captured" ELSE "canceled"]
    <3>1. PICK n : n = [r EXCEPT !.at = "done"]
      OBVIOUS
    <3>2. n.op = r.op /\ n.at = "done" /\ n.row = r.row
      BY <1>0, <3>1 DEF Request
    <3>3. r.row \in Row /\ r.row.pi # None /\ r.row.pi \in Sessions
      BY <1>0, <1>6, RowFields DEF SettleHold, Sound, Sessions
    <3>4. stripe'[n.row.pi] = IF n.op = "capture" THEN "captured" ELSE "canceled"
      BY <2>2, <3>2, <3>3 DEF Books, TypeOK
    <3>5. Held(n, row', stripe')
      BY <1>0, <1>1, <3>2, <3>4 DEF InHand, Held
    <3>. QED BY <1>1, <2>2, <3>1, <3>5
  <2>. QED BY <1>0, <1>6, <2>1, <2>2 DEF SettleHold
<1>7. CASE Refund(p)
  BY <1>0, <1>1, <1>2, <1>4, <1>7 DEF Refund
<1>8. CASE RecordRefund(p) \/ Abort(p)
  BY <1>1, <1>2, <1>8 DEF RecordRefund, Abort
<1>. QED BY <1>1, <1>3, <1>5, <1>6, <1>7, <1>8

\* The writes of requests: a link over an unpaid reservation, the outcome of the
\* hold that is on the row.
LEMMA WriteSerial ==
  ASSUME Books, SerialInv, Finals, NEW p \in Requests,
         StoreSession(p) \/ StoreOutcome(p) \/ WriteCancel(p) \/ WriteDelete(p)
  PROVE  SameHold /\ RowTells'
<1>0. /\ row # None => row \in Row
      /\ req[p] \in Request /\ Sound(req[p]) /\ InHand(req[p])
  BY DEF Books, TypeOK, RequestsSound, SerialInv
<1>1. CASE row = None
  BY <1>1 DEF StoreSession, StoreOutcome, WriteCancel, WriteDelete, SameHold, RowTells
<1>2. CASE row # None /\ StoreSession(p)
  <2>1. CASE req[p].op = "deposit"
    <3>1. row' = [row EXCEPT !.holdSession = req[p].session, !.hold = "PENDING"]
      BY <1>2, <2>1 DEF StoreSession
    <3>2. row'.paid = row.paid /\ row'.pi = row.pi /\ row'.session = row.session /\ row'.hold = "PENDING"
      BY <1>0, <1>2, <3>1 DEF Row
    <3>3. row.paid => row.session # None /\ stripe'[row.session] = "paid"
      <4>1. row.session \in Sessions \cup {None}
        BY <1>0, <1>2, RowFields DEF Sessions
      <4>. QED BY <1>2, <4>1 DEF SerialInv, RowTells, Finals
    <3>. QED BY <1>2, <3>2, <3>3 DEF SameHold, RowTells
  <2>2. CASE req[p].op # "deposit"
    <3>1. row' = [row EXCEPT !.session = req[p].session]
      BY <1>2, <2>2 DEF StoreSession
    <3>2. row'.paid = row.paid /\ row'.pi = row.pi /\ row'.hold = row.hold
      BY <1>0, <1>2, <3>1 DEF Row
    <3>3. ~row.paid
      BY <1>0, <1>2, <2>2 DEF StoreSession, InHand, Held
    <3>4. /\ row.hold = "CAPTURED" => row.pi # None /\ stripe'[row.pi] = "captured"
          /\ row.hold = "CANCELED" => row.pi # None /\ stripe'[row.pi] = "canceled"
      <4>1. row.pi \in Sessions \cup {None}
        BY <1>0, <1>2, RowFields DEF Sessions
      <4>. QED BY <1>2, <4>1 DEF SerialInv, RowTells, Finals
    <3>. QED BY <1>2, <3>2, <3>3, <3>4 DEF SameHold, RowTells
  <2>. QED BY <2>1, <2>2
<1>3. CASE row # None /\ StoreOutcome(p)
  <2>1. row' = [row EXCEPT !.hold = OutcomeOf(req[p])] /\ req[p].at \in {"done", "failed"} /\ stripe' = stripe
    BY <1>3 DEF StoreOutcome, external
  <2>2. row'.paid = row.paid /\ row'.pi = row.pi /\ row'.session = row.session /\ row'.hold = OutcomeOf(req[p])
    BY <1>0, <1>3, <2>1 DEF Row
  <2>3. req[p].op \in Settling /\ req[p].row.pi # None /\ row.pi = req[p].row.pi
    BY <1>0, <1>3, <2>1 DEF Sound, InHand, Held
  <2>4. /\ row'.hold = "CAPTURED" => stripe[row.pi] = "captured"
        /\ row'.hold = "CANCELED" => stripe[row.pi] = "canceled"
    BY <1>0, <2>1, <2>2, <2>3 DEF OutcomeOf, InHand, Held
  <2>. QED BY <1>3, <2>1, <2>2, <2>3, <2>4 DEF SameHold, RowTells, SerialInv
<1>4. CASE row # None /\ (WriteCancel(p) \/ WriteDelete(p))
  <2>1. SameMoney
    BY <1>0, <1>4 DEF WriteCancel, WriteDelete, SameMoney, Row
  <2>. QED BY <2>1, TellsStay DEF SameMoney, SameHold, SerialInv
<1>. QED BY <1>1, <1>2, <1>3, <1>4

\* A webhook writes what Stripe reports, while nobody has the row in hand.
LEMMA CommitSerial ==
  ASSUME Books, SerialInv, Finals, WebhooksApart, NEW e \in Events, WebhookCommit(e)
  PROVE  SerialInv'
<1>1. PICK h \in hook :
        /\ h.event = e /\ row' = IF Ignored(h) \/ row = None THEN row ELSE Applied(h)
        /\ UNCHANGED <<stripe, req>>
  BY DEF WebhookCommit, external
<1>2. ASSUME NEW q \in Requests PROVE Held(req'[q], row', stripe')
  <2>1. req[q].op \notin Links \cup Settling
    BY <1>1 DEF WebhooksApart
  <2>2. InHand(req[q]) /\ Sound(req[q])
    BY DEF SerialInv, Books, RequestsSound
  <2>. QED BY <1>1, <2>1, <2>2 DEF InHand, Held, Sound
<1>3. RowTells'
  <2>1. CASE row' = row
    BY <1>1, <2>1 DEF RowTells, SerialInv
  <2>2. CASE row' = Applied(h) /\ row # None /\ ~Ignored(h)
    <3>1. row \in Row /\ e \in sent /\ Applies(e) /\ e.session \in Sessions
      BY <1>1, <2>2 DEF Books, TypeOK, EventsSound, Events
    <3>2. CASE e.session \in Rentals
      <4>1. row'.session = e.session /\ row'.hold = row.hold /\ row'.pi = row.pi
        BY <1>1, <2>2, <3>1, <3>2 DEF Applied, Row
      <4>2. stripe[e.session] = "paid" /\ e.session # None
        BY <3>1, <3>2, PaymentsAssumption DEF Books, EventsSound
      <4>. QED BY <1>1, <2>2, <4>1, <4>2 DEF RowTells, SerialInv
    <3>3. CASE e.session \notin Rentals
      <4>1. row'.session = row.session /\ row'.hold = "UNCAPTURED" /\ row'.paid = row.paid
        BY <1>1, <2>2, <3>1, <3>3 DEF Applied, Row
      <4>. QED BY <1>1, <2>2, <4>1 DEF RowTells, SerialInv
    <3>. QED BY <3>2, <3>3
  <2>. QED BY <1>1, <2>1, <2>2
<1>. QED BY <1>2, <1>3, HandsAreHeld

LEMMA SerialNext == PaymentsInv /\ SerialInv /\ WebhooksApart /\ [Next]_vars => SerialInv'
<1>. SUFFICES ASSUME PaymentsInv, SerialInv, WebhooksApart, [Next]_vars PROVE SerialInv'
  OBVIOUS
<1>1. Books /\ Finals
  BY FinalsStay DEF PaymentsInv
<1>2. RowTells /\ \A q \in Requests : InHand(req[q])
  BY DEF SerialInv
<1>3. ASSUME SameMoney, NEW p \in Requests, NEW n, Go(p, n), Held(n, row', stripe') PROVE SerialInv'
  <2>1. RowTells'
    BY <1>1, <1>2, <1>3, TellsStay
  <2>2. SameHold
    BY <1>3 DEF SameMoney, SameHold
  <2>3. \A q \in Requests : Held(req'[q], row', stripe')
    BY <1>1, <1>3, <2>2, HandsStay
  <2>. QED BY <2>1, <2>3, HandsAreHeld
<1>4. row' = row => SameMoney
  BY DEF SameMoney
<1>5. ASSUME NEW p \in Requests,
             \/ RequestCheckout(p) \/ RequestDeposit(p) \/ RequestCapture(p) \/ RequestRelease(p)
             \/ RequestRefund(p) \/ RequestCancel(p) \/ RequestDelete(p)
      PROVE  SerialInv'
  BY <1>1, <1>3, <1>4, <1>5, RequestHand
<1>6. ASSUME NEW p \in Requests,
             CreateSession(p) \/ RetrieveHold(p) \/ SettleHold(p) \/ Refund(p) \/ RecordRefund(p) \/ Abort(p)
      PROVE  SerialInv'
  BY <1>1, <1>2, <1>3, <1>4, <1>6, CallHand
<1>7. ASSUME NEW p \in Requests, StoreSession(p) \/ StoreOutcome(p) \/ WriteCancel(p) \/ WriteDelete(p) PROVE SerialInv'
  <2>1. SameHold /\ RowTells'
    BY <1>1, <1>7, WriteSerial
  <2>2. Go(p, Idle)
    BY <1>7 DEF StoreSession, StoreOutcome, WriteCancel, WriteDelete, Finish
  <2>3. \A q \in Requests : Held(req'[q], row', stripe')
    BY <1>1, <2>1, <2>2, IdleInHand, HandsStay
  <2>. QED BY <2>1, <2>3, HandsAreHeld
<1>8. ASSUME SameMoney, req' = req PROVE SerialInv'
  <2>1. RowTells'
    BY <1>1, <1>2, <1>8, TellsStay
  <2>2. SameHold
    BY <1>8 DEF SameMoney, SameHold
  <2>3. ASSUME NEW q \in Requests PROVE Held(req'[q], row', stripe')
    <3>1. PICK r \in Request : r = req[q]
      BY <1>1 DEF Books, TypeOK
    <3>2. Sound(r) /\ InHand(r)
      BY <1>1, <1>2, <3>1 DEF Books, RequestsSound
    <3>3. Held(r, row', stripe')
      BY <1>1, <2>2, <3>2, HandStays
    <3>. QED BY <1>8, <3>1, <3>3
  <2>. QED BY <2>1, <2>3, HandsAreHeld
<1>9. CASE SetStatus
  <2>1. row \in Row
    BY <1>1, <1>9 DEF SetStatus, Books, TypeOK
  <2>2. SameMoney /\ req' = req
    BY <1>9, <2>1 DEF SetStatus, SameMoney, Row
  <2>. QED BY <1>8, <2>2
<1>10. CASE \/ \E s \in Sessions : CustomerPays(s) \/ CustomerAuthorises(s) \/ SessionExpires(s)
            \/ \E e \in Events : WebhookBegin(e) \/ WebhookRollback(e)
            \/ UNCHANGED vars
  <2>1. row' = row /\ req' = req
    BY <1>10 DEF CustomerPays, CustomerAuthorises, SessionExpires, Becomes, WebhookBegin, WebhookRollback, vars
  <2>. QED BY <1>4, <1>8, <2>1
<1>11. ASSUME NEW e \in Events, WebhookCommit(e) PROVE SerialInv'
  BY <1>1, <1>11, CommitSerial
<1>. QED BY <1>5, <1>6, <1>7, <1>9, <1>10, <1>11 DEF Next, Webhook, Sessions

\* While no webhook transaction overlaps the making of a rental link or the
\* settling of a hold, the row tells of its own payment and hold what is so at
\* Stripe: links over links, failed calls, rollbacks and deletions cannot part
\* them, a webhook in between can (createRentalStripeCheckoutSession).
THEOREM SerialBooks == Spec /\ []WebhooksApart => []RowTells
<1>1. Init => SerialInv
  <2>. SUFFICES ASSUME Init PROVE SerialInv
    OBVIOUS
  <2>1. row # None => ~row.paid /\ row.hold = "NONE"
    BY DEF Init
  <2>. QED BY <2>1 DEF Init, SerialInv, RowTells, InHand, Idle, Links, Settling
<1>2. SerialInv => RowTells
  BY DEF SerialInv
<1>. QED BY <1>1, <1>2, SerialNext, PaymentsInvariant, PTL DEF Spec
=============================================================================
