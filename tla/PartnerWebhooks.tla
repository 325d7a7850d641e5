---------------------------- MODULE PartnerWebhooks ----------------------------
(***************************************************************************)
(* The deliveries to the webhook of one partner key: the requests that     *)
(* change a reservation and enqueue an event, and the batches of the cron, *)
(* which may overlap.  A batch first puts back what a dead one left in     *)
(* PROCESSING, then finds, claims, reads, posts and writes, one row after  *)
(* the other.                                                              *)
(***************************************************************************)
EXTENDS Naturals

CONSTANTS
  Reservations,
  Requests,        \* requests that enqueue an event, in flight at the same time
  Drains,          \* batches that may overlap
  MaxAttempts,     \* PARTNER_WEBHOOK_MAX_ATTEMPTS
  MaxChanges,      \* bound: status changes of a reservation
  MaxInside,       \* bound: how many of these, the first ones, may be made in a transaction
  MaxRows,         \* bound: deliveries ever created
  MaxCrashes,      \* bound: requests and batches that die, and outcomes that are not stored
  None             \* null

ASSUME WebhooksAssumption ==
  /\ MaxAttempts \in Nat \ {0}
  /\ MaxChanges \in Nat /\ MaxInside \in Nat /\ MaxRows \in Nat /\ MaxCrashes \in Nat
  /\ Requests \cap Drains = {}
  /\ None \notin Reservations

VARIABLES
  key,        \* PartnerApiKey: usable, or revoked or without an https address or a secret
  status,     \* how often the status of each reservation has changed, or a change was rolled back
  gone,       \* the deleted reservations
  open,       \* the reservations with a change in a transaction that has not ended
  row,        \* PartnerWebhookDelivery: the row of each id, or None
  made,       \* rows created so far
  stale,      \* the PROCESSING rows not updated for PARTNER_WEBHOOK_STALE_MS
  event,      \* what each enqueueing request is doing
  drain,      \* what each batch is doing
  accepted,   \* outside: the deliveries the partner has answered with 2xx
  heard,      \* outside: the newest status of each reservation the partner has accepted
  posts,      \* history: calls made for each delivery
  lapsed,     \* history: the deliveries in whose time the key has been unusable
  untold,     \* history: the changes for which no delivery was queued
  early,      \* history: the changes whose body was built before they were committed
  crashes     \* bound

vars == <<key, status, gone, open, row, made, stale, event, drain, accepted, heard, posts, lapsed, untold, early, crashes>>

Rows == 1..MaxRows
Changes == 0..MaxChanges
Row == [res : Reservations, cause : Changes, told : Changes,
        status : {"PENDING", "PROCESSING", "SUCCEEDED", "DEAD"}, due : BOOLEAN, attempts : Nat]
NoEvent == [at |-> "idle", res |-> None, cause |-> 0, told |-> 0]
Event == [at : {"idle", "key", "reservation", "insert"}, res : Reservations \cup {None}, cause : Changes, told : Changes]
Idle == [at |-> "idle", sub |-> 0, attempts |-> 0, outcome |-> "failed"]
Holding == {"read", "post", "write"}
Drain == [at : Holding \cup {"idle", "find", "claim"}, sub : Rows \cup {0}, attempts : Nat,
          outcome : {"ok", "unusable", "failed"}]

\* Null is not a row.
ASSUME NoneAssumption == None \notin Row

Is(s, st) == row[s] # None /\ row[s].status = st
Holds(d, s) == drain[d].at \in Holding /\ drain[d].sub = s

Init ==
  /\ key \in {"usable", "unusable"}
  /\ status = [r \in Reservations |-> 0] /\ gone = {} /\ open = {}
  /\ row = [s \in Rows |-> None] /\ made = 0 /\ stale = {}
  /\ event = [t \in Requests |-> NoEvent]
  /\ drain = [d \in Drains |-> Idle]
  /\ accepted = {} /\ heard = [r \in Reservations |-> 0]
  /\ posts = [s \in Rows |-> 0]
  /\ lapsed = {} /\ untold = {} /\ early = {} /\ crashes = 0

records == <<key, status, gone, open>>
queue == <<row, made, stale>>
outside == <<accepted, heard, posts>>
news == <<untold, early>>

(***************************************************************************)
(* The key and the reservations.                                           *)
(***************************************************************************)

\* The deliveries that wait while the key is unusable.
Alive == {s \in Rows : row[s] # None}

\* updateWebhook, and revoke, after which the key is never usable again:
\* settings written to a revoked key change nothing a delivery depends on.
SetKey ==
  /\ key' \in {"usable", "unusable"}
  /\ lapsed' = IF key' = "usable" THEN lapsed ELSE lapsed \cup Alive
  /\ UNCHANGED <<status, gone, open, queue, event, drain, outside, news, crashes>>

\* Who writes to a reservation waits for the transaction that has written to it.
Writable == Reservations \ (gone \cup open)
Enqueue(t, r) ==
  /\ event[t].at = "idle" /\ status[r] < MaxChanges
  /\ event' = [event EXCEPT ![t] = [NoEvent EXCEPT !.at = "key", !.res = r, !.cause = status[r] + 1]]

\* create, cancel, a rental payment, and a PATCH that leaves the extra lines
\* alone: the change is stored, then the event enqueued.
Change(t) ==
  \E r \in Writable :
    /\ Enqueue(t, r)
    /\ status' = [status EXCEPT ![r] = @ + 1]
    /\ UNCHANGED <<key, gone, open, queue, drain, outside, lapsed, news, crashes>>

\* A PATCH with extra lines enqueues the event inside its transaction, and what
\* the event reads goes through another connection.
ChangeInTransaction(t) ==
  \E r \in Writable :
    /\ Enqueue(t, r) /\ status[r] < MaxInside
    /\ open' = open \cup {r}
    /\ UNCHANGED <<key, status, gone, queue, drain, outside, lapsed, news, crashes>>

\* It commits, or rolls back: then its change stands for the status there was.
EndTransaction(r) ==
  /\ r \in open /\ open' = open \ {r}
  /\ status' = [status EXCEPT ![r] = @ + 1]
  /\ UNCHANGED <<key, gone, queue, event, drain, outside, lapsed, news, crashes>>

\* A PATCH that had read the reservation before another change puts the former
\* status back: it sees no difference, and enqueues nothing.
Overwrite(r) ==
  /\ r \in Writable /\ status[r] \in 1..(MaxChanges - 1)
  /\ status' = [status EXCEPT ![r] = @ + 1]
  /\ untold' = untold \cup {<<r, status[r] + 1>>}
  /\ UNCHANGED <<key, gone, open, queue, event, drain, outside, lapsed, early, crashes>>

\* The deliveries of a deleted reservation go with it.
Delete(r) ==
  LET lost == {s \in Alive : row[s].res = r} IN
  /\ r \in Writable /\ gone' = gone \cup {r}
  /\ row' = [s \in Rows |-> IF s \in lost THEN None ELSE row[s]]
  /\ stale' = stale \ lost
  /\ UNCHANGED <<key, status, open, made, event, drain, outside, lapsed, news, crashes>>

(***************************************************************************)
(* enqueueReservationWebhookEvent: every error is logged and dropped.      *)
(***************************************************************************)

Drop(t) ==
  /\ event' = [event EXCEPT ![t] = NoEvent]
  /\ untold' = untold \cup {<<event[t].res, event[t].cause>>} /\ UNCHANGED early

ReadKey(t) ==
  /\ event[t].at = "key"
  /\ IF key = "usable" THEN event' = [event EXCEPT ![t].at = "reservation"] /\ UNCHANGED news ELSE Drop(t)
  /\ UNCHANGED <<records, queue, drain, outside, lapsed, crashes>>

\* Mutant: the event tells the status before the change.
ReadStatusBefore(t) ==
  LET r == event[t].res IN
  /\ event[t].at = "reservation"
  /\ IF r \in gone THEN Drop(t)
     ELSE event' = [event EXCEPT ![t].at = "insert", ![t].told = event[t].cause - 1] /\ UNCHANGED news
  /\ UNCHANGED <<records, queue, drain, outside, lapsed, crashes>>

\* The body tells the committed status of now: it may be newer than the change,
\* and older while the transaction of the change is open.
ReadStatus(t) ==
  LET r == event[t].res  c == event[t].cause IN
  /\ event[t].at = "reservation"
  /\ IF r \in gone THEN Drop(t)
     ELSE /\ event' = [event EXCEPT ![t].at = "insert", ![t].told = status[r]]
          /\ early' = IF c > status[r] THEN early \cup {<<r, c>>} ELSE early
          /\ UNCHANGED untold
  /\ UNCHANGED <<records, queue, drain, outside, lapsed, crashes>>

Insert(t) ==
  LET e == event[t]  s == made + 1 IN
  /\ e.at = "insert"
  /\ IF e.res \in gone THEN Drop(t) /\ UNCHANGED <<row, made, lapsed>>
     ELSE /\ made < MaxRows /\ made' = s
          /\ row' = [row EXCEPT ![s] = [res |-> e.res, cause |-> e.cause, told |-> e.told,
                                         status |-> "PENDING", due |-> TRUE, attempts |-> 0]]
          /\ lapsed' = IF key = "usable" THEN lapsed ELSE lapsed \cup {s}
          /\ event' = [event EXCEPT ![t] = NoEvent] /\ UNCHANGED news
  /\ UNCHANGED <<records, stale, drain, outside, crashes>>

(***************************************************************************)
(* processDueDeliveriesBatch and deliverOne.                               *)
(***************************************************************************)

Go(d, next) == drain' = [drain EXCEPT ![d] = next]
Finish(d) == Go(d, Idle)

\* PARTNER_WEBHOOK_CRON_BATCH is left open: a batch may end after any row.
Continue(d) == Finish(d) \/ Go(d, [Idle EXCEPT !.at = "find"])

\* Mutant: every row in PROCESSING is put back, stale or not.
BeginResetsAll(d) ==
  /\ drain[d].at = "idle" /\ Go(d, [Idle EXCEPT !.at = "find"])
  /\ row' = [s \in Rows |-> IF Is(s, "PROCESSING") THEN [row[s] EXCEPT !.status = "PENDING"] ELSE row[s]]
  /\ stale' = {}
  /\ UNCHANGED <<records, made, event, outside, lapsed, news, crashes>>

\* Mutant: a batch puts nothing back.
BeginWithoutReset(d) ==
  /\ drain[d].at = "idle" /\ Go(d, [Idle EXCEPT !.at = "find"])
  /\ UNCHANGED <<records, queue, event, outside, lapsed, news, crashes>>

\* The cron starts a batch, which puts back the stale rows.
Begin(d) ==
  /\ drain[d].at = "idle" /\ Go(d, [Idle EXCEPT !.at = "find"])
  /\ row' = [s \in Rows |-> IF s \in stale THEN [row[s] EXCEPT !.status = "PENDING"] ELSE row[s]]
  /\ stale' = {}
  /\ UNCHANGED <<records, made, event, outside, lapsed, news, crashes>>

\* The earliest nextAttemptAt comes first; which one that is, is left open.
Find(d) ==
  LET due == {s \in Rows : Is(s, "PENDING") /\ row[s].due} IN
  /\ drain[d].at = "find"
  /\ \/ due = {} /\ Finish(d)
     \/ \E s \in due : Go(d, [drain[d] EXCEPT !.at = "claim", !.sub = s])
  /\ UNCHANGED <<records, queue, event, outside, lapsed, news, crashes>>

\* Mutant: the update does not ask for PENDING.
ClaimBlindly(d) ==
  LET s == drain[d].sub IN
  /\ drain[d].at = "claim"
  /\ IF row[s] # None
     THEN row' = [row EXCEPT ![s].status = "PROCESSING"] /\ Go(d, [drain[d] EXCEPT !.at = "read"])
     ELSE Continue(d) /\ UNCHANGED row
  /\ UNCHANGED <<records, made, stale, event, outside, lapsed, news, crashes>>

Claim(d) ==
  LET s == drain[d].sub IN
  /\ drain[d].at = "claim"
  /\ IF Is(s, "PENDING")
     THEN row' = [row EXCEPT ![s].status = "PROCESSING"] /\ Go(d, [drain[d] EXCEPT !.at = "read"])
     ELSE Continue(d) /\ UNCHANGED row
  /\ UNCHANGED <<records, made, stale, event, outside, lapsed, news, crashes>>

ReadDelivery(d) ==
  LET s == drain[d].sub IN
  /\ drain[d].at = "read"
  /\ IF row[s] = None THEN Continue(d)
     ELSE Go(d, IF key = "usable" THEN [drain[d] EXCEPT !.at = "post", !.attempts = row[s].attempts]
                ELSE [drain[d] EXCEPT !.at = "write", !.outcome = "unusable"])
  /\ UNCHANGED <<records, queue, event, outside, lapsed, news, crashes>>

\* Mutant: an answer is an answer, whatever its status.
PostUnread(d) ==
  LET s == drain[d].sub IN
  /\ drain[d].at = "post" /\ posts' = [posts EXCEPT ![s] = @ + 1]
  /\ Go(d, [drain[d] EXCEPT !.at = "write", !.outcome = "ok"])
  /\ accepted' \in {accepted, accepted \cup {s}}
  /\ UNCHANGED <<records, queue, event, heard, lapsed, news, crashes>>

\* A delivery the partner has accepted may still time out here.  The row may
\* have gone meanwhile; what it told is in the call that is under way.
Post(d) ==
  LET s == drain[d].sub
      Ends(outcome) == Go(d, [drain[d] EXCEPT !.at = "write", !.outcome = outcome])
  IN
  /\ drain[d].at = "post" /\ posts' = [posts EXCEPT ![s] = @ + 1]
  /\ \/ /\ accepted' = accepted \cup {s}
        /\ heard' = IF row[s] = None \/ row[s].told <= heard[row[s].res] THEN heard
                    ELSE [heard EXCEPT ![row[s].res] = row[s].told]
        /\ Ends("ok") \/ Ends("failed")
     \/ Ends("failed") /\ UNCHANGED <<accepted, heard>>
  /\ UNCHANGED <<records, queue, event, lapsed, news, crashes>>

\* Mutant: a delivery is given up one try early.
WrittenEarly(p, old) ==
  LET givesUp == p.attempts + 2 >= MaxAttempts IN
  CASE p.outcome = "ok" -> [old EXCEPT !.status = "SUCCEEDED"]
    [] p.outcome = "unusable" -> [old EXCEPT !.status = "DEAD"]
    [] p.outcome = "failed" -> [old EXCEPT !.status = IF givesUp THEN "DEAD" ELSE "PENDING",
                                            !.due = @ /\ givesUp, !.attempts = p.attempts + 1]

\* The outcome: settled, or due again after the backoff.
Written(p, old) ==
  LET givesUp == p.attempts + 1 >= MaxAttempts IN
  CASE p.outcome = "ok" -> [old EXCEPT !.status = "SUCCEEDED"]
    [] p.outcome = "unusable" -> [old EXCEPT !.status = "DEAD"]
    [] p.outcome = "failed" -> [old EXCEPT !.status = IF givesUp THEN "DEAD" ELSE "PENDING",
                                            !.due = @ /\ givesUp, !.attempts = p.attempts + 1]

Write(d) ==
  LET s == drain[d].sub IN
  /\ drain[d].at = "write" /\ row[s] # None /\ Continue(d)
  /\ row' = [row EXCEPT ![s] = Written(drain[d], @)]
  /\ stale' = stale \ {s}
  /\ UNCHANGED <<records, made, event, outside, lapsed, news, crashes>>

\* The row has gone: the update throws, which ends the batch.
WriteNothing(d) ==
  /\ drain[d].at = "write" /\ row[drain[d].sub] = None /\ Finish(d)
  /\ UNCHANGED <<records, queue, event, outside, lapsed, news, crashes>>

\* The write of a success fails: the catch counts it as a failed try.
WriteFails(d) ==
  /\ drain[d].at = "write" /\ drain[d].outcome = "ok" /\ crashes < MaxCrashes
  /\ crashes' = crashes + 1
  /\ Go(d, [drain[d] EXCEPT !.outcome = "failed"])
  /\ UNCHANGED <<records, queue, event, outside, lapsed, news>>

(***************************************************************************)
(* Time, and processes that die.                                           *)
(***************************************************************************)

\* nextAttemptAt is reached.
BackoffEnds(s) ==
  /\ Is(s, "PENDING") /\ ~row[s].due
  /\ row' = [row EXCEPT ![s].due = TRUE]
  /\ UNCHANGED <<records, made, stale, event, drain, outside, lapsed, news, crashes>>

\* Time passes for a row that stays PROCESSING.  A batch that lives is done
\* with it in time: WEBHOOK_TIMEOUT_MS is 12 s, the threshold at least 60 s.
Age(s) ==
  /\ Is(s, "PROCESSING") /\ s \notin stale
  /\ \A d \in Drains : ~Holds(d, s)
  /\ stale' = stale \cup {s}
  /\ UNCHANGED <<records, row, made, event, drain, outside, lapsed, news, crashes>>

\* A batch dies, or the database fails it.
CrashDrain(d) ==
  /\ drain[d].at # "idle" /\ crashes < MaxCrashes /\ crashes' = crashes + 1
  /\ Finish(d)
  /\ UNCHANGED <<records, queue, event, outside, lapsed, news>>

CrashRequest(t) ==
  /\ event[t].at # "idle" /\ crashes < MaxCrashes /\ crashes' = crashes + 1
  /\ Drop(t)
  /\ UNCHANGED <<records, queue, drain, outside, lapsed>>

DrainStep(d) ==
  Begin(d) \/ Find(d) \/ Claim(d) \/ ReadDelivery(d) \/ Post(d) \/ Write(d) \/ WriteNothing(d)

RequestStep(t) == ReadKey(t) \/ ReadStatus(t) \/ Insert(t)

Next ==
  \/ SetKey
  \/ \E r \in Reservations : EndTransaction(r) \/ Overwrite(r) \/ Delete(r)
  \/ \E t \in Requests : Change(t) \/ ChangeInTransaction(t) \/ RequestStep(t) \/ CrashRequest(t)
  \/ \E d \in Drains : DrainStep(d) \/ WriteFails(d) \/ CrashDrain(d)
  \/ \E s \in Rows : BackoffEnds(s) \/ Age(s)

Spec == Init /\ [][Next]_vars

\* The cron of the worker goes on calling, requests and batches go on, and time passes.
FairSpec ==
  /\ Spec
  /\ \A t \in Requests : WF_vars(RequestStep(t))
  /\ \A d \in Drains : WF_vars(DrainStep(d))
  /\ \A s \in Rows : WF_vars(BackoffEnds(s)) /\ WF_vars(Age(s))

-----------------------------------------------------------------------------
(***************************************************************************)
(* Properties.                                                             *)
(***************************************************************************)

\* Every variable keeps its shape.
TypeOK ==
  /\ key \in {"usable", "unusable"}
  /\ status \in [Reservations -> Changes] /\ heard \in [Reservations -> Changes]
  /\ gone \subseteq Reservations /\ open \subseteq {r \in Reservations : status[r] < MaxChanges}
  /\ row \in [Rows -> Row \cup {None}]
  /\ made \in 0..MaxRows
  /\ stale \subseteq Rows /\ accepted \subseteq Rows /\ lapsed \subseteq Rows
  /\ event \in [Requests -> Event]
  /\ drain \in [Drains -> Drain]
  /\ posts \in [Rows -> Nat]
  /\ untold \subseteq (Reservations \cup {None}) \X Changes /\ early \subseteq (Reservations \cup {None}) \X Changes
  /\ crashes \in 0..MaxCrashes

\* A delivery marked SUCCEEDED was answered with 2xx, although several batches
\* write outcomes unconditionally and reset each other's rows.
SucceededIsAccepted == \A s \in Rows : Is(s, "SUCCEEDED") => s \in accepted

\* The partner is called for a delivery at most MaxAttempts times, and once
\* more for each outcome that was not stored: overlapping batches never add one.
CallsBounded == \A s \in Rows : posts[s] <= MaxAttempts + crashes

\* A delivery is DEAD only after MaxAttempts calls, or because the key was
\* unusable at some moment of its life.
DeadIsEarned == \A s \in Rows : Is(s, "DEAD") => posts[s] >= MaxAttempts \/ s \in lapsed

\* A queued delivery settles, however often batches die: each batch puts back
\* what dead ones left.
EveryDeliverySettles ==
  \A s \in Rows : row[s] # None ~> (row[s] = None \/ row[s].status \in {"SUCCEEDED", "DEAD"})

\* The partner hears of a change, or of a newer status, unless its event was
\* never queued or built before the change was committed, its delivery is dead
\* or the reservation is deleted.
PartnerLearns ==
  \A r \in Reservations, v \in 1..MaxChanges :
    status[r] >= v ~> \/ heard[r] >= v \/ r \in gone \/ <<r, v>> \in untold \cup early
                      \/ \E s \in Alive : Is(s, "DEAD") /\ row[s].res = r /\ row[s].cause = v

Where(s) ==
  IF s > made THEN "new"
  ELSE IF row[s] = None THEN "gone"
  ELSE CASE row[s].status = "PENDING" -> "waiting"
         [] row[s].status = "PROCESSING" -> "taken"
         [] row[s].status = "SUCCEEDED" -> "sent"
         [] OTHER -> "failed"

Queue == INSTANCE SubmissionQueue WITH Jobs <- Rows, job <- [s \in Rows |-> Where(s)], delivered <- accepted

\* The deliveries are a submission queue, whatever batches overlap or die: what
\* is settled stays settled, and only what is taken is posted.
QueueSpec == Queue!Spec

-----------------------------------------------------------------------------
(***************************************************************************)
(* The inductive invariant.                                                *)
(***************************************************************************)

\* Only ids given out have rows, and only PROCESSING rows age.
QueueSound ==
  /\ \A s \in Rows : s > made => row[s] = None /\ posts[s] = 0 /\ s \notin accepted
  /\ \A s \in stale : Is(s, "PROCESSING")

\* What a request or a batch is at determines which of its fields are filled.
Shaped ==
  /\ \A t \in Requests : event[t].at # "idle" => event[t].res \in Reservations
  /\ \A d \in Drains : drain[d].at \in Holding \cup {"claim"} => drain[d].sub \in 1..made

\* A claim is exclusive: the row a batch holds stays as the batch left it.
ClaimsHold ==
  /\ \A d \in Drains, s \in Rows : Holds(d, s) => (row[s] = None \/ Is(s, "PROCESSING")) /\ s \notin stale
  /\ \A d, e \in Drains, s \in Rows : Holds(d, s) /\ Holds(e, s) => d = e

\* The partner has been called, and the outcome is not stored yet.
Called(p) == p.at = "write" /\ p.outcome # "unusable"

\* What a batch will do and write is earned, and what it has read is still the row.
Earned(p) ==
  /\ p.at = "post" => p.attempts < MaxAttempts /\ p.attempts <= posts[p.sub] /\ posts[p.sub] <= p.attempts + crashes
  /\ Called(p) => p.attempts + 1 <= posts[p.sub]
  /\ p.at = "write" /\ p.outcome = "ok" => p.sub \in accepted
  /\ p.at = "write" /\ p.outcome = "unusable" => p.sub \in lapsed
  /\ (p.at = "post" \/ Called(p)) /\ row[p.sub] # None => p.attempts = row[p.sub].attempts

\* A row counts the calls made for it, but for those whose outcome was not
\* stored, the one of this moment and the one that succeeded.
Counted(s) ==
  row[s] # None =>
    /\ row[s].attempts <= posts[s]
    /\ Is(s, "PENDING") \/ Is(s, "PROCESSING") => row[s].attempts < MaxAttempts
    /\ posts[s] <= row[s].attempts + crashes + 1
    /\ ~Is(s, "SUCCEEDED") /\ (\A d \in Drains : drain[d].sub = s => ~Called(drain[d])) => posts[s] <= row[s].attempts + crashes

\* Whatever is queued while the key is unusable is known to have been.
LapsesSeen == key # "usable" => Alive \subseteq lapsed

WebhooksInv ==
  /\ TypeOK /\ QueueSound /\ Shaped /\ ClaimsHold /\ LapsesSeen
  /\ \A d \in Drains : Earned(drain[d])
  /\ \A s \in Rows : Counted(s)
  /\ SucceededIsAccepted /\ CallsBounded /\ DeadIsEarned
=============================================================================
