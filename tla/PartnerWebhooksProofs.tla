------------------------- MODULE PartnerWebhooksProofs -------------------------
(***************************************************************************)
(* Proofs about PartnerWebhooks: the inductive invariant, what it says of  *)
(* the calls made and of their outcomes, and the refinement of             *)
(* SubmissionQueue.                                                        *)
(***************************************************************************)
EXTENDS PartnerWebhooks, TLAPS

LEMMA IdleSound == Idle \in Drain /\ Idle.at = "idle" /\ ~Called(Idle)
BY DEF Idle, Drain, Called

LEMMA NoEventSound == NoEvent.at = "idle"
BY DEF NoEvent

LEMMA InitInv == Init => WebhooksInv
<1>. SUFFICES ASSUME Init PROVE WebhooksInv
  OBVIOUS
<1>1. TypeOK
  <2>1. drain \in [Drains -> Drain]
    BY IdleSound DEF Init
  <2>2. event \in [Requests -> Event]
    BY WebhooksAssumption DEF Init, NoEvent, Event, Changes
  <2>. QED BY <2>1, <2>2, WebhooksAssumption DEF Init, TypeOK, Changes
<1>2. QueueSound /\ SucceededIsAccepted /\ DeadIsEarned /\ \A s \in Rows : Counted(s)
  BY DEF Init, QueueSound, SucceededIsAccepted, DeadIsEarned, Counted, Is
<1>3. Shaped /\ ClaimsHold /\ \A d \in Drains : Earned(drain[d])
  BY DEF Init, Shaped, ClaimsHold, Earned, Called, Holds, Holding, Idle, NoEvent
<1>4. CallsBounded /\ LapsesSeen
  BY WebhooksAssumption DEF Init, CallsBounded, LapsesSeen, Alive
<1>. QED BY <1>1, <1>2, <1>3, <1>4 DEF WebhooksInv

LEMMA MadeInRows == ASSUME WebhooksInv PROVE 1..made \subseteq Rows /\ made \in Nat
BY WebhooksAssumption DEF WebhooksInv, TypeOK, Rows

\* The fields of a row that is there.
LEMMA RowFields ==
  ASSUME WebhooksInv, NEW s \in Rows, row[s] # None
  PROVE  /\ row[s] \in Row /\ row[s].attempts \in Nat /\ row[s].attempts <= posts[s] /\ posts[s] \in Nat
         /\ s \in 1..made
BY WebhooksAssumption DEF WebhooksInv, TypeOK, QueueSound, Counted, Row, Rows

\* The fields of a batch that has taken a row.
LEMMA DrainFields ==
  ASSUME WebhooksInv, NEW d \in Drains
  PROVE  /\ drain[d] \in Drain /\ drain[d].attempts \in Nat
         /\ drain[d].at \in Holding \cup {"claim"} => drain[d].sub \in 1..made /\ drain[d].sub \in Rows
         /\ drain[d].at = "post" \/ Called(drain[d]) => drain[d].at \in Holding
BY MadeInRows DEF WebhooksInv, TypeOK, Shaped, Drain, Called, Holding

-----------------------------------------------------------------------------
(***************************************************************************)
(* Steps that leave the queue and the batches alone.                       *)
(***************************************************************************)

LEMMA EventInv ==
  ASSUME WebhooksInv, UNCHANGED <<queue, drain, outside>>,
         key' \in {"usable", "unusable"}, status' \in [Reservations -> Changes], gone' = gone,
         open' \subseteq {q \in Reservations : status'[q] < MaxChanges},
         event' \in [Requests -> Event], \A t \in Requests : event'[t].at # "idle" => event'[t].res \in Reservations,
         lapsed \subseteq lapsed', lapsed' \subseteq Rows, key' # "usable" => Alive \subseteq lapsed',
         untold' \cup early' \subseteq (Reservations \cup {None}) \X Changes,
         crashes' \in 0..MaxCrashes, crashes <= crashes'
  PROVE  WebhooksInv'
<1>1. TypeOK'
  BY DEF WebhooksInv, TypeOK, queue, outside
<1>2. (QueueSound /\ ClaimsHold /\ Shaped /\ SucceededIsAccepted /\ DeadIsEarned /\ LapsesSeen)'
  BY DEF WebhooksInv, QueueSound, ClaimsHold, Holds, Shaped, SucceededIsAccepted, DeadIsEarned, LapsesSeen, Alive, Is,
         queue, outside
<1>3. (\A d \in Drains : Earned(drain[d]))'
  <2>. SUFFICES ASSUME NEW d \in Drains PROVE Earned(drain[d])'
    OBVIOUS
  <2>1. /\ drain' = drain /\ row' = row /\ accepted' = accepted /\ posts' = posts
        /\ Earned(drain[d]) /\ drain[d].attempts \in Nat
    BY DrainFields DEF WebhooksInv, queue, outside
  <2>2. drain[d].at = "post" => posts[drain[d].sub] \in Nat
    BY DrainFields DEF WebhooksInv, TypeOK, Holding
  <2>. QED BY <2>1, <2>2, WebhooksAssumption DEF Earned, Called, WebhooksInv, TypeOK
<1>4. (\A s \in Rows : Counted(s))' /\ CallsBounded'
  <2>1. row' = row /\ posts' = posts /\ drain' = drain /\ \A s \in Rows : posts[s] \in Nat
    BY DEF queue, outside, WebhooksInv, TypeOK
  <2>2. \A s \in Rows : row[s] # None => row[s].attempts \in Nat
    BY RowFields
  <2>3. crashes \in Nat /\ crashes' \in Nat
    BY WebhooksAssumption DEF WebhooksInv, TypeOK
  <2>. QED BY <2>1, <2>2, <2>3, WebhooksAssumption DEF WebhooksInv, Counted, CallsBounded, Is
<1>. QED BY <1>1, <1>2, <1>3, <1>4 DEF WebhooksInv

LEMMA SetKeyInv == ASSUME WebhooksInv, SetKey PROVE WebhooksInv'
<1>1. lapsed \subseteq lapsed' /\ lapsed' \subseteq Rows /\ (key' # "usable" => Alive \subseteq lapsed')
  BY DEF SetKey, WebhooksInv, TypeOK, Alive
<1>. QED BY <1>1, EventInv, WebhooksAssumption DEF SetKey, news, WebhooksInv, TypeOK, Shaped

\* A request that goes on, or ends.
LEMMA RequestInv ==
  ASSUME WebhooksInv, NEW t \in Requests, NEW e \in Event, e.at # "idle" => e.res \in Reservations,
         event' = [event EXCEPT ![t] = e], UNCHANGED <<key, gone, queue, drain, outside, lapsed>>,
         status' \in [Reservations -> Changes], open' \subseteq {q \in Reservations : status'[q] < MaxChanges},
         untold' \cup early' \subseteq (Reservations \cup {None}) \X Changes,
         crashes' \in 0..MaxCrashes, crashes <= crashes'
  PROVE  WebhooksInv'
<1>1. event' \in [Requests -> Event] /\ \A u \in Requests : event'[u].at # "idle" => event'[u].res \in Reservations
  BY DEF WebhooksInv, TypeOK, Shaped
<1>2. key' # "usable" => Alive \subseteq lapsed'
  BY DEF WebhooksInv, LapsesSeen
<1>. QED BY <1>1, <1>2, EventInv DEF WebhooksInv, TypeOK

LEMMA DropInv ==
  ASSUME WebhooksInv, NEW t \in Requests, Drop(t), UNCHANGED <<records, queue, drain, outside, lapsed>>,
         crashes' \in 0..MaxCrashes, crashes <= crashes'
  PROVE  WebhooksInv'
<1>1. NoEvent \in Event
  BY WebhooksAssumption DEF NoEvent, Event, Changes
<1>2. untold' \cup early' \subseteq (Reservations \cup {None}) \X Changes
  BY DEF Drop, WebhooksInv, TypeOK, Event
<1>. QED BY <1>1, <1>2, NoEventSound, RequestInv DEF Drop, records, news, WebhooksInv, TypeOK

LEMMA EventAtKey ==
  ASSUME NEW r \in Reservations, NEW c \in Changes
  PROVE  [NoEvent EXCEPT !.at = "key", !.res = r, !.cause = c] \in Event
<1>1. 0 \in Changes
  BY WebhooksAssumption DEF Changes
<1>. QED BY <1>1 DEF NoEvent, Event

LEMMA EnqueueEvent ==
  ASSUME WebhooksInv, NEW t \in Requests, NEW r \in Reservations, Enqueue(t, r)
  PROVE  /\ status[r] + 1 \in Changes
         /\ \E e \in Event : e.res \in Reservations /\ event' = [event EXCEPT ![t] = e]
<1>1. status[r] + 1 \in Changes
  BY WebhooksAssumption DEF Enqueue, WebhooksInv, TypeOK, Changes
<1>. PICK e : e = [NoEvent EXCEPT !.at = "key", !.res = r, !.cause = status[r] + 1]
  OBVIOUS
<1>2. e \in Event
  BY <1>1, EventAtKey
<1>3. e.res \in Reservations
  BY DEF NoEvent
<1>. QED BY <1>1, <1>2, <1>3 DEF Enqueue

\* A change, stored at once or in a transaction.
LEMMA ChangeInv == ASSUME WebhooksInv, NEW t \in Requests, Change(t) \/ ChangeInTransaction(t) PROVE WebhooksInv'
<1>1. PICK r \in Reservations \ open :
        /\ Enqueue(t, r) /\ UNCHANGED <<key, gone, queue, drain, outside, lapsed, untold, early, crashes>>
        /\ \/ status' = [status EXCEPT ![r] = @ + 1] /\ open' = open
           \/ status' = status /\ open' = open \cup {r}
  BY DEF Change, ChangeInTransaction, Writable, news
<1>2. PICK e \in Event : e.res \in Reservations /\ event' = [event EXCEPT ![t] = e]
  BY <1>1, EnqueueEvent
<1>3. status[r] + 1 \in Changes /\ r \notin open /\ status[r] < MaxChanges
  BY <1>1, EnqueueEvent DEF Enqueue
<1>4. /\ status' \in [Reservations -> Changes] /\ open' \subseteq {q \in Reservations : status'[q] < MaxChanges}
      /\ untold' \cup early' \subseteq (Reservations \cup {None}) \X Changes
      /\ crashes' \in 0..MaxCrashes /\ crashes <= crashes'
  BY <1>1, <1>3, WebhooksAssumption DEF WebhooksInv, TypeOK
<1>. QED BY <1>1, <1>2, <1>4, RequestInv

\* A transaction that ends, and a change that enqueues nothing.
LEMMA StatusInv == ASSUME WebhooksInv, NEW r \in Reservations, EndTransaction(r) \/ Overwrite(r) PROVE WebhooksInv'
<1>1. /\ status' = [status EXCEPT ![r] = @ + 1] /\ UNCHANGED <<key, gone, queue, drain, outside, event, lapsed, early, crashes>>
      /\ untold' \in {untold, untold \cup {<<r, status[r] + 1>>}} /\ status[r] < MaxChanges
      /\ open' = open \ {r}
  BY WebhooksAssumption DEF EndTransaction, Overwrite, Writable, news, WebhooksInv, TypeOK, Changes
<1>2. status[r] + 1 \in Changes
  BY <1>1, WebhooksAssumption DEF WebhooksInv, TypeOK, Changes
<1>3. /\ status' \in [Reservations -> Changes] /\ open' \subseteq {q \in Reservations : status'[q] < MaxChanges}
      /\ untold' \cup early' \subseteq (Reservations \cup {None}) \X Changes
      /\ crashes' \in 0..MaxCrashes /\ crashes <= crashes'
  BY <1>1, <1>2, WebhooksAssumption DEF WebhooksInv, TypeOK
<1>. QED BY <1>1, <1>3, EventInv DEF WebhooksInv, TypeOK, Shaped, LapsesSeen

LEMMA ReadKeyInv == ASSUME WebhooksInv, NEW t \in Requests, ReadKey(t) PROVE WebhooksInv'
<1>0. crashes' \in 0..MaxCrashes /\ crashes <= crashes'
  BY WebhooksAssumption DEF ReadKey, WebhooksInv, TypeOK
<1>1. CASE key = "usable"
  <2>. PICK e : e = [event[t] EXCEPT !.at = "reservation"]
    OBVIOUS
  <2>1. e \in Event /\ e.res = event[t].res /\ e.res \in Reservations
    BY DEF ReadKey, WebhooksInv, TypeOK, Shaped, Event
  <2>. QED BY <1>0, <1>1, <2>1, RequestInv DEF ReadKey, records, news, WebhooksInv, TypeOK
<1>2. CASE key # "usable"
  BY <1>0, <1>2, DropInv DEF ReadKey
<1>. QED BY <1>1, <1>2

LEMMA ReadStatusInv == ASSUME WebhooksInv, NEW t \in Requests, ReadStatus(t) PROVE WebhooksInv'
<1>0. crashes' \in 0..MaxCrashes /\ crashes <= crashes'
  BY WebhooksAssumption DEF ReadStatus, WebhooksInv, TypeOK
<1>1. CASE event[t].res \in gone
  BY <1>0, <1>1, DropInv DEF ReadStatus
<1>2. CASE event[t].res \notin gone
  <2>. PICK e : e = [event[t] EXCEPT !.at = "insert", !.told = status[event[t].res]]
    OBVIOUS
  <2>1. event[t].res \in Reservations /\ status[event[t].res] \in Changes /\ event[t].cause \in Changes
    BY DEF ReadStatus, WebhooksInv, TypeOK, Shaped, Event
  <2>2. event[t] \in Event
    BY DEF WebhooksInv, TypeOK
  <2>3. e \in Event /\ e.res = event[t].res
    BY <2>1, <2>2 DEF Event
  <2>4. /\ event' = [event EXCEPT ![t] = e]
        /\ early' \subseteq early \cup {<<event[t].res, event[t].cause>>}
        /\ UNCHANGED <<key, status, gone, open, queue, drain, outside, lapsed, untold>>
    BY <1>2 DEF ReadStatus, records
  <2>5. /\ status' \in [Reservations -> Changes] /\ open' \subseteq {q \in Reservations : status'[q] < MaxChanges}
        /\ untold' \cup early' \subseteq (Reservations \cup {None}) \X Changes
    BY <2>1, <2>4 DEF WebhooksInv, TypeOK
  <2>. QED BY <1>0, <2>1, <2>3, <2>4, <2>5, RequestInv
<1>. QED BY <1>1, <1>2

LEMMA CrashRequestInv == ASSUME WebhooksInv, NEW t \in Requests, CrashRequest(t) PROVE WebhooksInv'
<1>1. crashes' \in 0..MaxCrashes /\ crashes <= crashes'
  BY WebhooksAssumption DEF CrashRequest, WebhooksInv, TypeOK
<1>. QED BY <1>1, DropInv DEF CrashRequest

-----------------------------------------------------------------------------
(***************************************************************************)
(* Steps of the queue: what a batch holds stays as it is.                  *)
(***************************************************************************)

LEMMA QueueInv ==
  ASSUME WebhooksInv, row' \in [Rows -> Row \cup {None}], stale' \subseteq Rows, gone' \subseteq Reservations,
         UNCHANGED <<key, status, open, made, event, outside, lapsed, untold, early, crashes>>,
         drain' \in [Drains -> Drain],
         \A d \in Drains : drain'[d] = drain[d] \/ (drain[d].at = "idle" /\ drain'[d].at = "find"),
         \A s \in Rows : row'[s] # None =>
           /\ row[s] # None /\ row'[s].attempts = row[s].attempts
           /\ row'[s].status = row[s].status \/ (s \in stale /\ row'[s].status = "PENDING"),
         \A s \in stale' : row'[s] # None /\ row'[s].status = "PROCESSING" /\ \A d \in Drains : ~Holds(d, s)
  PROVE  WebhooksInv'
<1>1. TypeOK'
  BY DEF WebhooksInv, TypeOK, outside
<1>2. \A d \in Drains, s \in Rows : Holds(d, s)' <=> Holds(d, s)
  BY DEF Holds, Holding
<1>3. (QueueSound /\ Shaped /\ ClaimsHold)'
  <2>1. QueueSound'
    BY DEF WebhooksInv, QueueSound, Is, outside
  <2>2. Shaped'
    BY DEF WebhooksInv, Shaped, Holding
  <2>3. ClaimsHold'
    BY <1>2 DEF WebhooksInv, ClaimsHold, Is
  <2>. QED BY <2>1, <2>2, <2>3
<1>4. (SucceededIsAccepted /\ DeadIsEarned /\ CallsBounded /\ LapsesSeen)'
  BY DEF WebhooksInv, SucceededIsAccepted, DeadIsEarned, CallsBounded, LapsesSeen, Alive, Is, outside
<1>5. (\A d \in Drains : Earned(drain[d]))'
  <2>. SUFFICES ASSUME NEW d \in Drains PROVE Earned(drain[d])'
    OBVIOUS
  <2>1. CASE drain'[d] = drain[d]
    <3>1. drain[d].at = "post" \/ Called(drain[d]) => drain[d].sub \in Rows
      BY DrainFields
    <3>. QED BY <2>1, <3>1 DEF WebhooksInv, Earned, Called, outside
  <2>2. CASE drain'[d].at = "find"
    BY <2>2 DEF Earned, Called
  <2>. QED BY <2>1, <2>2
<1>6. (\A s \in Rows : Counted(s))'
  <2>. SUFFICES ASSUME NEW s \in Rows, row'[s] # None PROVE Counted(s)'
    BY DEF Counted
  <2>1. row[s] # None /\ row'[s].attempts = row[s].attempts /\ Counted(s)
        /\ posts' = posts /\ crashes' = crashes
    BY DEF WebhooksInv, outside
  <2>2. row'[s].status = row[s].status \/ (row[s].status = "PROCESSING" /\ row'[s].status = "PENDING")
    BY DEF WebhooksInv, QueueSound, Is
  <2>3. \A d \in Drains : Called(drain[d]) => drain'[d] = drain[d] /\ Called(drain[d])'
    BY DEF Called
  <2>. QED BY <2>1, <2>2, <2>3 DEF Counted, Is
<1>. QED BY <1>1, <1>3, <1>4, <1>5, <1>6 DEF WebhooksInv

LEMMA DeleteInv == ASSUME WebhooksInv, NEW r \in Reservations, Delete(r) PROVE WebhooksInv'
<1>. PICK lost : lost = {s \in Alive : row[s].res = r}
  OBVIOUS
<1>1. /\ row' = [s \in Rows |-> IF s \in lost THEN None ELSE row[s]] /\ stale' = stale \ lost
      /\ gone' \subseteq Reservations
      /\ UNCHANGED <<key, status, open, made, event, drain, outside, lapsed, untold, early, crashes>>
  BY DEF Delete, Writable, news, WebhooksInv, TypeOK
<1>2. row' \in [Rows -> Row \cup {None}] /\ stale' \subseteq Rows /\ drain' \in [Drains -> Drain]
  BY <1>1 DEF WebhooksInv, TypeOK
<1>3. \A s \in Rows : row'[s] # None =>
        /\ row[s] # None /\ row'[s].attempts = row[s].attempts
        /\ row'[s].status = row[s].status \/ (s \in stale /\ row'[s].status = "PENDING")
  BY <1>1
<1>4. \A s \in stale' : row'[s] # None /\ row'[s].status = "PROCESSING" /\ \A d \in Drains : ~Holds(d, s)
  BY <1>1 DEF WebhooksInv, TypeOK, QueueSound, ClaimsHold, Is
<1>5. \A d \in Drains : drain'[d] = drain[d] \/ (drain[d].at = "idle" /\ drain'[d].at = "find")
  BY <1>1
<1>. QED BY <1>1, <1>2, <1>3, <1>4, <1>5, QueueInv

LEMMA BeginInv == ASSUME WebhooksInv, NEW d \in Drains, Begin(d) PROVE WebhooksInv'
<1>. PICK n : n = [Idle EXCEPT !.at = "find"]
  OBVIOUS
<1>1. n \in Drain /\ n.at = "find"
  BY DEF Idle, Drain
<1>2. /\ row' = [s \in Rows |-> IF s \in stale THEN [row[s] EXCEPT !.status = "PENDING"] ELSE row[s]]
      /\ stale' = {} /\ drain[d].at = "idle" /\ drain' = [drain EXCEPT ![d] = n]
      /\ UNCHANGED <<key, status, gone, open, made, event, outside, lapsed, untold, early, crashes>>
  BY DEF Begin, Go, records, news
<1>3. \A s \in stale : /\ row[s] # None
                       /\ [row[s] EXCEPT !.status = "PENDING"] \in Row
                       /\ [row[s] EXCEPT !.status = "PENDING"].attempts = row[s].attempts
                       /\ [row[s] EXCEPT !.status = "PENDING"].status = "PENDING"
  BY DEF WebhooksInv, TypeOK, QueueSound, Is, Row
<1>4. row' \in [Rows -> Row \cup {None}] /\ drain' \in [Drains -> Drain] /\ gone' \subseteq Reservations
  BY <1>1, <1>2, <1>3 DEF WebhooksInv, TypeOK
<1>5. \A s \in Rows : row'[s] # None =>
        /\ row[s] # None /\ row'[s].attempts = row[s].attempts
        /\ row'[s].status = row[s].status \/ (s \in stale /\ row'[s].status = "PENDING")
  BY <1>2, <1>3
<1>6. \A e \in Drains : drain'[e] = drain[e] \/ (drain[e].at = "idle" /\ drain'[e].at = "find")
  BY <1>1, <1>2 DEF WebhooksInv, TypeOK
<1>. QED BY <1>2, <1>4, <1>5, <1>6, QueueInv

LEMMA AgeInv == ASSUME WebhooksInv, NEW s \in Rows, Age(s) PROVE WebhooksInv'
<1>1. /\ stale' = stale \cup {s} /\ Is(s, "PROCESSING") /\ (\A d \in Drains : ~Holds(d, s))
      /\ UNCHANGED <<key, status, gone, open, row, made, event, drain, outside, lapsed, untold, early, crashes>>
  BY DEF Age, records, news
<1>2. \A u \in stale' : row'[u] # None /\ row'[u].status = "PROCESSING" /\ \A d \in Drains : ~Holds(d, u)
  BY <1>1 DEF WebhooksInv, TypeOK, QueueSound, ClaimsHold, Is
<1>3. /\ row' \in [Rows -> Row \cup {None}] /\ stale' \subseteq Rows /\ gone' \subseteq Reservations
      /\ drain' \in [Drains -> Drain]
  BY <1>1 DEF WebhooksInv, TypeOK
<1>4. \A u \in Rows : row'[u] # None =>
        /\ row[u] # None /\ row'[u].attempts = row[u].attempts
        /\ row'[u].status = row[u].status \/ (u \in stale /\ row'[u].status = "PENDING")
  BY <1>1
<1>5. \A d \in Drains : drain'[d] = drain[d] \/ (drain[d].at = "idle" /\ drain'[d].at = "find")
  BY <1>1
<1>. QED BY <1>1, <1>2, <1>3, <1>4, <1>5, QueueInv

LEMMA BackoffEndsInv == ASSUME WebhooksInv, NEW s \in Rows, BackoffEnds(s) PROVE WebhooksInv'
<1>. PICK new : new = [row[s] EXCEPT !.due = TRUE]
  OBVIOUS
<1>1. /\ row' = [row EXCEPT ![s] = new] /\ row[s] # None /\ row[s].status = "PENDING" /\ row[s] \in Row
      /\ UNCHANGED <<key, status, gone, open, made, stale, event, drain, outside, lapsed, untold, early, crashes>>
  BY DEF BackoffEnds, Is, records, news, WebhooksInv, TypeOK
<1>2. new \in Row /\ new.status = row[s].status /\ new.attempts = row[s].attempts
  BY <1>1 DEF Row
<1>3. /\ row' \in [Rows -> Row \cup {None}] /\ stale' \subseteq Rows /\ gone' \subseteq Reservations
      /\ drain' \in [Drains -> Drain]
  BY <1>1, <1>2 DEF WebhooksInv, TypeOK
<1>4. \A u \in Rows : row'[u] # None =>
        /\ row[u] # None /\ row'[u].attempts = row[u].attempts
        /\ row'[u].status = row[u].status \/ (u \in stale /\ row'[u].status = "PENDING")
  BY <1>1, <1>2 DEF WebhooksInv, TypeOK
<1>5. \A u \in stale' : row'[u] # None /\ row'[u].status = "PROCESSING" /\ \A d \in Drains : ~Holds(d, u)
  <2>. SUFFICES ASSUME NEW u \in stale PROVE row'[u] # None /\ row'[u].status = "PROCESSING" /\ \A d \in Drains : ~Holds(d, u)
    BY <1>1
  <2>1. u \in Rows /\ row[u] # None /\ row[u].status = "PROCESSING" /\ \A d \in Drains : ~Holds(d, u)
    BY DEF WebhooksInv, TypeOK, QueueSound, ClaimsHold, Is
  <2>. QED BY <1>1, <2>1 DEF WebhooksInv, TypeOK
<1>6. \A d \in Drains : drain'[d] = drain[d] \/ (drain[d].at = "idle" /\ drain'[d].at = "find")
  BY <1>1
<1>. QED BY <1>1, <1>3, <1>4, <1>5, <1>6, QueueInv

-----------------------------------------------------------------------------
(***************************************************************************)
(* Steps of one batch.                                                     *)
(***************************************************************************)

\* A batch that holds a row is the only one at it.
LEMMA OnlyHolder ==
  ASSUME WebhooksInv, NEW d \in Drains, drain[d].at \in Holding, NEW e \in Drains, drain[e].at \in Holding,
         drain[e].sub = drain[d].sub
  PROVE  e = d
BY DrainFields DEF WebhooksInv, ClaimsHold, Holds, Holding

\* What a row that no batch has called for counts.
LEMMA NotCalled ==
  ASSUME WebhooksInv, NEW s \in Rows, row[s] # None, ~Is(s, "SUCCEEDED"),
         \A e \in Drains : drain[e].sub = s => ~Called(drain[e])
  PROVE  posts[s] <= row[s].attempts + crashes
BY DEF WebhooksInv, Counted

LEMMA CrashesNat == ASSUME WebhooksInv PROVE crashes \in Nat /\ MaxAttempts \in Nat /\ \A s \in Rows : posts[s] \in Nat
BY WebhooksAssumption DEF WebhooksInv, TypeOK

\* A batch that takes no row, calls for none and stores nothing.
LEMMA DrainInv ==
  ASSUME WebhooksInv, NEW d \in Drains, NEW n \in Drain, Go(d, n),
         UNCHANGED <<key, status, gone, open, row, made, stale, event, accepted, heard, posts, lapsed, untold, early>>,
         crashes' \in 0..MaxCrashes, crashes <= crashes',
         n.at \in Holding \cup {"claim"} => n.sub \in 1..made,
         n.at \in Holding => drain[d].at \in Holding /\ n.sub = drain[d].sub,
         Earned(n),
         Called(drain[d]) /\ row[drain[d].sub] # None =>
           (Called(n) /\ n.sub = drain[d].sub) \/ crashes < crashes'
  PROVE  WebhooksInv'
<1>1. drain' = [drain EXCEPT ![d] = n] /\ drain \in [Drains -> Drain] /\ crashes' \in Nat
  BY WebhooksAssumption DEF Go, WebhooksInv, TypeOK
<1>2. TypeOK'
  BY <1>1 DEF WebhooksInv, TypeOK
<1>3. (QueueSound /\ SucceededIsAccepted /\ DeadIsEarned /\ LapsesSeen)'
  BY DEF WebhooksInv, QueueSound, SucceededIsAccepted, DeadIsEarned, LapsesSeen, Alive, Is
<1>4. Shaped'
  BY <1>1 DEF WebhooksInv, Shaped
<1>5. ClaimsHold'
  <2>1. \A e \in Drains, s \in Rows : Holds(e, s)' => Holds(e, s)
    BY <1>1 DEF Holds
  <2>. QED BY <2>1 DEF WebhooksInv, ClaimsHold, Is
<1>6. (\A e \in Drains : Earned(drain[e]))'
  <2>. SUFFICES ASSUME NEW e \in Drains PROVE Earned(drain[e])'
    OBVIOUS
  <2>. PICK p : p = drain'[e]
    OBVIOUS
  <2>1. Earned(p)
    BY <1>1 DEF WebhooksInv
  <2>2. p \in Drain /\ p.attempts \in Nat /\ (p.at = "post" => p.sub \in Rows)
    BY <1>1, MadeInRows DEF Drain, Shaped, WebhooksInv, Holding
  <2>. QED BY <1>1, <2>1, <2>2, CrashesNat DEF Earned, Called
<1>7. (\A s \in Rows : Counted(s))' /\ CallsBounded'
  <2>1. CallsBounded'
    BY <1>1, CrashesNat DEF WebhooksInv, CallsBounded
  <2>. SUFFICES ASSUME NEW s \in Rows, row[s] # None PROVE Counted(s)'
    BY <2>1 DEF Counted
  <2>2. Counted(s) /\ row[s].attempts \in Nat
    BY RowFields DEF WebhooksInv
  <2>3. ASSUME ~Is(s, "SUCCEEDED"), \A e \in Drains : drain'[e].sub = s => ~Called(drain'[e])
        PROVE  posts[s] <= row[s].attempts + crashes'
    <3>1. CASE drain[d].sub = s /\ Called(drain[d])
      BY <1>1, <2>2, <2>3, <3>1, CrashesNat DEF Counted
    <3>2. CASE ~(drain[d].sub = s /\ Called(drain[d]))
      <4>1. \A e \in Drains : drain[e].sub = s => ~Called(drain[e])
        BY <1>1, <2>3, <3>2
      <4>. QED BY <1>1, <2>2, <2>3, <4>1, NotCalled, CrashesNat
    <3>. QED BY <3>1, <3>2
  <2>. QED BY <1>1, <2>2, <2>3, CrashesNat DEF Counted, Is, Called
<1>. QED BY <1>2, <1>3, <1>4, <1>5, <1>6, <1>7 DEF WebhooksInv

\* A batch goes on to its next row, or ends.
LEMMA ContinueInv ==
  ASSUME WebhooksInv, NEW d \in Drains, Continue(d),
         UNCHANGED <<key, status, gone, open, row, made, stale, event, accepted, heard, posts, lapsed, untold, early>>,
         crashes' \in 0..MaxCrashes, crashes <= crashes',
         Called(drain[d]) /\ row[drain[d].sub] # None => crashes < crashes'
  PROVE  WebhooksInv'
<1>. PICK next : next = [Idle EXCEPT !.at = "find"]
  OBVIOUS
<1>1. next \in Drain /\ next.at = "find"
  BY DEF Idle, Drain
<1>2. PICK n \in {Idle, next} : Go(d, n)
  BY DEF Continue, Finish
<1>3. n \in Drain /\ n.at \in {"idle", "find"}
  BY <1>1, IdleSound
<1>. QED BY <1>2, <1>3, DrainInv DEF Earned, Called, Holding

LEMMA FindInv == ASSUME WebhooksInv, NEW d \in Drains, Find(d) PROVE WebhooksInv'
<1>0. /\ UNCHANGED <<key, status, gone, open, row, made, stale, event, accepted, heard, posts, lapsed, untold, early, crashes>>
      /\ ~Called(drain[d])
  BY DEF Find, records, news, queue, outside, Called
<1>1. crashes' \in 0..MaxCrashes /\ crashes <= crashes'
  BY <1>0, CrashesNat DEF WebhooksInv, TypeOK
<1>2. CASE Finish(d)
  BY <1>0, <1>1, <1>2, ContinueInv DEF Continue
<1>3. ASSUME NEW s \in Rows, Is(s, "PENDING"), Go(d, [drain[d] EXCEPT !.at = "claim", !.sub = s])
      PROVE  WebhooksInv'
  <2>. PICK n : n = [drain[d] EXCEPT !.at = "claim", !.sub = s]
    OBVIOUS
  <2>1. n \in Drain /\ n.at = "claim" /\ n.sub = s
    BY DEF WebhooksInv, TypeOK, Drain
  <2>2. s \in 1..made
    BY <1>3, RowFields DEF Is
  <2>. QED BY <1>0, <1>1, <1>3, <2>1, <2>2, DrainInv DEF Earned, Called, Holding
<1>. QED BY <1>2, <1>3 DEF Find

LEMMA ReadDeliveryInv == ASSUME WebhooksInv, NEW d \in Drains, ReadDelivery(d) PROVE WebhooksInv'
<1>. PICK s : s = drain[d].sub
  OBVIOUS
<1>1. /\ UNCHANGED <<key, status, gone, open, row, made, stale, event, accepted, heard, posts, lapsed, untold, early, crashes>>
      /\ drain[d].at = "read" /\ drain[d].at \in Holding /\ ~Called(drain[d])
  BY DEF ReadDelivery, records, news, queue, outside, Called, Holding
<1>2. crashes' \in 0..MaxCrashes /\ crashes <= crashes' /\ s \in 1..made /\ s \in Rows /\ drain[d] \in Drain
  BY <1>1, CrashesNat, DrainFields DEF WebhooksInv, TypeOK
<1>3. CASE row[s] = None
  <2>1. Continue(d)
    BY <1>3 DEF ReadDelivery
  <2>. QED BY <1>1, <1>2, <2>1, ContinueInv
<1>4. CASE row[s] # None
  <2>1. Is(s, "PROCESSING") /\ row[s].attempts \in Nat /\ row[s].attempts < MaxAttempts /\ row[s].attempts <= posts[s]
    BY <1>1, <1>2, <1>4, RowFields DEF WebhooksInv, ClaimsHold, Holds, Counted, Is
  <2>2. posts[s] <= row[s].attempts + crashes
    <3>1. \A e \in Drains : drain[e].sub = s => ~Called(drain[e])
      BY <1>1, OnlyHolder, DrainFields
    <3>. QED BY <1>2, <1>4, <2>1, <3>1, NotCalled DEF Is
  <2>3. CASE key = "usable"
    <3>. PICK n : n = [drain[d] EXCEPT !.at = "post", !.attempts = row[s].attempts]
      OBVIOUS
    <3>1. Go(d, n)
      BY <1>4, <2>3 DEF ReadDelivery
    <3>2. n \in Drain /\ n.at = "post" /\ n.sub = s /\ n.attempts = row[s].attempts
      BY <1>2, <2>1 DEF Drain, Holding
    <3>3. Earned(n)
      BY <2>1, <2>2, <3>2 DEF Earned, Called
    <3>. QED BY <1>1, <1>2, <3>1, <3>2, <3>3, DrainInv
  <2>4. CASE key # "usable"
    <3>. PICK n : n = [drain[d] EXCEPT !.at = "write", !.outcome = "unusable"]
      OBVIOUS
    <3>1. Go(d, n)
      BY <1>4, <2>4 DEF ReadDelivery
    <3>2. n \in Drain /\ n.at = "write" /\ n.sub = s /\ n.outcome = "unusable"
      BY <1>2 DEF Drain, Holding
    <3>3. Earned(n)
      BY <1>2, <1>4, <2>4, <3>2 DEF Earned, Called, WebhooksInv, LapsesSeen, Alive
    <3>. QED BY <1>1, <1>2, <3>1, <3>2, <3>3, DrainInv
  <2>. QED BY <2>3, <2>4
<1>. QED BY <1>3, <1>4

LEMMA WriteNothingInv == ASSUME WebhooksInv, NEW d \in Drains, WriteNothing(d) PROVE WebhooksInv'
<1>1. /\ UNCHANGED <<key, status, gone, open, row, made, stale, event, accepted, heard, posts, lapsed, untold, early, crashes>>
      /\ row[drain[d].sub] = None /\ Continue(d)
  BY DEF WriteNothing, records, news, queue, outside, Continue
<1>2. crashes' \in 0..MaxCrashes /\ crashes <= crashes'
  BY <1>1, CrashesNat DEF WebhooksInv, TypeOK
<1>. QED BY <1>1, <1>2, ContinueInv

LEMMA CrashDrainInv == ASSUME WebhooksInv, NEW d \in Drains, CrashDrain(d) PROVE WebhooksInv'
<1>1. /\ UNCHANGED <<key, status, gone, open, row, made, stale, event, accepted, heard, posts, lapsed, untold, early>>
      /\ crashes < MaxCrashes /\ crashes' = crashes + 1 /\ Continue(d)
  BY DEF CrashDrain, records, news, queue, outside, Continue
<1>2. crashes' \in 0..MaxCrashes /\ crashes < crashes' /\ crashes <= crashes'
  BY <1>1, CrashesNat, WebhooksAssumption DEF WebhooksInv, TypeOK
<1>. QED BY <1>1, <1>2, ContinueInv

LEMMA WriteFailsInv == ASSUME WebhooksInv, NEW d \in Drains, WriteFails(d) PROVE WebhooksInv'
<1>. PICK n : n = [drain[d] EXCEPT !.outcome = "failed"]
  OBVIOUS
<1>1. /\ UNCHANGED <<key, status, gone, open, row, made, stale, event, accepted, heard, posts, lapsed, untold, early>>
      /\ drain[d].at = "write" /\ drain[d].outcome = "ok"
      /\ crashes < MaxCrashes /\ crashes' = crashes + 1 /\ Go(d, n)
  BY DEF WriteFails, records, news, queue, outside
<1>2. crashes' \in 0..MaxCrashes /\ crashes < crashes' /\ crashes <= crashes'
  BY <1>1, CrashesNat, WebhooksAssumption DEF WebhooksInv, TypeOK
<1>3. /\ n \in Drain /\ n.at = "write" /\ n.outcome = "failed" /\ n.sub = drain[d].sub
      /\ n.attempts = drain[d].attempts /\ drain[d].at \in Holding /\ n.sub \in 1..made
  BY <1>1, DrainFields DEF Drain, Holding
<1>4. Earned(n)
  BY <1>1, <1>3 DEF Earned, Called, WebhooksInv
<1>. QED BY <1>1, <1>2, <1>3, <1>4, DrainInv

LEMMA PostInv == ASSUME WebhooksInv, NEW d \in Drains, Post(d) PROVE WebhooksInv'
<1>. PICK s, k : s = drain[d].sub /\ k = drain[d].attempts
  OBVIOUS
<1>1. /\ UNCHANGED <<key, status, gone, open, row, made, stale, event, lapsed, untold, early, crashes>>
      /\ drain[d].at = "post" /\ posts' = [posts EXCEPT ![s] = @ + 1]
  BY DEF Post, records, news, queue
<1>2. /\ drain[d] \in Drain /\ k \in Nat /\ s \in 1..made /\ s \in Rows /\ drain[d].at \in Holding
      /\ ~Called(drain[d]) /\ crashes \in Nat /\ MaxAttempts \in Nat /\ \A u \in Rows : posts[u] \in Nat
  BY <1>1, DrainFields, CrashesNat DEF Holding, Called
<1>3. /\ k < MaxAttempts /\ k <= posts[s] /\ posts[s] <= k + crashes
      /\ row[s] # None => k = row[s].attempts
  BY <1>1 DEF WebhooksInv, Earned
<1>4. posts' \in [Rows -> Nat] /\ posts'[s] = posts[s] + 1 /\ \A u \in Rows : u # s => posts'[u] = posts[u]
  BY <1>1, <1>2 DEF WebhooksInv, TypeOK
<1>5. PICK outcome \in {"ok", "failed"} :
        /\ Go(d, [drain[d] EXCEPT !.at = "write", !.outcome = outcome])
        /\ accepted \subseteq accepted' /\ accepted' \subseteq accepted \cup {s}
        /\ outcome = "ok" => s \in accepted'
  BY DEF Post
<1>. PICK n : n = [drain[d] EXCEPT !.at = "write", !.outcome = outcome]
  OBVIOUS
<1>6. n \in Drain /\ n.at = "write" /\ n.outcome = outcome /\ n.sub = s /\ n.attempts = k /\ n.at \in Holding
  BY <1>2 DEF Drain, Holding
<1>7. drain' = [drain EXCEPT ![d] = n] /\ drain \in [Drains -> Drain]
  BY <1>5 DEF Go, WebhooksInv, TypeOK
<1>8. TypeOK'
  <2>1. heard' \in [Reservations -> Changes]
    <3>1. row[s] # None => row[s].told \in Changes
      BY <1>2 DEF WebhooksInv, TypeOK, Row
    <3>. QED BY <3>1 DEF Post, WebhooksInv, TypeOK
  <2>. QED BY <1>1, <1>2, <1>4, <1>5, <1>6, <1>7, <2>1 DEF WebhooksInv, TypeOK
<1>9. (QueueSound /\ Shaped /\ SucceededIsAccepted /\ LapsesSeen)'
  <2>1. QueueSound'
    BY <1>1, <1>2, <1>4, <1>5, MadeInRows DEF WebhooksInv, QueueSound, Is, Rows
  <2>2. (Shaped /\ SucceededIsAccepted /\ LapsesSeen)'
    BY <1>1, <1>2, <1>5, <1>6, <1>7 DEF WebhooksInv, Shaped, SucceededIsAccepted, LapsesSeen, Alive, Is
  <2>. QED BY <2>1, <2>2
<1>10. ClaimsHold'
  <2>1. \A e \in Drains, u \in Rows : Holds(e, u)' <=> Holds(e, u)
    BY <1>2, <1>6, <1>7 DEF Holds
  <2>. QED BY <1>1, <2>1 DEF WebhooksInv, ClaimsHold, Is
<1>11. (\A e \in Drains : Earned(drain[e]))'
  <2>. SUFFICES ASSUME NEW e \in Drains PROVE Earned(drain[e])'
    OBVIOUS
  <2>1. CASE e = d
    <3>1. drain'[e] = n
      BY <1>7, <2>1
    <3>. QED BY <1>1, <1>2, <1>3, <1>4, <1>5, <1>6, <3>1 DEF Earned, Called
  <2>2. CASE e # d
    <3>1. drain'[e] = drain[e] /\ Earned(drain[e])
      BY <1>7, <2>2 DEF WebhooksInv
    <3>2. drain[e].at = "post" \/ Called(drain[e]) => drain[e].sub # s /\ drain[e].sub \in Rows
      BY <1>2, <2>2, OnlyHolder, DrainFields
    <3>. QED BY <1>1, <1>4, <1>5, <3>1, <3>2 DEF Earned, Called
  <2>. QED BY <2>1, <2>2
<1>12. (\A u \in Rows : Counted(u))'
  <2>. SUFFICES ASSUME NEW u \in Rows, row[u] # None PROVE Counted(u)'
    BY <1>1 DEF Counted
  <2>1. Counted(u) /\ row[u].attempts \in Nat
    BY RowFields DEF WebhooksInv
  <2>2. CASE u = s
    <3>1. drain'[d].sub = s /\ Called(drain'[d])
      BY <1>5, <1>6, <1>7 DEF Called
    <3>2. /\ row[s].attempts <= posts'[s] /\ posts'[s] <= row[s].attempts + crashes + 1
      BY <1>2, <1>3, <1>4, <2>1, <2>2
    <3>. QED BY <1>1, <2>1, <2>2, <3>1, <3>2 DEF Counted, Is, Called
  <2>3. CASE u # s
    <3>1. (\A e \in Drains : drain'[e].sub = u => ~Called(drain'[e])) => \A e \in Drains : drain[e].sub = u => ~Called(drain[e])
      BY <1>7, <2>3
    <3>. QED BY <1>1, <1>4, <2>1, <2>3, <3>1 DEF Counted, Is, Called
  <2>. QED BY <2>2, <2>3
<1>13. (CallsBounded /\ DeadIsEarned)'
  BY <1>1, <1>2, <1>3, <1>4 DEF WebhooksInv, CallsBounded, DeadIsEarned, Is
<1>. QED BY <1>8, <1>9, <1>10, <1>11, <1>12, <1>13 DEF WebhooksInv

-----------------------------------------------------------------------------
(***************************************************************************)
(* Steps that write a row.                                                 *)
(***************************************************************************)

\* A batch writes the row it has found, which no other batch holds.
LEMMA RowInv ==
  ASSUME WebhooksInv, NEW d \in Drains, NEW n \in Drain, NEW s \in Rows, NEW new \in Row, Go(d, n),
         row' = [row EXCEPT ![s] = new], stale' = stale \ {s}, row[s] # None, drain[d].sub = s,
         UNCHANGED <<key, status, gone, open, made, event, accepted, heard, posts, lapsed, untold, early, crashes>>,
         \A e \in Drains : e # d => ~Holds(e, s),
         n.at \in {"idle", "find"} \/ (n.at = "read" /\ n.sub = s /\ new.status = "PROCESSING"),
         new.status = "SUCCEEDED" => s \in accepted,
         new.status = "DEAD" => posts[s] >= MaxAttempts \/ s \in lapsed,
         new.status \in {"PENDING", "PROCESSING"} => new.attempts < MaxAttempts,
         new.attempts <= posts[s], posts[s] <= new.attempts + crashes + 1,
         new.status # "SUCCEEDED" => posts[s] <= new.attempts + crashes
  PROVE  WebhooksInv'
<1>1. /\ drain' = [drain EXCEPT ![d] = n] /\ drain \in [Drains -> Drain] /\ row \in [Rows -> Row \cup {None}]
      /\ ~Called(n) /\ n.at # "post" /\ s \in 1..made
  BY RowFields DEF Go, WebhooksInv, TypeOK, Called
<1>2. new # None
  BY NoneAssumption
<1>3. TypeOK'
  BY <1>1 DEF WebhooksInv, TypeOK
<1>4. QueueSound'
  <2>1. s <= made /\ \A u \in stale' : u # s
    BY <1>1
  <2>. QED BY <1>1, <2>1, MadeInRows DEF WebhooksInv, QueueSound, Is, Rows
<1>5. (Shaped /\ LapsesSeen)'
  BY <1>1, <1>2 DEF WebhooksInv, Shaped, Holding, LapsesSeen, Alive
<1>6. ClaimsHold'
  <2>1. \A e \in Drains, u \in Rows : Holds(e, u)' =>
           \/ u # s /\ Holds(e, u)
           \/ u = s /\ e = d /\ new.status = "PROCESSING"
    BY <1>1 DEF Holds, Holding
  <2>. QED BY <1>1, <2>1 DEF WebhooksInv, ClaimsHold, Is
<1>7. (\A e \in Drains : Earned(drain[e]))'
  <2>. SUFFICES ASSUME NEW e \in Drains PROVE Earned(drain[e])'
    OBVIOUS
  <2>1. CASE e = d
    <3>1. drain'[e] = n
      BY <1>1, <2>1
    <3>. QED BY <1>1, <3>1 DEF Earned, Called
  <2>2. CASE e # d
    <3>1. drain'[e] = drain[e] /\ Earned(drain[e])
      BY <1>1, <2>2 DEF WebhooksInv
    <3>2. drain[e].at = "post" \/ Called(drain[e]) => drain[e].sub # s /\ drain[e].sub \in Rows
      BY <2>2, DrainFields DEF Holds
    <3>3. drain[e].at = "post" \/ Called(drain[e]) => row'[drain[e].sub] = row[drain[e].sub]
      BY <1>1, <3>2
    <3>. QED BY <1>1, <3>1, <3>3 DEF Earned, Called
  <2>. QED BY <2>1, <2>2
<1>8. (\A u \in Rows : Counted(u))'
  <2>. SUFFICES ASSUME NEW u \in Rows, row'[u] # None PROVE Counted(u)'
    BY DEF Counted
  <2>1. CASE u = s
    BY <1>1, <2>1 DEF Counted, Is
  <2>2. CASE u # s
    <3>1. row'[u] = row[u] /\ Counted(u)
      BY <1>1, <2>2 DEF WebhooksInv
    <3>2. (\A e \in Drains : drain'[e].sub = u => ~Called(drain'[e])) => \A e \in Drains : drain[e].sub = u => ~Called(drain[e])
      BY <1>1, <2>2
    <3>. QED BY <3>1, <3>2 DEF Counted, Is, Called
  <2>. QED BY <2>1, <2>2
<1>9. (SucceededIsAccepted /\ DeadIsEarned /\ CallsBounded)'
  BY <1>1 DEF WebhooksInv, SucceededIsAccepted, DeadIsEarned, CallsBounded, Is
<1>. QED BY <1>3, <1>4, <1>5, <1>6, <1>7, <1>8, <1>9 DEF WebhooksInv

LEMMA ClaimInv == ASSUME WebhooksInv, NEW d \in Drains, Claim(d) PROVE WebhooksInv'
<1>. PICK s : s = drain[d].sub
  OBVIOUS
<1>1. /\ UNCHANGED <<key, status, gone, open, made, stale, event, accepted, heard, posts, lapsed, untold, early, crashes>>
      /\ drain[d].at = "claim" /\ ~Called(drain[d])
  BY DEF Claim, records, news, outside, Called
<1>2. crashes' \in 0..MaxCrashes /\ crashes <= crashes' /\ s \in Rows /\ drain[d] \in Drain
  BY <1>1, CrashesNat, DrainFields DEF WebhooksInv, TypeOK
<1>3. CASE ~Is(s, "PENDING")
  BY <1>1, <1>2, <1>3, ContinueInv DEF Claim
<1>4. CASE Is(s, "PENDING")
  <2>. PICK new, n : new = [row[s] EXCEPT !.status = "PROCESSING"] /\ n = [drain[d] EXCEPT !.at = "read"]
    OBVIOUS
  <2>1. row' = [row EXCEPT ![s] = new] /\ Go(d, n) /\ row[s] # None /\ row[s].status = "PENDING"
    BY <1>4 DEF Claim, Is
  <2>2. row[s] \in Row /\ row[s].attempts \in Nat /\ row[s].attempts <= posts[s]
    BY <1>2, <2>1, RowFields
  <2>3. new \in Row /\ new.status = "PROCESSING" /\ new.attempts = row[s].attempts
    BY <2>2 DEF Row
  <2>4. n \in Drain /\ n.at = "read" /\ n.sub = s
    BY <1>2 DEF Drain, Holding
  <2>5. stale' = stale \ {s} /\ \A e \in Drains : ~Holds(e, s)
    BY <1>1, <1>2, <2>1 DEF WebhooksInv, QueueSound, ClaimsHold, Is
  <2>6. posts[s] <= row[s].attempts + crashes /\ row[s].attempts < MaxAttempts
    <3>1. \A e \in Drains : drain[e].sub = s => ~Called(drain[e])
      BY <2>5, DrainFields DEF Holds
    <3>2. row[s].attempts < MaxAttempts
      BY <1>2, <1>4, <2>1 DEF WebhooksInv, Counted
    <3>. QED BY <1>2, <2>1, <3>1, <3>2, NotCalled DEF Is
  <2>7. posts[s] <= row[s].attempts + crashes + 1
    BY <1>2, <2>2, <2>6, CrashesNat
  <2>. QED BY <1>1, <1>2, <2>1, <2>2, <2>3, <2>4, <2>5, <2>6, <2>7, RowInv
<1>. QED BY <1>3, <1>4

LEMMA WriteInv == ASSUME WebhooksInv, NEW d \in Drains, Write(d) PROVE WebhooksInv'
<1>. PICK p, s : p = drain[d] /\ s = drain[d].sub
  OBVIOUS
<1>. PICK new, next : new = Written(p, row[s]) /\ next = [Idle EXCEPT !.at = "find"]
  OBVIOUS
<1>1. /\ row' = [row EXCEPT ![s] = new] /\ stale' = stale \ {s} /\ p.at = "write" /\ row[s] # None /\ Continue(d)
      /\ UNCHANGED <<key, status, gone, open, made, event, accepted, heard, posts, lapsed, untold, early, crashes>>
      /\ p.at \in Holding
  <2>1. /\ row' = [row EXCEPT ![s] = Written(drain[d], @)] /\ stale' = stale \ {s} /\ p.at = "write"
        /\ row[s] # None /\ Continue(d)
        /\ UNCHANGED <<key, status, gone, open, made, event, accepted, heard, posts, lapsed, untold, early, crashes>>
    BY DEF Write, records, news, outside
  <2>. QED BY <2>1 DEF Holding
<1>2. next \in Drain /\ next.at = "find"
  BY DEF Idle, Drain
<1>3. PICK n \in {Idle, next} : Go(d, n)
  BY <1>1 DEF Continue, Finish
<1>4. n \in Drain /\ n.at \in {"idle", "find"}
  BY <1>2, IdleSound
<1>5. p \in Drain /\ p.attempts \in Nat /\ s \in Rows /\ Earned(p) /\ Counted(s)
  BY <1>1, DrainFields DEF WebhooksInv
<1>6. /\ row[s] \in Row /\ row[s].attempts \in Nat /\ row[s].attempts <= posts[s] /\ posts[s] \in Nat
      /\ crashes \in Nat /\ MaxAttempts \in Nat /\ posts[s] <= row[s].attempts + crashes + 1
  BY <1>1, <1>5, RowFields, CrashesNat DEF Counted
<1>7. \A e \in Drains : e # d => ~Holds(e, s)
  BY <1>1, OnlyHolder DEF Holds
<1>8. /\ new \in Row
      /\ new.status = "SUCCEEDED" => s \in accepted
      /\ new.status = "DEAD" => posts[s] >= MaxAttempts \/ s \in lapsed
      /\ new.status \in {"PENDING", "PROCESSING"} => new.attempts < MaxAttempts
      /\ new.attempts <= posts[s] /\ posts[s] <= new.attempts + crashes + 1
      /\ new.status # "SUCCEEDED" => posts[s] <= new.attempts + crashes
  <2>1. CASE p.outcome = "ok"
    <3>1. new = [row[s] EXCEPT !.status = "SUCCEEDED"]
      BY <2>1 DEF Written
    <3>2. new \in Row /\ new.status = "SUCCEEDED" /\ new.attempts = row[s].attempts
      BY <1>6, <3>1 DEF Row
    <3>. QED BY <1>1, <1>5, <1>6, <2>1, <3>2 DEF Earned
  <2>2. CASE p.outcome = "unusable"
    <3>1. new = [row[s] EXCEPT !.status = "DEAD"]
      BY <2>2 DEF Written
    <3>2. new \in Row /\ new.status = "DEAD" /\ new.attempts = row[s].attempts
      BY <1>6, <3>1 DEF Row
    <3>3. s \in lapsed
      BY <1>1, <1>5, <2>2 DEF Earned
    <3>4. posts[s] <= row[s].attempts + crashes
      <4>1. \A e \in Drains : drain[e].sub = s => ~Called(drain[e])
        BY <1>7, <2>2, DrainFields DEF Holds, Called
      <4>2. ~Is(s, "SUCCEEDED")
        BY <1>1, <1>5 DEF WebhooksInv, ClaimsHold, Holds, Is
      <4>. QED BY <1>1, <1>5, <4>1, <4>2, NotCalled
    <3>. QED BY <1>6, <3>2, <3>3, <3>4
  <2>3. CASE p.outcome = "failed"
    <3>. PICK k, st, due : /\ k = p.attempts + 1
                           /\ st = IF k >= MaxAttempts THEN "DEAD" ELSE "PENDING"
                           /\ due = (row[s].due /\ k >= MaxAttempts)
      OBVIOUS
    <3>1. new = [row[s] EXCEPT !.status = st, !.due = due, !.attempts = k]
      BY <2>3 DEF Written
    <3>2. k \in Nat /\ st \in {"DEAD", "PENDING"} /\ due \in BOOLEAN
      BY <1>5
    <3>3. new \in Row /\ new.status = st /\ new.attempts = k
      BY <1>6, <3>1, <3>2 DEF Row
    <3>4. k = row[s].attempts + 1 /\ k <= posts[s]
      BY <1>1, <1>5, <2>3 DEF Earned, Called
    <3>. QED BY <1>6, <3>2, <3>3, <3>4
  <2>. QED BY <1>5, <2>1, <2>2, <2>3 DEF Drain
<1>. QED BY <1>1, <1>3, <1>4, <1>5, <1>7, <1>8, RowInv

LEMMA InsertInv == ASSUME WebhooksInv, NEW t \in Requests, Insert(t) PROVE WebhooksInv'
<1>. PICK e, s : e = event[t] /\ s = made + 1
  OBVIOUS
<1>1. e \in Event /\ e.at = "insert" /\ e.res \in Reservations
  BY DEF Insert, WebhooksInv, TypeOK, Shaped
<1>2. CASE e.res \in gone
  <2>1. UNCHANGED <<records, queue, drain, outside, lapsed, crashes>> /\ Drop(t)
    BY <1>2 DEF Insert, queue
  <2>2. crashes' \in 0..MaxCrashes /\ crashes <= crashes'
    BY <2>1, CrashesNat DEF WebhooksInv, TypeOK
  <2>. QED BY <2>1, <2>2, DropInv
<1>3. CASE e.res \notin gone
  <2>. PICK new : new = [res |-> e.res, cause |-> e.cause, told |-> e.told,
                         status |-> "PENDING", due |-> TRUE, attempts |-> 0]
    OBVIOUS
  <2>1. /\ made < MaxRows /\ made' = s /\ row' = [row EXCEPT ![s] = new]
        /\ lapsed' = IF key = "usable" THEN lapsed ELSE lapsed \cup {s}
        /\ event' = [event EXCEPT ![t] = NoEvent]
        /\ UNCHANGED <<key, status, gone, open, stale, drain, accepted, heard, posts, untold, early, crashes>>
    BY <1>3 DEF Insert, records, news, outside
  <2>2. /\ s \in Rows /\ s > made /\ s \in 0..MaxRows /\ made \in Nat /\ 1..made \subseteq 1..s /\ s \notin 1..made
    BY <2>1, WebhooksAssumption DEF WebhooksInv, TypeOK, Rows
  <2>3. row[s] = None /\ posts[s] = 0 /\ s \notin stale
    BY <2>2 DEF WebhooksInv, QueueSound, Is
  <2>4. new \in Row
    BY <1>1 DEF Row, Event
  <2>5. new # None
    BY <2>4, NoneAssumption
  <2>6. TypeOK'
    <3>1. NoEvent \in Event
      BY WebhooksAssumption DEF NoEvent, Event, Changes
    <3>. QED BY <2>1, <2>2, <2>4, <3>1 DEF WebhooksInv, TypeOK
  <2>7. row'[s] = new /\ \A u \in Rows : u # s => row'[u] = row[u]
    BY <2>1, <2>2 DEF WebhooksInv, TypeOK
  <2>8. QueueSound'
    <3>1. \A u \in Rows : u > s => u > made /\ u # s
      BY <2>2 DEF Rows
    <3>. QED BY <2>1, <2>2, <2>3, <2>7, <3>1 DEF WebhooksInv, QueueSound, Is
  <2>9. Shaped'
    BY <2>1, <2>2, NoEventSound DEF WebhooksInv, TypeOK, Shaped
  <2>10. \A d \in Drains : drain[d].at \in Holding \cup {"claim"} => drain[d].sub # s /\ drain[d].sub \in Rows
    BY <2>2, DrainFields
  <2>11. ClaimsHold'
    BY <2>1, <2>7, <2>10 DEF WebhooksInv, ClaimsHold, Holds, Is
  <2>12. (\A d \in Drains : Earned(drain[d]))'
    <3>. SUFFICES ASSUME NEW d \in Drains PROVE Earned(drain[d])'
      OBVIOUS
    <3>1. drain'[d] = drain[d] /\ Earned(drain[d]) /\ lapsed \subseteq lapsed'
      BY <2>1 DEF WebhooksInv
    <3>2. drain[d].at = "post" \/ Called(drain[d]) => row'[drain[d].sub] = row[drain[d].sub]
      BY <2>7, <2>10, DrainFields
    <3>. QED BY <2>1, <3>1, <3>2 DEF Earned, Called
  <2>13. (\A u \in Rows : Counted(u))'
    <3>. SUFFICES ASSUME NEW u \in Rows PROVE Counted(u)'
      OBVIOUS
    <3>1. CASE u = s
      BY <2>1, <2>3, <2>7, <3>1, CrashesNat, WebhooksAssumption DEF Counted, Is
    <3>2. CASE u # s
      BY <2>1, <2>7, <3>2 DEF WebhooksInv, Counted, Is, Called
    <3>. QED BY <3>1, <3>2
  <2>14. (SucceededIsAccepted /\ DeadIsEarned /\ CallsBounded /\ LapsesSeen)'
    BY <2>1, <2>7 DEF WebhooksInv, SucceededIsAccepted, DeadIsEarned, CallsBounded, LapsesSeen, Alive, Is
  <2>. QED BY <2>6, <2>8, <2>9, <2>11, <2>12, <2>13, <2>14 DEF WebhooksInv
<1>. QED BY <1>2, <1>3

LEMMA StutterInv == ASSUME WebhooksInv, UNCHANGED vars PROVE WebhooksInv'
<1>1. /\ UNCHANGED <<queue, drain, outside>> /\ gone' = gone /\ crashes' = crashes /\ lapsed' = lapsed /\ key' = key
      /\ event' = event /\ status' = status /\ open' = open /\ untold' = untold /\ early' = early
  BY DEF vars, queue, outside
<1>2. crashes' \in 0..MaxCrashes /\ crashes <= crashes'
  BY <1>1, CrashesNat DEF WebhooksInv, TypeOK
<1>. QED BY <1>1, <1>2, EventInv DEF WebhooksInv, TypeOK, Shaped, LapsesSeen

LEMMA NextInv == ASSUME WebhooksInv, [Next]_vars PROVE WebhooksInv'
<1>1. CASE SetKey \/ UNCHANGED vars
  BY <1>1, SetKeyInv, StutterInv
<1>2. ASSUME NEW r \in Reservations, Delete(r) PROVE WebhooksInv'
  BY <1>2, DeleteInv
<1>6. ASSUME NEW r \in Reservations, EndTransaction(r) \/ Overwrite(r) PROVE WebhooksInv'
  BY <1>6, StatusInv
<1>3. ASSUME NEW t \in Requests, Change(t) \/ ChangeInTransaction(t) \/ RequestStep(t) \/ CrashRequest(t) PROVE WebhooksInv'
  BY <1>3, ChangeInv, ReadKeyInv, ReadStatusInv, InsertInv, CrashRequestInv DEF RequestStep
<1>4. ASSUME NEW d \in Drains, DrainStep(d) \/ WriteFails(d) \/ CrashDrain(d) PROVE WebhooksInv'
  BY <1>4, BeginInv, FindInv, ClaimInv, ReadDeliveryInv, PostInv, WriteInv, WriteNothingInv, WriteFailsInv, CrashDrainInv
     DEF DrainStep
<1>5. ASSUME NEW s \in Rows, BackoffEnds(s) \/ Age(s) PROVE WebhooksInv'
  BY <1>5, BackoffEndsInv, AgeInv
<1>. QED BY <1>1, <1>2, <1>3, <1>4, <1>5, <1>6 DEF Next

\* enqueueReservationWebhookEvent, processDueDeliveriesBatch and deliverOne keep
\* the inductive invariant, for any number of requests, batches and rows.
THEOREM WebhooksInvariant == Spec => []WebhooksInv
<1>1. Init => WebhooksInv
  BY InitInv
<1>2. WebhooksInv /\ [Next]_vars => WebhooksInv'
  BY NextInv
<1>. QED BY <1>1, <1>2, PTL DEF Spec

\* deliverOne writes SUCCEEDED only on a delivery the partner has answered with 2xx.
THEOREM SuccessIsAccepted == Spec => []SucceededIsAccepted
<1>1. WebhooksInv => SucceededIsAccepted
  BY DEF WebhooksInv
<1>. QED BY <1>1, WebhooksInvariant, PTL

\* The claim of deliverOne keeps overlapping batches from calling the partner
\* more than PARTNER_WEBHOOK_MAX_ATTEMPTS times, but for outcomes not stored.
THEOREM CallsAreBounded == Spec => []CallsBounded
<1>1. WebhooksInv => CallsBounded
  BY DEF WebhooksInv
<1>. QED BY <1>1, WebhooksInvariant, PTL

\* deliverOne writes DEAD only after so many calls, or when it could not call.
THEOREM DeadAreEarned == Spec => []DeadIsEarned
<1>1. WebhooksInv => DeadIsEarned
  BY DEF WebhooksInv
<1>. QED BY <1>1, WebhooksInvariant, PTL

-----------------------------------------------------------------------------
(***************************************************************************)
(* The refinement: every step maps to one of SubmissionQueue, or to none.  *)
(***************************************************************************)

Job == [s \in Rows |-> Where(s)]

\* The rows of J, and no others, have moved.
LEMMA Moved ==
  ASSUME NEW J \in SUBSET Rows, NEW from, NEW to,
         \A s \in J : Where(s) \in from /\ Where(s)' = to, \A s \in Rows \ J : Where(s)' = Where(s)
  PROVE  Queue!Moves(J, from, to)
BY DEF Queue!Moves, Where, Rows

LEMMA WhereSame == ASSUME NEW s \in Rows, row'[s] = row[s], made' = made PROVE Where(s)' = Where(s)
BY DEF Where

LEMMA RowWhere ==
  ASSUME WebhooksInv, NEW s \in Rows
  PROVE  /\ Is(s, "PENDING") => Where(s) = "waiting"
         /\ Is(s, "PROCESSING") => Where(s) = "taken"
         /\ row[s] # None => Where(s) \in {"waiting", "taken", "sent", "failed"}
         /\ s \in 1..made /\ row[s] = None => Where(s) = "gone"
         /\ s > made => Where(s) = "new"
         /\ s \in 1..made => ~(s > made)
BY MadeInRows DEF WebhooksInv, TypeOK, QueueSound, Where, Is, Row, Rows

LEMMA InitQueue == Init => Queue!Init
BY WebhooksAssumption DEF Init, Queue!Init, Where, Rows

LEMMA StutterQueue == ASSUME UNCHANGED <<row, made, accepted>> PROVE UNCHANGED <<Job, accepted>>
BY DEF Job, Where

LEMMA InsertQueue == ASSUME WebhooksInv, NEW t \in Requests, Insert(t) PROVE [Queue!Next]_<<Job, accepted>>
<1>. PICK e, s : e = event[t] /\ s = made + 1
  OBVIOUS
<1>1. CASE e.res \in gone
  BY <1>1, StutterQueue DEF Insert, outside
<1>2. CASE e.res \notin gone
  <2>. PICK new : new = [res |-> e.res, cause |-> e.cause, told |-> e.told,
                         status |-> "PENDING", due |-> TRUE, attempts |-> 0]
    OBVIOUS
  <2>1. made < MaxRows /\ made' = s /\ row' = [row EXCEPT ![s] = new] /\ UNCHANGED accepted
    BY <1>2 DEF Insert, outside
  <2>2. s \in Rows /\ s > made /\ \A u \in Rows : u # s => (u > s <=> u > made)
    BY <2>1, WebhooksAssumption DEF WebhooksInv, TypeOK, Rows
  <2>3. new # None /\ new.status = "PENDING"
    <3>1. e \in Event /\ e.res \in Reservations
      BY DEF Insert, WebhooksInv, TypeOK, Shaped
    <3>2. new \in Row
      BY <3>1 DEF Row, Event
    <3>. QED BY <3>2, NoneAssumption
  <2>4. row'[s] = new /\ (\A u \in Rows : u # s => row'[u] = row[u]) /\ ~(s > s)
    BY <2>1, <2>2 DEF WebhooksInv, TypeOK, Rows
  <2>5. Where(s) = "new" /\ Where(s)' = "waiting"
    BY <2>1, <2>2, <2>3, <2>4 DEF Where
  <2>6. \A u \in Rows \ {s} : Where(u)' = Where(u)
    BY <2>1, <2>2, <2>4 DEF Where
  <2>7. Queue!Moves({s}, {"new"}, "waiting")
    BY <2>2, <2>5, <2>6, Moved
  <2>8. Queue!Submit(s)
    BY <2>1, <2>7 DEF Queue!Submit
  <2>. QED BY <2>2, <2>8 DEF Queue!Next
<1>. QED BY <1>1, <1>2

LEMMA DeleteQueue == ASSUME WebhooksInv, NEW r \in Reservations, Delete(r) PROVE [Queue!Next]_<<Job, accepted>>
<1>. PICK lost : lost = {s \in Alive : row[s].res = r}
  OBVIOUS
<1>1. row' = [s \in Rows |-> IF s \in lost THEN None ELSE row[s]] /\ UNCHANGED <<made, accepted>>
  BY DEF Delete, outside
<1>2. /\ lost \in SUBSET Rows /\ \A s \in lost : row[s] # None /\ row'[s] = None
      /\ \A s \in Rows \ lost : row'[s] = row[s]
  BY <1>1 DEF Alive
<1>3. \A s \in lost : Where(s) \in {"waiting", "taken", "sent", "failed"} /\ Where(s)' = "gone"
  <2>. SUFFICES ASSUME NEW s \in lost PROVE Where(s) \in {"waiting", "taken", "sent", "failed"} /\ Where(s)' = "gone"
    OBVIOUS
  <2>1. s \in Rows /\ s \in 1..made /\ ~(s > made)
    BY <1>2, RowFields, RowWhere
  <2>. QED BY <1>1, <1>2, <2>1, RowWhere DEF Where
<1>4. \A s \in Rows \ lost : Where(s)' = Where(s)
  BY <1>1, <1>2, WhereSame
<1>5. Queue!Moves(lost, {"waiting", "taken"} \cup {"sent", "skipped", "failed"}, "gone")
  BY <1>2, <1>3, <1>4, Moved
<1>6. Queue!Withdraw(lost)
  BY <1>1, <1>5 DEF Queue!Withdraw, Queue!Settled
<1>. QED BY <1>2, <1>6 DEF Queue!Next

LEMMA BeginQueue == ASSUME WebhooksInv, NEW d \in Drains, Begin(d) PROVE [Queue!Next]_<<Job, accepted>>
<1>1. /\ row' = [s \in Rows |-> IF s \in stale THEN [row[s] EXCEPT !.status = "PENDING"] ELSE row[s]]
      /\ UNCHANGED <<made, accepted>>
  BY DEF Begin, outside
<1>2. stale \in SUBSET Rows /\ \A s \in Rows \ stale : row'[s] = row[s]
  BY <1>1 DEF WebhooksInv, TypeOK
<1>3. \A s \in stale : Where(s) = "taken" /\ Where(s)' = "waiting"
  <2>. SUFFICES ASSUME NEW s \in stale PROVE Where(s) = "taken" /\ Where(s)' = "waiting"
    OBVIOUS
  <2>1. s \in Rows /\ Is(s, "PROCESSING") /\ row[s] \in Row
    BY <1>2, RowFields DEF WebhooksInv, QueueSound, Is
  <2>2. row'[s] = [row[s] EXCEPT !.status = "PENDING"] /\ row'[s] \in Row /\ row'[s].status = "PENDING"
    BY <1>1, <2>1 DEF Row
  <2>3. ~(s > made) /\ row'[s] # None
    BY <2>1, <2>2, NoneAssumption, RowFields, RowWhere DEF Is
  <2>. QED BY <1>1, <2>1, <2>2, <2>3, RowWhere DEF Where
<1>4. \A s \in Rows \ stale : Where(s)' = Where(s)
  BY <1>1, <1>2, WhereSame
<1>5. Queue!GiveBack(stale)
  BY <1>1, <1>2, <1>3, <1>4, Moved DEF Queue!GiveBack
<1>. QED BY <1>2, <1>5 DEF Queue!Next

LEMMA ClaimQueue == ASSUME WebhooksInv, NEW d \in Drains, Claim(d) PROVE [Queue!Next]_<<Job, accepted>>
<1>. PICK s : s = drain[d].sub
  OBVIOUS
<1>1. s \in Rows /\ UNCHANGED <<made, accepted>>
  BY DrainFields DEF Claim, outside
<1>2. CASE ~Is(s, "PENDING")
  BY <1>1, <1>2, StutterQueue DEF Claim
<1>3. CASE Is(s, "PENDING")
  <2>. PICK new : new = [row[s] EXCEPT !.status = "PROCESSING"]
    OBVIOUS
  <2>1. row' = [row EXCEPT ![s] = new] /\ row[s] \in Row /\ ~(s > made)
    BY <1>1, <1>3, RowFields, RowWhere DEF Claim, Is
  <2>2. new \in Row /\ new.status = "PROCESSING"
    BY <2>1 DEF Row
  <2>3. row'[s] = new /\ new # None /\ \A u \in Rows \ {s} : row'[u] = row[u]
    BY <1>1, <2>1, <2>2, NoneAssumption DEF WebhooksInv, TypeOK
  <2>4. Where(s) = "waiting" /\ Where(s)' = "taken"
    BY <1>1, <1>3, <2>1, <2>2, <2>3, RowWhere DEF Where
  <2>5. \A u \in Rows \ {s} : Where(u)' = Where(u)
    BY <1>1, <2>3, WhereSame
  <2>6. Queue!Take(s)
    BY <1>1, <2>4, <2>5, Moved DEF Queue!Take
  <2>. QED BY <1>1, <2>6 DEF Queue!Next
<1>. QED BY <1>2, <1>3

\* Only a delivery that is taken, or deleted since, is posted.
LEMMA PostQueue == ASSUME WebhooksInv, NEW d \in Drains, Post(d) PROVE [Queue!Next]_<<Job, accepted>>
<1>. PICK s : s = drain[d].sub
  OBVIOUS
<1>1. UNCHANGED <<row, made>> /\ drain[d].at = "post" /\ accepted' \in {accepted, accepted \cup {s}}
  BY DEF Post, queue
<1>2. s \in 1..made /\ s \in Rows /\ (row[s] = None \/ Is(s, "PROCESSING"))
  BY <1>1, DrainFields DEF WebhooksInv, ClaimsHold, Holds, Holding
<1>3. CASE accepted' = accepted
  BY <1>1, <1>3, StutterQueue
<1>4. CASE accepted' = accepted \cup {s}
  <2>1. Where(s) \in {"taken", "gone"} /\ \A u \in Rows : Where(u)' = Where(u)
    BY <1>1, <1>2, RowWhere, WhereSame
  <2>2. Queue!Deliver(s)
    BY <1>2, <1>4, <2>1 DEF Queue!Deliver
  <2>. QED BY <1>2, <2>2 DEF Queue!Next
<1>. QED BY <1>1, <1>3, <1>4

LEMMA WriteQueue == ASSUME WebhooksInv, NEW d \in Drains, Write(d) PROVE [Queue!Next]_<<Job, accepted>>
<1>. PICK p, s : p = drain[d] /\ s = drain[d].sub
  OBVIOUS
<1>. PICK new : new = Written(p, row[s])
  OBVIOUS
<1>1. /\ row' = [row EXCEPT ![s] = Written(drain[d], @)] /\ p.at = "write" /\ row[s] # None
      /\ UNCHANGED <<made, accepted>> /\ p.at \in Holding
  BY DEF Write, outside, Holding
<1>2. /\ p \in Drain /\ p.attempts \in Nat /\ s \in Rows /\ row[s] \in Row /\ Is(s, "PROCESSING") /\ s \in 1..made
      /\ (p.outcome = "ok" => s \in accepted)
  BY <1>1, DrainFields, RowFields DEF WebhooksInv, Earned, ClaimsHold, Holds
<1>3. row'[s] = new /\ (\A u \in Rows \ {s} : row'[u] = row[u]) /\ ~(s > made)
  BY <1>1, <1>2, RowWhere DEF WebhooksInv, TypeOK
<1>4. Where(s) = "taken" /\ \A u \in Rows \ {s} : Where(u)' = Where(u)
  BY <1>1, <1>2, <1>3, RowWhere, WhereSame
<1>5. new \in Row /\ new.status \in {"SUCCEEDED", "DEAD", "PENDING"} /\ (new.status = "SUCCEEDED" => p.outcome = "ok")
  <2>1. CASE p.outcome = "ok"
    <3>1. new = [row[s] EXCEPT !.status = "SUCCEEDED"]
      BY <2>1 DEF Written
    <3>. QED BY <1>2, <2>1, <3>1 DEF Row
  <2>2. CASE p.outcome = "unusable"
    <3>1. new = [row[s] EXCEPT !.status = "DEAD"]
      BY <2>2 DEF Written
    <3>. QED BY <1>2, <3>1 DEF Row
  <2>3. CASE p.outcome = "failed"
    <3>. PICK k, st, due : /\ k = p.attempts + 1
                           /\ st = IF k >= MaxAttempts THEN "DEAD" ELSE "PENDING"
                           /\ due = (row[s].due /\ k >= MaxAttempts)
      OBVIOUS
    <3>1. new = [row[s] EXCEPT !.status = st, !.due = due, !.attempts = k]
      BY <2>3 DEF Written
    <3>2. k \in Nat /\ st \in {"DEAD", "PENDING"} /\ due \in BOOLEAN
      BY <1>2
    <3>. QED BY <1>2, <3>1, <3>2 DEF Row
  <2>. QED BY <1>2, <2>1, <2>2, <2>3 DEF Drain
<1>6. new # None
  BY <1>5, NoneAssumption
<1>7. CASE new.status = "PENDING"
  <2>1. Where(s)' = "waiting"
    BY <1>1, <1>3, <1>6, <1>7 DEF Where
  <2>2. Queue!GiveBack({s})
    BY <1>1, <1>2, <1>4, <2>1, Moved DEF Queue!GiveBack
  <2>. QED BY <1>2, <2>2 DEF Queue!Next
<1>8. CASE new.status # "PENDING"
  <2>1. \E to \in {"sent", "failed"} : Where(s)' = to /\ (to = "sent" => s \in accepted)
    BY <1>1, <1>2, <1>3, <1>5, <1>6, <1>8 DEF Where
  <2>2. Queue!Settle(s)
    BY <1>1, <1>2, <1>4, <2>1, Moved DEF Queue!Settle, Queue!Settled
  <2>. QED BY <1>2, <2>2 DEF Queue!Next
<1>. QED BY <1>7, <1>8

LEMMA NextQueue == ASSUME WebhooksInv, [Next]_vars PROVE [Queue!Next]_<<Job, accepted>>
<1>1. CASE SetKey \/ UNCHANGED vars
  BY <1>1, StutterQueue DEF SetKey, vars, queue, outside
<1>2. ASSUME NEW r \in Reservations, Delete(r) PROVE [Queue!Next]_<<Job, accepted>>
  BY <1>2, DeleteQueue
<1>7. ASSUME NEW r \in Reservations, EndTransaction(r) \/ Overwrite(r) PROVE [Queue!Next]_<<Job, accepted>>
  BY <1>7, StutterQueue DEF EndTransaction, Overwrite, queue, outside
<1>3. ASSUME NEW t \in Requests, Change(t) \/ ChangeInTransaction(t) \/ RequestStep(t) \/ CrashRequest(t)
      PROVE  [Queue!Next]_<<Job, accepted>>
  <2>1. CASE Change(t) \/ ChangeInTransaction(t) \/ ReadKey(t) \/ ReadStatus(t) \/ CrashRequest(t)
    BY <2>1, StutterQueue DEF Change, ChangeInTransaction, ReadKey, ReadStatus, CrashRequest, queue, outside
  <2>. QED BY <1>3, <2>1, InsertQueue DEF RequestStep
<1>4. ASSUME NEW d \in Drains, DrainStep(d) \/ WriteFails(d) \/ CrashDrain(d) PROVE [Queue!Next]_<<Job, accepted>>
  <2>1. CASE Find(d) \/ ReadDelivery(d) \/ WriteNothing(d) \/ WriteFails(d) \/ CrashDrain(d)
    BY <2>1, StutterQueue DEF Find, ReadDelivery, WriteNothing, WriteFails, CrashDrain, queue, outside
  <2>. QED BY <1>4, <2>1, BeginQueue, ClaimQueue, PostQueue, WriteQueue DEF DrainStep
<1>5. ASSUME NEW s \in Rows, Age(s) PROVE [Queue!Next]_<<Job, accepted>>
  BY <1>5, StutterQueue DEF Age, outside
<1>6. ASSUME NEW s \in Rows, BackoffEnds(s) PROVE [Queue!Next]_<<Job, accepted>>
  <2>. PICK new : new = [row[s] EXCEPT !.due = TRUE]
    OBVIOUS
  <2>1. /\ row' = [row EXCEPT ![s] = new] /\ row[s] # None /\ row[s].status = "PENDING" /\ row[s] \in Row
        /\ UNCHANGED <<made, accepted>>
    BY <1>6 DEF BackoffEnds, Is, outside, WebhooksInv, TypeOK
  <2>2. new \in Row /\ new.status = row[s].status
    BY <2>1 DEF Row
  <2>3. new # None
    BY <2>2, NoneAssumption
  <2>4. \A u \in Rows : Where(u)' = Where(u)
    BY <2>1, <2>2, <2>3 DEF Where, WebhooksInv, TypeOK
  <2>. QED BY <2>1, <2>4 DEF Job
<1>. QED BY <1>1, <1>2, <1>3, <1>4, <1>5, <1>6, <1>7 DEF Next

\* The batches together are a submission queue, however they overlap, die and
\* put back each other's rows: what deliverOne settles is never touched again,
\* and nothing is posted that was not claimed.
THEOREM Refinement == Spec => QueueSpec
<1>1. Init => Queue!Init
  BY InitQueue
<1>2. WebhooksInv /\ [Next]_vars => [Queue!Next]_<<Job, accepted>>
  BY NextQueue
<1>. QED BY <1>1, <1>2, WebhooksInvariant, PTL DEF Spec, QueueSpec, Queue!Spec, Job
=============================================================================
