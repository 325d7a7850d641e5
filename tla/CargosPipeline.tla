---------------------------- MODULE CargosPipeline ----------------------------
(***************************************************************************)
(* The CaRGOS submissions of one company: the table CargosSubmission, the  *)
(* API requests that enqueue and, with sendImmediately, transmit a row     *)
(* themselves, and the worker processes that poll for PENDING rows.  Both  *)
(* transmit by the same steps: read, claim by a conditional update, read   *)
(* the company, call the adapter, write the outcome unconditionally.       *)
(***************************************************************************)
EXTENDS Naturals

CONSTANTS
  Reservations,
  Workers,         \* worker processes
  Senders,         \* API requests in flight at the same time
  Adapters,        \* the settings of the company: see AllAdapters
  MaxAttempts,     \* CARGOS_MAX_ATTEMPTS
  Prompt,          \* no transmission outlasts WORKER_PROCESSING_STALE_MS
  MaxSubs,         \* bound: rows ever created
  MaxCalls,        \* bound: API requests
  MaxCrashes,      \* bound: processes that die between two steps, and outcomes that are not stored
  None             \* null

\* NOURL is HTTP without an address; OFF also stands for out of scope.
AllAdapters == {"MOCK", "HTTP", "NOURL", "OFF"}

ASSUME CargosAssumption ==
  /\ Adapters \subseteq AllAdapters
  /\ MaxAttempts \in Nat \ {0}
  /\ Prompt \in BOOLEAN
  /\ MaxSubs \in Nat /\ MaxCalls \in Nat /\ MaxCrashes \in Nat
  /\ Workers \cap Senders = {}
  /\ None \notin Reservations

VARIABLES
  company,    \* the adapter setting
  resv,       \* Reservation, as far as it matters here
  row,        \* CargosSubmission: the row of each id, or None
  made,       \* rows created so far: ids are given in the order of createdAt
  stale,      \* the PROCESSING rows not updated for WORKER_PROCESSING_STALE_MS
  up,         \* the workers that run
  proc,       \* what each worker and each request is doing
  accepted,   \* outside: the submissions the adapter has accepted
  tries,      \* history: failed tries of each submission
  calls,      \* API requests so far
  crashes     \* processes that died so far

vars == <<company, resv, row, made, stale, up, proc, accepted, tries, calls, crashes>>

Subs == 1..MaxSubs
Transmitters == Workers \cup Senders
Statuses == {"PENDING", "PROCESSING", "MOCK_SENT", "SKIPPED", "FAILED"}
InFlight == {"PENDING", "PROCESSING"}
Row == [res : Reservations, status : Statuses, attempts : Nat]
Asking == {"policy", "skip", "look", "create"}
Holding == {"company", "send", "write"}
Idle == [at |-> "idle", res |-> None, now |-> FALSE, sub |-> 0, attempts |-> 0, outcome |-> "failed"]
Process == [at : Asking \cup Holding \cup {"idle", "fetch", "claim"}, res : Reservations \cup {None},
            now : BOOLEAN, sub : Subs \cup {0}, attempts : Nat, outcome : {"sent", "skipped", "failed"}]

\* Null is not a row.
ASSUME RowAssumption == None \notin Row

Is(s, status) == row[s] # None /\ row[s].status = status
Holds(t, s) == proc[t].at \in Holding /\ proc[t].sub = s

Init ==
  /\ company \in Adapters
  /\ resv = [r \in Reservations |-> "live"]
  /\ row = [s \in Subs |-> None]
  /\ made = 0 /\ stale = {} /\ accepted = {}
  /\ up = Workers
  /\ proc = [t \in Transmitters |-> Idle]
  /\ tries = [s \in Subs |-> 0]
  /\ calls = 0 /\ crashes = 0

Go(t, next) == proc' = [proc EXCEPT ![t] = next]
Finish(t) == Go(t, Idle)

world == <<company, resv, up, calls, crashes>>
queue == <<row, made, stale>>
outside == <<accepted, tries>>

(***************************************************************************)
(* What others do to the company and its reservations.                     *)
(***************************************************************************)

SetCompany ==
  /\ company' \in Adapters
  /\ UNCHANGED <<resv, queue, up, proc, outside, calls, crashes>>

\* A PATCH cancels, or revives.
SetStatus(r) ==
  /\ resv[r] # "gone" /\ \E status \in {"live", "cancelled"} : resv' = [resv EXCEPT ![r] = status]
  /\ UNCHANGED <<company, queue, up, proc, outside, calls, crashes>>

\* The submissions of a deleted reservation go with it.
Delete(r) ==
  LET lost == {s \in Subs : row[s] # None /\ row[s].res = r} IN
  /\ resv[r] # "gone" /\ resv' = [resv EXCEPT ![r] = "gone"]
  /\ row' = [s \in Subs |-> IF s \in lost THEN None ELSE row[s]]
  /\ stale' = stale \ lost
  /\ UNCHANGED <<company, made, up, proc, outside, calls, crashes>>

(***************************************************************************)
(* enqueue: reads, then at most one insert, then perhaps a transmission.   *)
(***************************************************************************)

Ask(t) ==
  /\ proc[t].at = "idle" /\ calls < MaxCalls /\ calls' = calls + 1
  /\ \E r \in Reservations, now \in BOOLEAN :
       resv[r] = "live" /\ Go(t, [Idle EXCEPT !.at = "policy", !.res = r, !.now = now])
  /\ UNCHANGED <<company, resv, queue, up, outside, crashes>>

ReadPolicy(t) ==
  /\ proc[t].at = "policy"
  /\ Go(t, CASE company = "OFF" -> [proc[t] EXCEPT !.at = "skip"]
             [] company = "NOURL" -> Idle
             [] OTHER -> [proc[t] EXCEPT !.at = "look"])
  /\ UNCHANGED <<world, queue, outside>>

\* The newest row in flight is the answer; without one, and after the cutoff, none is made.
LookForInFlight(t) ==
  LET p == proc[t]
      inflight == {s \in Subs : row[s] # None /\ row[s].res = p.res /\ row[s].status \in InFlight}
  IN
  /\ p.at = "look"
  /\ \/ \E s \in inflight :
          /\ \A o \in inflight : o <= s
          /\ Go(t, IF p.now /\ Is(s, "PENDING") THEN [p EXCEPT !.at = "fetch", !.sub = s] ELSE Idle)
     \/ inflight = {} /\ \E at \in {"create", "idle"} : Go(t, IF at = "idle" THEN Idle ELSE [p EXCEPT !.at = at])
  /\ UNCHANGED <<world, queue, outside>>

\* The insert fails when the reservation has gone.
Create(t) ==
  LET p == proc[t]  s == made + 1  status == IF p.at = "skip" THEN "SKIPPED" ELSE "PENDING" IN
  /\ p.at \in {"skip", "create"}
  /\ IF resv[p.res] = "gone" THEN Finish(t) /\ UNCHANGED <<row, made>>
     ELSE /\ made < MaxSubs /\ made' = s
          /\ row' = [row EXCEPT ![s] = [res |-> p.res, status |-> status, attempts |-> 0]]
          /\ Go(t, IF p.now /\ status = "PENDING" THEN [p EXCEPT !.at = "fetch", !.sub = s] ELSE Idle)
  /\ UNCHANGED <<world, stale, outside>>

(***************************************************************************)
(* Transmission: transmitPendingSubmission in the API, processOne in the   *)
(* worker.                                                                 *)
(***************************************************************************)

Take(t, s) == Go(t, [proc[t] EXCEPT !.at = "claim", !.sub = s, !.attempts = row[s].attempts])

Fetch(t) ==
  /\ proc[t].at = "fetch"
  /\ IF row[proc[t].sub] = None THEN Finish(t) ELSE Take(t, proc[t].sub)
  /\ UNCHANGED <<world, queue, outside>>

\* The worker takes the oldest.
Poll(w) ==
  /\ w \in up /\ proc[w].at = "idle"
  /\ \E s \in Subs : Is(s, "PENDING") /\ (\A o \in Subs : Is(o, "PENDING") => s <= o) /\ Take(w, s)
  /\ UNCHANGED <<world, queue, outside>>

\* Mutant: the update does not ask for PENDING.
ClaimBlindly(t) ==
  LET s == proc[t].sub IN
  /\ proc[t].at = "claim"
  /\ IF row[s] # None
     THEN row' = [row EXCEPT ![s].status = "PROCESSING"] /\ Go(t, [proc[t] EXCEPT !.at = "company"])
     ELSE Finish(t) /\ UNCHANGED row
  /\ UNCHANGED <<world, made, stale, outside>>

Claim(t) ==
  LET s == proc[t].sub IN
  /\ proc[t].at = "claim"
  /\ IF Is(s, "PENDING")
     THEN row' = [row EXCEPT ![s].status = "PROCESSING"] /\ Go(t, [proc[t] EXCEPT !.at = "company"])
     ELSE Finish(t) /\ UNCHANGED row
  /\ UNCHANGED <<world, made, stale, outside>>

Ends(t, outcome) == Go(t, [proc[t] EXCEPT !.at = "write", !.outcome = outcome])

\* MOCK stands for an adapter that accepts everything.  HTTP also reads the
\* reservation: when it has gone, so has the row, and no outcome can be stored.
ReadCompany(t) ==
  /\ proc[t].at = "company"
  /\ CASE company = "OFF" -> Ends(t, "skipped") /\ UNCHANGED accepted
       [] company = "NOURL" -> Ends(t, "failed") /\ UNCHANGED accepted
       [] company = "MOCK" -> Ends(t, "sent") /\ accepted' = accepted \cup {proc[t].sub}
       [] OTHER ->
            /\ IF row[proc[t].sub] = None THEN Ends(t, "failed") ELSE Go(t, [proc[t] EXCEPT !.at = "send"])
            /\ UNCHANGED accepted
  /\ UNCHANGED <<world, queue, tries>>

\* Mutant: an answer is an answer, whatever its status.
SendUnread(t) ==
  /\ proc[t].at = "send" /\ Ends(t, "sent")
  /\ accepted' \in {accepted, accepted \cup {proc[t].sub}}
  /\ UNCHANGED <<world, queue, tries>>

\* A submission the adapter has accepted may still time out here.
Send(t) ==
  /\ proc[t].at = "send"
  /\ \/ accepted' = accepted \cup {proc[t].sub} /\ \E outcome \in {"sent", "failed"} : Ends(t, outcome)
     \/ Ends(t, "failed") /\ UNCHANGED accepted
  /\ UNCHANGED <<world, queue, tries>>

\* Mutant: one too early.
ExhaustedEarly(attempts) == attempts + 2 >= MaxAttempts

Exhausted(attempts) == attempts + 1 >= MaxAttempts

\* Mutant: a requeued row keeps its status.
RequeuedInPlace(p, old) ==
  CASE p.outcome = "sent" -> [old EXCEPT !.status = "MOCK_SENT"]
    [] p.outcome = "skipped" -> [old EXCEPT !.status = "SKIPPED"]
    [] OTHER -> [old EXCEPT !.status = IF Exhausted(p.attempts) THEN "FAILED" ELSE @, !.attempts = p.attempts + 1]

\* The outcome, and failOrRequeue, which counts from what was read before the claim.
Written(p, old) ==
  CASE p.outcome = "sent" -> [old EXCEPT !.status = "MOCK_SENT"]
    [] p.outcome = "skipped" -> [old EXCEPT !.status = "SKIPPED"]
    [] OTHER -> [old EXCEPT !.status = IF Exhausted(p.attempts) THEN "FAILED" ELSE "PENDING",
                            !.attempts = p.attempts + 1]

Write(t) ==
  LET p == proc[t] IN
  /\ p.at = "write" /\ row[p.sub] # None /\ Finish(t)
  /\ row' = [row EXCEPT ![p.sub] = Written(p, @)]
  /\ tries' = IF p.outcome = "failed" THEN [tries EXCEPT ![p.sub] = @ + 1] ELSE tries
  /\ stale' = stale \ {p.sub}
  /\ UNCHANGED <<world, made, accepted>>

\* The write of a success fails: the catch counts it as a failed try.
WriteFails(t) ==
  /\ proc[t].at = "write" /\ proc[t].outcome = "sent" /\ crashes < MaxCrashes
  /\ crashes' = crashes + 1
  /\ Go(t, [proc[t] EXCEPT !.outcome = "failed"])
  /\ UNCHANGED <<company, resv, queue, up, outside, calls>>

\* The row has gone: the update throws, which ends the request, or the worker.
WriteNothing(t) ==
  /\ proc[t].at = "write" /\ row[proc[t].sub] = None /\ Finish(t)
  /\ up' = up \ {t}
  /\ UNCHANGED <<company, resv, queue, outside, calls, crashes>>

(***************************************************************************)
(* Crashes, and the recovery at the start of a worker.                     *)
(***************************************************************************)

Crash(t) ==
  /\ t \in up \cup Senders /\ crashes < MaxCrashes
  /\ crashes' = crashes + 1
  /\ up' = up \ {t} /\ Finish(t)
  /\ UNCHANGED <<company, resv, queue, outside, calls>>

\* Time passes for a row that stays PROCESSING.
Age(s) ==
  /\ Is(s, "PROCESSING") /\ s \notin stale
  /\ Prompt => \A t \in Transmitters : ~Holds(t, s)
  /\ stale' = stale \cup {s}
  /\ UNCHANGED <<world, row, made, proc, outside>>

\* main: resetStaleProcessing runs once, before the loop.
Restart(w) ==
  /\ w \notin up /\ up' = up \cup {w}
  /\ row' = [s \in Subs |-> IF s \in stale THEN [row[s] EXCEPT !.status = "PENDING"] ELSE row[s]]
  /\ stale' = {}
  /\ UNCHANGED <<company, resv, made, proc, outside, calls, crashes>>

Transmit(t) ==
  Claim(t) \/ ReadCompany(t) \/ Send(t) \/ Write(t) \/ WriteNothing(t)

WorkerStep(w) == Poll(w) \/ Transmit(w)

SenderStep(t) == ReadPolicy(t) \/ LookForInFlight(t) \/ Create(t) \/ Fetch(t) \/ Transmit(t)

Next ==
  \/ SetCompany
  \/ \E r \in Reservations : SetStatus(r) \/ Delete(r)
  \/ \E t \in Senders : Ask(t) \/ SenderStep(t)
  \/ \E w \in Workers : WorkerStep(w) \/ Restart(w)
  \/ \E t \in Transmitters : WriteFails(t) \/ Crash(t)
  \/ \E s \in Subs : Age(s)

Spec == Init /\ [][Next]_vars

\* The worker's loop runs and is started again when it dies; a request goes on.
FairSpec ==
  /\ Spec
  /\ \A w \in Workers : WF_vars(WorkerStep(w)) /\ WF_vars(Restart(w))
  /\ \A t \in Senders : WF_vars(SenderStep(t))

-----------------------------------------------------------------------------
(***************************************************************************)
(* Properties.                                                             *)
(***************************************************************************)

\* Every variable keeps its shape.
TypeOK ==
  /\ company \in Adapters
  /\ resv \in [Reservations -> {"live", "cancelled", "gone"}]
  /\ row \in [Subs -> Row \cup {None}]
  /\ made \in 0..MaxSubs
  /\ stale \subseteq Subs /\ accepted \subseteq Subs
  /\ up \subseteq Workers
  /\ proc \in [Transmitters -> Process]
  /\ tries \in [Subs -> Nat]
  /\ calls \in 0..MaxCalls /\ crashes \in 0..MaxCrashes

\* A submission marked MOCK_SENT has been accepted, whoever wrote it, however
\* often it was claimed, and although rows are reset under slow transmitters.
SentIsAccepted == \A s \in Subs : Is(s, "MOCK_SENT") => s \in accepted

\* A submission is FAILED only after MaxAttempts tries have failed: lost
\* increments of attemptCount, crashes and resets never cut its tries short.
NoEarlyFailure == \A s \in Subs : Is(s, "FAILED") => tries[s] >= MaxAttempts

\* A submission in the queue settles, unless its reservation is deleted or a
\* process dies: whatever the company is set to, and whoever else transmits.
EverySubmissionSettles ==
  \A s \in Subs : row[s] # None ~> (row[s] = None \/ row[s].status \notin InFlight \/ crashes > 0)

Where(s) ==
  IF s > made THEN "new"
  ELSE IF row[s] = None THEN "gone"
  ELSE CASE row[s].status = "PENDING" -> "waiting"
         [] row[s].status = "PROCESSING" -> "taken"
         [] row[s].status = "MOCK_SENT" -> "sent"
         [] row[s].status = "SKIPPED" -> "skipped"
         [] OTHER -> "failed"

Queue == INSTANCE SubmissionQueue WITH Jobs <- Subs, job <- [s \in Subs |-> Where(s)], delivered <- accepted

\* The pipeline is a submission queue, through crashes and recoveries, as long
\* as no transmission outlasts the threshold of the recovery: what is settled
\* stays settled, and only what is taken is delivered.
QueueSpec == Queue!Spec

-----------------------------------------------------------------------------
(***************************************************************************)
(* The inductive invariant.                                                *)
(***************************************************************************)

\* What a process is at determines which of its fields are filled.
Shaped(t) ==
  LET p == proc[t] IN
  /\ p.at \in Asking => t \in Senders /\ p.res \in Reservations
  /\ p.at \in Holding \cup {"fetch", "claim"} => p.sub \in 1..made

\* What it has read, and what it will write, is earned.
Earned(t) ==
  LET p == proc[t] IN
  /\ p.at \in Holding \cup {"claim"} => p.attempts <= tries[p.sub]
  /\ p.at = "write" /\ p.outcome = "sent" => p.sub \in accepted

\* Only PROCESSING rows age, and only ids given out have rows.
QueueSound ==
  /\ \A s \in Subs : s > made => row[s] = None
  /\ \A s \in stale : Is(s, "PROCESSING")
  /\ \A s \in Subs : row[s] # None => row[s].attempts <= tries[s]
  /\ accepted \subseteq 1..made

\* A claim is exclusive: the row of a prompt transmission stays as it left it.
ClaimsHold ==
  /\ \A t \in Transmitters, s \in Subs : Holds(t, s) => (row[s] = None \/ Is(s, "PROCESSING")) /\ s \notin stale
  /\ \A t, u \in Transmitters, s \in Subs : Holds(t, s) /\ Holds(u, s) => t = u \/ row[s] = None

CargosInv ==
  /\ TypeOK /\ QueueSound /\ SentIsAccepted /\ NoEarlyFailure
  /\ \A t \in Transmitters : Shaped(t) /\ Earned(t)
  /\ Prompt => ClaimsHold
=============================================================================
