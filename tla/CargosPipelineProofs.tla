------------------------- MODULE CargosPipelineProofs -------------------------
(***************************************************************************)
(* Proofs about CargosPipeline: the inductive invariant, and, when no      *)
(* transmission outlasts the recovery's threshold, the refinement of       *)
(* SubmissionQueue.                                                        *)
(***************************************************************************)
EXTENDS CargosPipeline, TLAPS

LEMMA IdleSound == Idle \in Process
BY DEF Idle, Process

LEMMA InitInv == Init => CargosInv
<1>. SUFFICES ASSUME Init PROVE CargosInv
  OBVIOUS
<1>1. TypeOK
  BY IdleSound, CargosAssumption DEF Init, TypeOK
<1>2. \A t \in Transmitters : Shaped(t) /\ Earned(t)
  BY DEF Init, Shaped, Earned, Idle, Asking, Holding
<1>3. ClaimsHold
  BY DEF Init, ClaimsHold, Holds, Idle, Holding
<1>4. QueueSound /\ SentIsAccepted /\ NoEarlyFailure
  BY DEF Init, QueueSound, SentIsAccepted, NoEarlyFailure, Is
<1>. QED BY <1>1, <1>2, <1>3, <1>4 DEF CargosInv

\* A step that moves one process and leaves the queue alone.
LEMMA ProcInv ==
  ASSUME CargosInv, NEW t \in Transmitters, NEW n \in Process, Go(t, n),
         UNCHANGED <<row, made, stale, tries>>,
         accepted \subseteq accepted', accepted' \subseteq 1..made,
         company' \in Adapters, resv' = resv, up' \in SUBSET Workers,
         calls' \in 0..MaxCalls, crashes' \in 0..MaxCrashes,
         n.at \in Asking => t \in Senders /\ n.res \in Reservations,
         n.at \in Holding \cup {"fetch", "claim"} => n.sub \in 1..made,
         n.at \in Holding \cup {"claim"} => n.attempts <= tries[n.sub],
         n.at = "write" /\ n.outcome = "sent" => n.sub \in accepted',
         n.at \in Holding => proc[t].at \in Holding /\ proc[t].sub = n.sub
  PROVE  CargosInv'
<1>1. proc' = [proc EXCEPT ![t] = n] /\ proc' \in [Transmitters -> Process] /\ proc'[t] = n
      /\ \A u \in Transmitters : u # t => proc'[u] = proc[u]
  BY DEF CargosInv, TypeOK, Go
<1>2. TypeOK'
  <2>1. 1..made \subseteq Subs
    BY CargosAssumption DEF CargosInv, TypeOK, Subs
  <2>. QED BY <1>1, <2>1 DEF CargosInv, TypeOK
<1>3. (\A u \in Transmitters : Shaped(u) /\ Earned(u))'
  <2>. SUFFICES ASSUME NEW u \in Transmitters PROVE Shaped(u)' /\ Earned(u)'
    OBVIOUS
  <2>1. CASE u = t
    BY <1>1, <2>1 DEF Shaped, Earned
  <2>2. CASE u # t
    BY <1>1, <2>2 DEF CargosInv, Shaped, Earned
  <2>. QED BY <2>1, <2>2
<1>4. (QueueSound /\ SentIsAccepted /\ NoEarlyFailure)'
  BY DEF CargosInv, QueueSound, SentIsAccepted, NoEarlyFailure, Is
<1>5. (Prompt => ClaimsHold)'
  <2>1. \A u \in Transmitters, s \in Subs : Holds(u, s)' => Holds(u, s)
    BY <1>1 DEF Holds
  <2>. QED BY <2>1 DEF CargosInv, ClaimsHold, Is
<1>. QED BY <1>2, <1>3, <1>4, <1>5 DEF CargosInv

\* The rows that a process may be working on are rows.
LEMMA RowFields ==
  ASSUME CargosInv, NEW s \in Subs, row[s] # None
  PROVE  /\ row[s] \in Row /\ row[s].attempts \in Nat /\ row[s].attempts <= tries[s]
         /\ s \in 1..made
BY CargosAssumption DEF CargosInv, TypeOK, QueueSound, Row, Subs

LEMMA MadeInSubs == ASSUME CargosInv PROVE 1..made \subseteq Subs
BY CargosAssumption DEF CargosInv, TypeOK, Subs

LEMMA AskInv == ASSUME CargosInv, NEW t \in Senders, Ask(t) PROVE CargosInv'
<1>1. PICK r \in Reservations, now \in BOOLEAN : Go(t, [Idle EXCEPT !.at = "policy", !.res = r, !.now = now])
  BY DEF Ask
<1>. PICK n : n = [Idle EXCEPT !.at = "policy", !.res = r, !.now = now]
  OBVIOUS
<1>2. n \in Process /\ n.at = "policy" /\ n.res = r
  BY IdleSound DEF Idle, Process, Asking
<1>3. t \in Transmitters /\ calls' \in 0..MaxCalls
  BY CargosAssumption DEF Ask, Transmitters, CargosInv, TypeOK
<1>4. UNCHANGED <<row, made, stale, company, resv, up, accepted, tries, crashes>>
  BY DEF Ask, queue, outside
<1>. QED BY <1>1, <1>2, <1>3, <1>4, ProcInv DEF CargosInv, TypeOK, QueueSound, Holding, Asking

\* A process whose only effect is to end.
LEMMA FinishInv ==
  ASSUME CargosInv, NEW t \in Transmitters, Finish(t), UNCHANGED <<company, resv, queue, outside, calls>>,
         up' \in SUBSET Workers, crashes' \in 0..MaxCrashes
  PROVE  CargosInv'
<1>1. Idle.at = "idle"
  BY DEF Idle
<1>. QED BY <1>1, IdleSound, ProcInv DEF Finish, queue, outside, Asking, Holding, CargosInv, TypeOK, QueueSound

LEMMA ReadPolicyInv == ASSUME CargosInv, NEW t \in Senders, ReadPolicy(t) PROVE CargosInv'
<1>. DEFINE p == proc[t]
<1>1. t \in Transmitters /\ p \in Process /\ p.at = "policy" /\ Shaped(t)
  BY DEF ReadPolicy, Transmitters, CargosInv, TypeOK
<1>2. UNCHANGED <<row, made, stale, company, resv, up, accepted, tries, calls, crashes>>
  BY DEF ReadPolicy, queue, outside, world
<1>3. PICK n : n \in {Idle, [p EXCEPT !.at = "skip"], [p EXCEPT !.at = "look"]} /\ Go(t, n)
  <2>1. CASE company = "OFF"
    BY <2>1 DEF ReadPolicy
  <2>2. CASE company = "NOURL"
    BY <2>2 DEF ReadPolicy
  <2>3. CASE company \notin {"OFF", "NOURL"}
    BY <2>3 DEF ReadPolicy
  <2>. QED BY <2>1, <2>2, <2>3
<1>4. n \in Process /\ n.at \in {"idle", "skip", "look"} /\ (n.at # "idle" => n.res = p.res)
  <2>1. CASE n = Idle
    BY <2>1, IdleSound DEF Idle
  <2>2. ASSUME NEW at \in {"skip", "look"}, n = [p EXCEPT !.at = at]
        PROVE  n \in Process /\ n.at \in {"idle", "skip", "look"} /\ n.res = p.res
    BY <1>1, <2>2 DEF Process, Asking
  <2>. QED BY <1>3, <2>1, <2>2
<1>. QED BY <1>1, <1>2, <1>3, <1>4, ProcInv DEF CargosInv, TypeOK, QueueSound, Holding, Asking, Shaped

LEMMA LookInv == ASSUME CargosInv, NEW t \in Senders, LookForInFlight(t) PROVE CargosInv'
<1>. DEFINE p == proc[t]
<1>1. t \in Transmitters /\ p \in Process /\ p.at = "look" /\ Shaped(t)
  BY DEF LookForInFlight, Transmitters, CargosInv, TypeOK
<1>2. UNCHANGED <<row, made, stale, company, resv, up, accepted, tries, calls, crashes>>
  BY DEF LookForInFlight, queue, outside, world
<1>3. PICK n : /\ Go(t, n)
               /\ \/ n \in {Idle, [p EXCEPT !.at = "create"]}
                  \/ \E s \in Subs : row[s] # None /\ n = [p EXCEPT !.at = "fetch", !.sub = s]
  <2>1. CASE \E at \in {"create", "idle"} : Go(t, IF at = "idle" THEN Idle ELSE [p EXCEPT !.at = at])
    BY <2>1
  <2>2. CASE \E s \in Subs : /\ row[s] # None
                            /\ Go(t, IF p.now /\ Is(s, "PENDING") THEN [p EXCEPT !.at = "fetch", !.sub = s] ELSE Idle)
    BY <2>2
  <2>. QED BY <2>1, <2>2 DEF LookForInFlight
<1>4. /\ n \in Process /\ n.at \in {"idle", "create", "fetch"}
      /\ n.at = "create" => n.res = p.res
      /\ n.at = "fetch" => n.sub \in 1..made
  <2>1. CASE n = Idle
    BY <2>1, IdleSound DEF Idle
  <2>3. CASE n = [p EXCEPT !.at = "create"]
    BY <1>1, <2>3 DEF Process, Asking
  <2>2. CASE \E s \in Subs : row[s] # None /\ n = [p EXCEPT !.at = "fetch", !.sub = s]
    BY <1>1, <2>2, RowFields DEF Process
  <2>. QED BY <1>3, <2>1, <2>2, <2>3
<1>. QED BY <1>1, <1>2, <1>3, <1>4, ProcInv DEF CargosInv, TypeOK, QueueSound, Holding, Asking, Shaped

\* A read before a claim.
LEMMA TakeInv ==
  ASSUME CargosInv, NEW t \in Transmitters, NEW s \in Subs, row[s] # None, Take(t, s),
         UNCHANGED <<world, queue, outside>>
  PROVE  CargosInv'
<1>. PICK n : n = [proc[t] EXCEPT !.at = "claim", !.sub = s, !.attempts = row[s].attempts]
  OBVIOUS
<1>1. n \in Process /\ n.at = "claim" /\ n.sub = s /\ n.attempts = row[s].attempts
  BY RowFields DEF CargosInv, TypeOK, Process
<1>2. UNCHANGED <<row, made, stale, company, resv, up, accepted, tries, calls, crashes>> /\ Go(t, n)
  BY DEF queue, outside, world, Take
<1>. QED BY <1>1, <1>2, RowFields, ProcInv DEF CargosInv, TypeOK, QueueSound, Holding, Asking

LEMMA FetchInv == ASSUME CargosInv, NEW t \in Senders, Fetch(t) PROVE CargosInv'
<1>1. t \in Transmitters /\ proc[t].sub \in Subs
  BY MadeInSubs DEF Fetch, Transmitters, CargosInv, Shaped
<1>2. CASE row[proc[t].sub] = None
  BY <1>1, <1>2, FinishInv DEF Fetch, world, CargosInv, TypeOK
<1>3. CASE row[proc[t].sub] # None
  BY <1>1, <1>3, TakeInv DEF Fetch
<1>. QED BY <1>2, <1>3

LEMMA PollInv == ASSUME CargosInv, NEW w \in Workers, Poll(w) PROVE CargosInv'
BY TakeInv DEF Poll, Transmitters, Is

\* A transmission on its way to its outcome.
LEMMA CarryInv ==
  ASSUME CargosInv, NEW t \in Transmitters, proc[t].at \in Holding,
         NEW at \in {"send", "write"}, NEW outcome \in {"sent", "skipped", "failed"},
         Go(t, [proc[t] EXCEPT !.at = at, !.outcome = outcome]),
         accepted' = accepted \/ accepted' = accepted \cup {proc[t].sub},
         at = "write" /\ outcome = "sent" => proc[t].sub \in accepted',
         UNCHANGED <<row, made, stale, company, resv, up, tries, calls>>, crashes' \in 0..MaxCrashes
  PROVE  CargosInv'
<1>. PICK n : n = [proc[t] EXCEPT !.at = at, !.outcome = outcome]
  OBVIOUS
<1>1. /\ n \in Process /\ n.at = at /\ n.outcome = outcome
      /\ n.sub = proc[t].sub /\ n.attempts = proc[t].attempts
  BY DEF CargosInv, TypeOK, Process, Holding
<1>2. proc[t].sub \in 1..made /\ proc[t].attempts <= tries[proc[t].sub]
  BY DEF CargosInv, Shaped, Earned
<1>. QED BY <1>1, <1>2, ProcInv DEF CargosInv, TypeOK, QueueSound, Holding, Asking

LEMMA ReadCompanyInv == ASSUME CargosInv, NEW t \in Transmitters, ReadCompany(t) PROVE CargosInv'
<1>1. proc[t] \in Process /\ proc[t].at = "company" /\ proc[t].at \in Holding
  BY DEF ReadCompany, CargosInv, TypeOK, Holding
<1>2. UNCHANGED <<row, made, stale, company, resv, up, tries, calls, crashes>> /\ crashes' \in 0..MaxCrashes
  BY DEF ReadCompany, queue, world, CargosInv, TypeOK
<1>3. CASE \E outcome \in {"skipped", "failed"} : Ends(t, outcome) /\ UNCHANGED accepted
  BY <1>1, <1>2, <1>3, CarryInv DEF Ends
<1>4. CASE Ends(t, "sent") /\ accepted' = accepted \cup {proc[t].sub}
  BY <1>1, <1>2, <1>4, CarryInv DEF Ends
<1>5. CASE Go(t, [proc[t] EXCEPT !.at = "send"]) /\ UNCHANGED accepted
  <2>1. Go(t, [proc[t] EXCEPT !.at = "send", !.outcome = proc[t].outcome])
    BY <1>1, <1>5 DEF Process
  <2>. QED BY <1>1, <1>2, <1>5, <2>1, CarryInv DEF Process
<1>. QED BY <1>3, <1>4, <1>5 DEF ReadCompany

LEMMA SendInv == ASSUME CargosInv, NEW t \in Transmitters, Send(t) PROVE CargosInv'
<1>1. proc[t].at \in Holding
  BY DEF Send, Holding
<1>2. UNCHANGED <<row, made, stale, company, resv, up, tries, calls, crashes>> /\ crashes' \in 0..MaxCrashes
  BY DEF Send, queue, world, CargosInv, TypeOK
<1>3. PICK outcome \in {"sent", "failed"} :
        /\ Ends(t, outcome) /\ (accepted' = accepted \/ accepted' = accepted \cup {proc[t].sub})
        /\ outcome = "sent" => proc[t].sub \in accepted'
  BY DEF Send
<1>. QED BY <1>1, <1>2, <1>3, CarryInv DEF Ends

LEMMA WriteFailsInv == ASSUME CargosInv, NEW t \in Transmitters, WriteFails(t) PROVE CargosInv'
<1>1. proc[t] \in Process /\ proc[t].at = "write" /\ proc[t].at \in Holding
  BY DEF WriteFails, Holding, CargosInv, TypeOK
<1>2. /\ UNCHANGED <<row, made, stale, company, resv, up, accepted, tries, calls>>
      /\ crashes' \in 0..MaxCrashes
  BY CargosAssumption DEF WriteFails, queue, outside, CargosInv, TypeOK
<1>3. Go(t, [proc[t] EXCEPT !.at = "write", !.outcome = "failed"])
  BY <1>1 DEF WriteFails, Process
<1>. QED BY <1>1, <1>2, <1>3, CarryInv

LEMMA WriteNothingInv == ASSUME CargosInv, NEW t \in Transmitters, WriteNothing(t) PROVE CargosInv'
BY FinishInv DEF WriteNothing, CargosInv, TypeOK

LEMMA CrashInv == ASSUME CargosInv, NEW t \in Transmitters, Crash(t) PROVE CargosInv'
BY FinishInv, CargosAssumption DEF Crash, CargosInv, TypeOK

\* A step that moves one process and writes one row.
LEMMA RowInv ==
  ASSUME CargosInv, NEW t \in Transmitters, NEW n \in Process, Go(t, n),
         NEW s \in Subs, NEW new \in Row, row' = [row EXCEPT ![s] = new], stale' = stale \ {s},
         made' \in 0..MaxSubs, made <= made', s <= made',
         tries' \in [Subs -> Nat], \A u \in Subs : tries[u] <= tries'[u],
         UNCHANGED <<company, resv, up, accepted, calls, crashes>>,
         new.attempts <= tries'[s],
         new.status = "MOCK_SENT" => s \in accepted,
         new.status = "FAILED" => tries'[s] >= MaxAttempts,
         n.at \notin Asking,
         n.at \in Holding \cup {"fetch", "claim"} => n.sub = s,
         n.at \in Holding \cup {"claim"} => n.attempts <= tries[s],
         n.at \in Holding => n.at = "company" /\ new.status = "PROCESSING",
         Prompt => \A u \in Transmitters : u # t => ~Holds(u, s)
  PROVE  CargosInv'
<1>1. proc' = [proc EXCEPT ![t] = n] /\ proc' \in [Transmitters -> Process] /\ proc'[t] = n
      /\ \A u \in Transmitters : u # t => proc'[u] = proc[u]
  BY DEF CargosInv, TypeOK, Go
<1>2. /\ row' \in [Subs -> Row \cup {None}] /\ row'[s] = new /\ new # None
      /\ \A u \in Subs : u # s => row'[u] = row[u]
  BY RowAssumption DEF CargosInv, TypeOK
<1>3. TypeOK'
  BY <1>1, <1>2 DEF CargosInv, TypeOK
<1>4. (\A u \in Transmitters : Shaped(u) /\ Earned(u))'
  <2>. SUFFICES ASSUME NEW u \in Transmitters PROVE Shaped(u)' /\ Earned(u)'
    OBVIOUS
  <2>1. CASE u = t
    <3>1. Shaped(u)'
      BY <1>1, <2>1 DEF Shaped, Subs
    <3>2. n.attempts \in Nat /\ tries[s] \in Nat /\ tries'[s] \in Nat /\ tries[s] <= tries'[s]
      BY DEF Process, CargosInv, TypeOK
    <3>3. n.at \in Holding \cup {"claim"} => n.attempts <= tries'[n.sub]
      BY <3>2
    <3>4. Earned(u)'
      BY <1>1, <2>1, <3>3 DEF Earned, Holding
    <3>. QED BY <3>1, <3>4
  <2>2. CASE u # t
    <3>1. Shaped(u)'
      BY <1>1, <2>2, CargosAssumption DEF CargosInv, TypeOK, Shaped
    <3>2. proc[u] \in Process /\ Earned(u) /\ (proc[u].at \in Holding \cup {"claim"} => proc[u].sub \in Subs)
      BY MadeInSubs DEF CargosInv, TypeOK, Shaped
    <3>3. /\ proc[u].attempts \in Nat
          /\ \A v \in Subs : tries[v] \in Nat /\ tries'[v] \in Nat /\ tries[v] <= tries'[v]
      BY <3>2 DEF Process, CargosInv, TypeOK
    <3>4. proc[u].at \in Holding \cup {"claim"} => proc[u].attempts <= tries'[proc[u].sub]
      BY <3>2, <3>3 DEF Earned
    <3>5. Earned(u)'
      BY <1>1, <2>2, <3>2, <3>4 DEF Earned
    <3>. QED BY <3>1, <3>5
  <2>. QED BY <2>1, <2>2
<1>5. QueueSound'
  BY <1>2, <1>3, CargosAssumption DEF CargosInv, TypeOK, QueueSound, Is, Row, Subs
<1>6. (SentIsAccepted /\ NoEarlyFailure)'
  BY <1>2, CargosAssumption DEF CargosInv, TypeOK, SentIsAccepted, NoEarlyFailure, Is
<1>7. (Prompt => ClaimsHold)'
  <2>. SUFFICES ASSUME Prompt PROVE ClaimsHold'
    OBVIOUS
  <2>1. ASSUME NEW u \in Transmitters, NEW v \in Subs, Holds(u, v)'
        PROVE  (u = t /\ v = s /\ new.status = "PROCESSING") \/ (u # t /\ v # s /\ Holds(u, v))
    BY <1>1, <2>1 DEF Holds
  <2>. QED BY <1>2, <2>1 DEF CargosInv, ClaimsHold, Is
<1>. QED BY <1>3, <1>4, <1>5, <1>6, <1>7 DEF CargosInv

LEMMA CreateInv == ASSUME CargosInv, NEW t \in Senders, Create(t) PROVE CargosInv'
<1>. PICK p : p = proc[t]
  OBVIOUS
<1>1. t \in Transmitters /\ p \in Process /\ p.at \in {"skip", "create"} /\ p.res \in Reservations
  BY DEF Create, Transmitters, CargosInv, TypeOK, Shaped, Asking
<1>2. CASE resv[p.res] = "gone"
  BY <1>1, <1>2, FinishInv DEF Create, world, queue, CargosInv, TypeOK
<1>3. CASE resv[p.res] # "gone"
  <2>. PICK s, status : s = made + 1 /\ status = IF p.at = "skip" THEN "SKIPPED" ELSE "PENDING"
    OBVIOUS
  <2>. PICK new, n : /\ new = [res |-> p.res, status |-> status, attempts |-> 0]
                     /\ n = IF p.now /\ status = "PENDING" THEN [p EXCEPT !.at = "fetch", !.sub = s] ELSE Idle
    OBVIOUS
  <2>1. /\ made < MaxSubs /\ made' = s /\ row' = [row EXCEPT ![s] = new] /\ Go(t, n)
        /\ UNCHANGED <<company, resv, up, calls, crashes, stale, accepted, tries>>
    BY <1>3 DEF Create, world, outside
  <2>2. s \in Subs /\ made <= s /\ s \in 0..MaxSubs /\ s \notin 1..made /\ row[s] = None
    BY <2>1, CargosAssumption DEF CargosInv, TypeOK, QueueSound, Subs
  <2>3. new \in Row /\ new.attempts = 0 /\ new.status \in {"SKIPPED", "PENDING"}
    BY <1>1 DEF Row, Statuses
  <2>4. n \in Process /\ n.at \in {"idle", "fetch"} /\ (n.at = "fetch" => n.sub = s)
    <3>1. CASE p.now /\ status = "PENDING"
      BY <1>1, <2>2, <3>1 DEF Process
    <3>2. CASE ~(p.now /\ status = "PENDING")
      BY <3>2, IdleSound DEF Idle
    <3>. QED BY <3>1, <3>2
  <2>5. \A u \in Transmitters : ~Holds(u, s)
    BY <2>2 DEF CargosInv, Shaped, Holds
  <2>6. s \notin stale /\ tries[s] \in Nat
    BY <2>2 DEF CargosInv, TypeOK, QueueSound, Is
  <2>7. \A u \in Subs : tries[u] <= tries'[u]
    BY <2>1 DEF CargosInv, TypeOK
  <2>8. /\ n.at \notin Asking /\ n.at \notin Holding \cup {"claim"}
        /\ n.at \in Holding \cup {"fetch", "claim"} => n.sub = s
    BY <2>4 DEF Asking, Holding
  <2>9. /\ stale' = stale \ {s} /\ tries' \in [Subs -> Nat] /\ made' \in 0..MaxSubs /\ made <= made' /\ s <= made'
        /\ new.attempts <= tries'[s]
    BY <2>1, <2>2, <2>3, <2>6 DEF CargosInv, TypeOK, Subs
  <2>. QED BY <1>1, <2>1, <2>2, <2>3, <2>4, <2>5, <2>7, <2>8, <2>9, RowInv
<1>. QED BY <1>2, <1>3

LEMMA ClaimInv == ASSUME CargosInv, NEW t \in Transmitters, Claim(t) PROVE CargosInv'
<1>. PICK s, new, n : /\ s = proc[t].sub /\ new = [row[s] EXCEPT !.status = "PROCESSING"]
                      /\ n = [proc[t] EXCEPT !.at = "company"]
  OBVIOUS
<1>1. /\ proc[t] \in Process /\ proc[t].at = "claim" /\ s \in 1..made /\ s \in Subs /\ made \in 0..MaxSubs
      /\ proc[t].attempts <= tries[s]
  BY MadeInSubs DEF Claim, CargosInv, TypeOK, Shaped, Earned
<1>2. UNCHANGED <<made, stale, company, resv, up, accepted, tries, calls, crashes>>
  BY DEF Claim, world, outside
<1>3. CASE ~Is(s, "PENDING")
  BY <1>2, <1>3, FinishInv DEF Claim, queue, outside, CargosInv, TypeOK
<1>4. CASE Is(s, "PENDING")
  <2>1. row' = [row EXCEPT ![s] = new] /\ Go(t, n)
    BY <1>4 DEF Claim
  <2>2. row[s] \in Row /\ row[s].status = "PENDING" /\ row[s].attempts <= tries[s]
    BY <1>1, <1>4, RowFields DEF Is
  <2>3. new \in Row /\ new.status = "PROCESSING" /\ new.attempts = row[s].attempts
    BY <2>2 DEF Row, Statuses
  <2>4. n \in Process /\ n.at = "company" /\ n.sub = s /\ n.attempts = proc[t].attempts
    BY <1>1 DEF Process, Holding
  <2>5. s \notin stale
    BY <2>2 DEF CargosInv, QueueSound, Is
  <2>6. Prompt => \A u \in Transmitters : ~Holds(u, s)
    BY <1>1, <1>4, <2>2 DEF CargosInv, ClaimsHold, Is
  <2>7. /\ \A u \in Subs : tries[u] <= tries'[u]
        /\ tries' \in [Subs -> Nat] /\ made' \in 0..MaxSubs /\ made <= made' /\ s <= made' /\ stale' = stale \ {s}
    BY <1>1, <1>2, <2>5 DEF CargosInv, TypeOK
  <2>. QED BY <1>1, <1>2, <2>1, <2>2, <2>3, <2>4, <2>6, <2>7, RowInv DEF Holding, Asking
<1>. QED BY <1>3, <1>4

LEMMA WriteInv == ASSUME CargosInv, NEW t \in Transmitters, Write(t) PROVE CargosInv'
<1>. PICK p, s : p = proc[t] /\ s = proc[t].sub
  OBVIOUS
<1>. PICK new : new = Written(p, row[s])
  OBVIOUS
<1>1. /\ p \in Process /\ p.at = "write" /\ s \in 1..made /\ s \in Subs /\ made \in 0..MaxSubs
      /\ p.attempts \in Nat /\ p.attempts <= tries[s] /\ (p.outcome = "sent" => s \in accepted)
      /\ row[s] # None
  BY MadeInSubs DEF Write, CargosInv, TypeOK, Shaped, Earned, Holding, Process
<1>2. /\ row' = [row EXCEPT ![s] = new] /\ stale' = stale \ {s} /\ Go(t, Idle)
      /\ tries' = IF p.outcome = "failed" THEN [tries EXCEPT ![s] = @ + 1] ELSE tries
      /\ UNCHANGED <<made, company, resv, up, accepted, calls, crashes>>
  BY <1>1 DEF Write, world, Finish, CargosInv, TypeOK
<1>3. row[s] \in Row /\ row[s].attempts \in Nat /\ row[s].attempts <= tries[s]
  BY <1>1, RowFields
<1>4. tries' \in [Subs -> Nat] /\ \A u \in Subs : tries[u] <= tries'[u]
  BY <1>1, <1>2 DEF CargosInv, TypeOK
<1>5. /\ new \in Row /\ new.attempts <= tries'[s]
      /\ new.status = "MOCK_SENT" => s \in accepted
      /\ new.status = "FAILED" => tries'[s] >= MaxAttempts
  <2>1. CASE p.outcome = "sent"
    <3>1. new = [row[s] EXCEPT !.status = "MOCK_SENT"] /\ tries' = tries
      BY <1>2, <2>1 DEF Written
    <3>. QED BY <1>1, <1>3, <2>1, <3>1 DEF Row, Statuses
  <2>2. CASE p.outcome = "skipped"
    <3>1. new = [row[s] EXCEPT !.status = "SKIPPED"] /\ tries' = tries
      BY <1>2, <2>2 DEF Written
    <3>. QED BY <1>1, <1>3, <2>2, <3>1 DEF Row, Statuses
  <2>3. CASE p.outcome = "failed"
    <3>1. /\ new = [row[s] EXCEPT !.status = IF Exhausted(p.attempts) THEN "FAILED" ELSE "PENDING",
                                  !.attempts = p.attempts + 1]
          /\ tries'[s] = tries[s] + 1
      BY <1>1, <1>2, <2>3 DEF Written, CargosInv, TypeOK
    <3>2. new \in Row /\ new.attempts = p.attempts + 1 /\ new.status \in {"FAILED", "PENDING"}
          /\ (new.status = "FAILED" => Exhausted(p.attempts))
      <4>. PICK k, status : k = p.attempts + 1 /\ status = IF Exhausted(p.attempts) THEN "FAILED" ELSE "PENDING"
        OBVIOUS
      <4>1. k \in Nat /\ status \in {"FAILED", "PENDING"} /\ (status = "FAILED" => Exhausted(p.attempts))
        BY <1>1
      <4>2. new = [row[s] EXCEPT !.status = status, !.attempts = k]
        BY <3>1
      <4>3. new \in Row /\ new.attempts = k /\ new.status = status
        BY <1>3, <4>1, <4>2 DEF Row, Statuses
      <4>. QED BY <4>1, <4>3
    <3>3. tries[s] \in Nat
      BY <1>1 DEF CargosInv, TypeOK
    <3>. QED BY <1>1, <3>1, <3>2, <3>3, CargosAssumption DEF Exhausted
  <2>. QED BY <1>1, <2>1, <2>2, <2>3 DEF Process
<1>6. Prompt => \A u \in Transmitters : u # t => ~Holds(u, s)
  BY <1>1 DEF CargosInv, ClaimsHold, Holds, Holding
<1>7. made' \in 0..MaxSubs /\ made <= made' /\ s <= made' /\ Idle.at = "idle"
  BY <1>1, <1>2 DEF Idle
<1>. QED BY <1>1, <1>2, <1>4, <1>5, <1>6, <1>7, IdleSound, RowInv DEF Holding, Asking

LEMMA TransmitInv == ASSUME CargosInv, NEW t \in Transmitters, Transmit(t) PROVE CargosInv'
BY ClaimInv, ReadCompanyInv, SendInv, WriteInv, WriteNothingInv DEF Transmit

LEMMA SettingsInv ==
  ASSUME CargosInv, SetCompany \/ (\E r \in Reservations : SetStatus(r)) \/ UNCHANGED vars PROVE CargosInv'
<1>1. /\ UNCHANGED <<row, made, stale, up, proc, accepted, tries, calls, crashes>> /\ company' \in Adapters
      /\ resv' \in [Reservations -> {"live", "cancelled", "gone"}]
  BY DEF SetCompany, SetStatus, vars, queue, outside, CargosInv, TypeOK
<1>. QED BY <1>1 DEF CargosInv, TypeOK, QueueSound, SentIsAccepted, NoEarlyFailure, ClaimsHold, Holds, Is,
                     Shaped, Earned

\* A step that leaves the processes alone, and takes rows away or gives them back.
LEMMA QueueInv ==
  ASSUME CargosInv, row' \in [Subs -> Row \cup {None}], stale' \in SUBSET Subs,
         UNCHANGED <<company, made, proc, accepted, tries, calls, crashes>>,
         resv' \in [Reservations -> {"live", "cancelled", "gone"}], up' \in SUBSET Workers,
         \A s \in Subs : \/ row'[s] \in {row[s], None}
                         \/ Is(s, "PROCESSING") /\ s \in stale /\ row'[s] = [row[s] EXCEPT !.status = "PENDING"],
         \A s \in stale' : Is(s, "PROCESSING") /\ row'[s] = row[s],
         Prompt => \A t \in Transmitters, s \in Subs : Holds(t, s) => s \notin stale'
  PROVE  CargosInv'
<1>1. TypeOK'
  BY DEF CargosInv, TypeOK
<1>2. (\A t \in Transmitters : Shaped(t) /\ Earned(t))'
  BY DEF CargosInv, Shaped, Earned
<1>3. \A s \in Subs : row'[s] # None =>
         /\ row[s] # None /\ row'[s].attempts = row[s].attempts
         /\ row'[s].status \in {row[s].status, "PENDING"}
  BY DEF Is, CargosInv, TypeOK, Row
<1>4. (QueueSound /\ SentIsAccepted /\ NoEarlyFailure)'
  BY <1>3 DEF CargosInv, QueueSound, SentIsAccepted, NoEarlyFailure, Is
<1>5. (Prompt => ClaimsHold)'
  <2>. SUFFICES ASSUME Prompt PROVE ClaimsHold'
    OBVIOUS
  <2>1. \A t \in Transmitters, s \in Subs : Holds(t, s)' <=> Holds(t, s)
    BY DEF Holds
  <2>2. \A t \in Transmitters, s \in Subs : Holds(t, s) => row'[s] \in {row[s], None}
    BY DEF CargosInv, ClaimsHold
  <2>. QED BY <1>3, <2>1, <2>2 DEF CargosInv, ClaimsHold, Is
<1>. QED BY <1>1, <1>2, <1>4, <1>5 DEF CargosInv

LEMMA DeleteInv == ASSUME CargosInv, NEW r \in Reservations, Delete(r) PROVE CargosInv'
<1>. PICK lost : lost = {s \in Subs : row[s] # None /\ row[s].res = r}
  OBVIOUS
<1>1. /\ row' = [s \in Subs |-> IF s \in lost THEN None ELSE row[s]] /\ stale' = stale \ lost
      /\ UNCHANGED <<company, made, up, proc, accepted, tries, calls, crashes>>
      /\ resv' \in [Reservations -> {"live", "cancelled", "gone"}]
  BY DEF Delete, outside, CargosInv, TypeOK
<1>2. row' \in [Subs -> Row \cup {None}] /\ stale' \in SUBSET Subs /\ up' \in SUBSET Workers
  BY <1>1 DEF CargosInv, TypeOK
<1>3. /\ \A s \in Subs : row'[s] \in {row[s], None}
      /\ \A s \in stale' : Is(s, "PROCESSING") /\ row'[s] = row[s]
  BY <1>1 DEF CargosInv, TypeOK, QueueSound
<1>4. Prompt => \A t \in Transmitters, s \in Subs : Holds(t, s) => s \notin stale'
  BY <1>1 DEF CargosInv, ClaimsHold
<1>. QED BY <1>1, <1>2, <1>3, <1>4, QueueInv

LEMMA AgeInv == ASSUME CargosInv, NEW s \in Subs, Age(s) PROVE CargosInv'
<1>1. /\ stale' = stale \cup {s} /\ Is(s, "PROCESSING") /\ (Prompt => \A t \in Transmitters : ~Holds(t, s))
      /\ UNCHANGED <<company, resv, row, made, up, proc, accepted, tries, calls, crashes>>
  BY DEF Age, world, outside
<1>2. \A u \in stale' : Is(u, "PROCESSING") /\ row'[u] = row[u]
  BY <1>1 DEF CargosInv, QueueSound
<1>3. Prompt => \A t \in Transmitters, u \in Subs : Holds(t, u) => u \notin stale'
  BY <1>1 DEF CargosInv, ClaimsHold
<1>4. \A u \in Subs : row'[u] \in {row[u], None}
  BY <1>1
<1>. QED BY <1>1, <1>2, <1>3, <1>4, QueueInv DEF CargosInv, TypeOK

LEMMA RestartInv == ASSUME CargosInv, NEW w \in Workers, Restart(w) PROVE CargosInv'
<1>1. /\ row' = [s \in Subs |-> IF s \in stale THEN [row[s] EXCEPT !.status = "PENDING"] ELSE row[s]]
      /\ stale' = {} /\ up' = up \cup {w}
      /\ UNCHANGED <<company, resv, made, proc, accepted, tries, calls, crashes>>
  BY DEF Restart, outside
<1>2. \A s \in stale : Is(s, "PROCESSING") /\ row[s] \in Row /\ [row[s] EXCEPT !.status = "PENDING"] \in Row
  BY DEF CargosInv, TypeOK, QueueSound, Is, Row, Statuses
<1>3. row' \in [Subs -> Row \cup {None}] /\ stale' \in SUBSET Subs /\ up' \in SUBSET Workers
  BY <1>1, <1>2 DEF CargosInv, TypeOK
<1>4. \A s \in Subs : \/ row'[s] \in {row[s], None}
                      \/ Is(s, "PROCESSING") /\ s \in stale /\ row'[s] = [row[s] EXCEPT !.status = "PENDING"]
  BY <1>1, <1>2
<1>5. resv' \in [Reservations -> {"live", "cancelled", "gone"}]
  BY <1>1 DEF CargosInv, TypeOK
<1>. QED BY <1>1, <1>3, <1>4, <1>5, QueueInv

LEMMA NextInv == ASSUME CargosInv, [Next]_vars PROVE CargosInv'
<1>1. CASE SetCompany \/ UNCHANGED vars
  BY <1>1, SettingsInv
<1>2. ASSUME NEW r \in Reservations, SetStatus(r) \/ Delete(r) PROVE CargosInv'
  BY <1>2, SettingsInv, DeleteInv
<1>3. ASSUME NEW t \in Senders, Ask(t) \/ SenderStep(t) PROVE CargosInv'
  BY <1>3, AskInv, ReadPolicyInv, LookInv, CreateInv, FetchInv, TransmitInv DEF SenderStep, Transmitters
<1>4. ASSUME NEW w \in Workers, WorkerStep(w) \/ Restart(w) PROVE CargosInv'
  BY <1>4, PollInv, TransmitInv, RestartInv DEF WorkerStep, Transmitters
<1>5. ASSUME NEW t \in Transmitters, WriteFails(t) \/ Crash(t) PROVE CargosInv'
  BY <1>5, WriteFailsInv, CrashInv
<1>6. ASSUME NEW s \in Subs, Age(s) PROVE CargosInv'
  BY <1>6, AgeInv
<1>. QED BY <1>1, <1>2, <1>3, <1>4, <1>5, <1>6 DEF Next

\* enqueue, transmitPendingSubmission, processOne and resetStaleProcessing keep
\* the inductive invariant, for any number of workers, requests and rows.
THEOREM CargosInvariant == Spec => []CargosInv
<1>1. Init => CargosInv
  BY InitInv
<1>2. CargosInv /\ [Next]_vars => CargosInv'
  BY NextInv
<1>. QED BY <1>1, <1>2, PTL DEF Spec

\* processOne and transmitPendingSubmission write MOCK_SENT only after a 2xx,
\* whatever is reset under a slow transmitter.
THEOREM OutcomesAreEarned == Spec => []SentIsAccepted
<1>1. CargosInv => SentIsAccepted
  BY DEF CargosInv
<1>. QED BY <1>1, CargosInvariant, PTL

\* failOrRequeue writes FAILED only after CARGOS_MAX_ATTEMPTS failed tries, though
\* it counts from what was read before the claim.
THEOREM FailuresAreEarned == Spec => []NoEarlyFailure
<1>1. CargosInv => NoEarlyFailure
  BY DEF CargosInv
<1>. QED BY <1>1, CargosInvariant, PTL

-----------------------------------------------------------------------------
(***************************************************************************)
(* The refinement: every step maps to one of SubmissionQueue, or to none.  *)
(***************************************************************************)

Job == [s \in Subs |-> Where(s)]

\* The rows of J, and no others, have moved.
LEMMA Moved ==
  ASSUME NEW J \in SUBSET Subs, NEW from, NEW to,
         \A s \in J : Where(s) \in from /\ Where(s)' = to, \A s \in Subs \ J : Where(s)' = Where(s)
  PROVE  Queue!Moves(J, from, to)
BY DEF Queue!Moves, Where, Subs

LEMMA WhereSame ==
  ASSUME NEW s \in Subs, row'[s] = row[s], made' = made PROVE Where(s)' = Where(s)
BY DEF Where

LEMMA RowWhere ==
  ASSUME CargosInv, NEW s \in Subs
  PROVE  /\ Is(s, "PENDING") => Where(s) = "waiting"
         /\ Is(s, "PROCESSING") => Where(s) = "taken"
         /\ row[s] # None => Where(s) \in {"waiting", "taken", "sent", "skipped", "failed"}
         /\ s \in 1..made /\ row[s] = None => Where(s) = "gone"
         /\ s \notin 1..made => Where(s) = "new"
BY CargosAssumption DEF CargosInv, TypeOK, QueueSound, Where, Is, Row, Statuses, Subs

LEMMA InitQueue == Init => Queue!Init
BY CargosAssumption DEF Init, Queue!Init, Where, Subs

LEMMA StutterQueue ==
  ASSUME UNCHANGED <<row, made, accepted>> PROVE UNCHANGED <<Job, accepted>>
BY DEF Job, Where

\* Only a submission that is taken, or withdrawn since, is accepted.
LEMMA DeliverQueue ==
  ASSUME CargosInv, Prompt, NEW t \in Transmitters, proc[t].at \in Holding,
         accepted' = accepted \cup {proc[t].sub}, UNCHANGED <<row, made>>
  PROVE  Queue!Next
<1>. PICK s : s = proc[t].sub
  OBVIOUS
<1>1. s \in 1..made /\ s \in Subs /\ (row[s] = None \/ Is(s, "PROCESSING"))
  BY MadeInSubs DEF CargosInv, Shaped, ClaimsHold, Holds
<1>2. Where(s) \in {"taken", "gone"} /\ \A u \in Subs : Where(u)' = Where(u)
  BY <1>1, RowWhere, WhereSame
<1>3. Queue!Deliver(s)
  BY <1>1, <1>2 DEF Queue!Deliver
<1>. QED BY <1>1, <1>3 DEF Queue!Next

LEMMA CreateQueue == ASSUME CargosInv, CargosInv', NEW t \in Senders, Create(t) PROVE [Queue!Next]_<<Job, accepted>>
<1>. PICK s : s = made + 1
  OBVIOUS
<1>1. CASE UNCHANGED <<row, made>>
  BY <1>1, StutterQueue DEF Create, outside
<1>2. CASE \E status \in {"SKIPPED", "PENDING"} :
             /\ made < MaxSubs /\ made' = s /\ UNCHANGED accepted
             /\ row' = [row EXCEPT ![s] = [res |-> proc[t].res, status |-> status, attempts |-> 0]]
  <2>. PICK status \in {"SKIPPED", "PENDING"} :
         row' = [row EXCEPT ![s] = [res |-> proc[t].res, status |-> status, attempts |-> 0]]
    BY <1>2
  <2>. PICK new : new = [res |-> proc[t].res, status |-> status, attempts |-> 0]
    OBVIOUS
  <2>1. s \in Subs /\ s \notin 1..made /\ made' = s /\ row' = [row EXCEPT ![s] = new]
        /\ new # None /\ new.status = status
    <3>1. proc[t].res \in Reservations
      BY DEF Create, CargosInv, Shaped, Asking, Transmitters
    <3>2. new \in Row
      BY <3>1 DEF Row, Statuses
    <3>. QED BY <1>2, <3>2, RowAssumption, CargosAssumption DEF CargosInv, TypeOK, Subs
  <2>2. row'[s] = new /\ \A u \in Subs \ {s} : row'[u] = row[u]
    BY <2>1 DEF CargosInv, TypeOK
  <2>3. Where(s) = "new" /\ Where(s)' = IF status = "SKIPPED" THEN "skipped" ELSE "waiting"
    BY <2>1, <2>2, RowWhere, CargosAssumption DEF Where, CargosInv, TypeOK
  <2>4. \A u \in Subs \ {s} : Where(u)' = Where(u)
    BY <2>1, <2>2, CargosAssumption DEF Where, CargosInv, TypeOK, Subs
  <2>5. \E to \in {"waiting", "skipped"} : Queue!Moves({s}, {"new"}, to)
    BY <2>1, <2>3, <2>4, Moved
  <2>6. Queue!Submit(s)
    BY <1>2, <2>5 DEF Queue!Submit
  <2>. QED BY <2>1, <2>6 DEF Queue!Next
<1>. QED BY <1>1, <1>2 DEF Create, outside

LEMMA ClaimQueue == ASSUME CargosInv, NEW t \in Transmitters, Claim(t) PROVE [Queue!Next]_<<Job, accepted>>
<1>. PICK s : s = proc[t].sub
  OBVIOUS
<1>1. s \in Subs /\ UNCHANGED <<made, accepted>>
  BY MadeInSubs DEF Claim, outside, CargosInv, Shaped
<1>2. CASE ~Is(s, "PENDING")
  BY <1>1, <1>2, StutterQueue DEF Claim
<1>3. CASE Is(s, "PENDING")
  <2>1. row' = [row EXCEPT ![s].status = "PROCESSING"] /\ row[s] \in Row
    BY <1>1, <1>3, RowFields DEF Claim, Is
  <2>2. row'[s] # None /\ row'[s].status = "PROCESSING" /\ \A u \in Subs \ {s} : row'[u] = row[u]
    <3>1. [row[s] EXCEPT !.status = "PROCESSING"] \in Row
      BY <2>1 DEF Row, Statuses
    <3>. QED BY <1>1, <2>1, <3>1, RowAssumption DEF CargosInv, TypeOK, Row
  <2>3. Where(s) = "waiting" /\ Where(s)' = "taken"
    BY <1>1, <1>3, <2>2, RowWhere DEF Where
  <2>4. \A u \in Subs \ {s} : Where(u)' = Where(u)
    BY <1>1, <2>2, WhereSame
  <2>5. Queue!Take(s)
    BY <1>1, <2>3, <2>4, Moved DEF Queue!Take
  <2>. QED BY <1>1, <2>5 DEF Queue!Next
<1>. QED BY <1>2, <1>3

LEMMA WriteQueue == ASSUME CargosInv, Prompt, NEW t \in Transmitters, Write(t) PROVE [Queue!Next]_<<Job, accepted>>
<1>. PICK p, s : p = proc[t] /\ s = proc[t].sub
  OBVIOUS
<1>. PICK new : new = Written(p, row[s])
  OBVIOUS
<1>1. /\ p \in Process /\ s \in Subs /\ row[s] \in Row /\ Is(s, "PROCESSING") /\ s \in 1..made
      /\ (p.outcome = "sent" => s \in accepted)
  BY MadeInSubs, RowFields DEF Write, CargosInv, TypeOK, Shaped, Earned, ClaimsHold, Holds, Holding
<1>2. /\ row' = [row EXCEPT ![s] = new] /\ UNCHANGED <<made, accepted>>
      /\ row'[s] = new /\ \A u \in Subs \ {s} : row'[u] = row[u]
  BY <1>1 DEF Write, CargosInv, TypeOK
<1>3. Where(s) = "taken" /\ \A u \in Subs \ {s} : Where(u)' = Where(u)
  BY <1>1, <1>2, RowWhere, WhereSame
<1>4. /\ new # None /\ new.status \in {"MOCK_SENT", "SKIPPED", "FAILED", "PENDING"}
      /\ new.status = "MOCK_SENT" => p.outcome = "sent"
  <2>1. CASE p.outcome = "sent"
    <3>1. new = [row[s] EXCEPT !.status = "MOCK_SENT"]
      BY <2>1 DEF Written
    <3>2. new \in Row /\ new.status = "MOCK_SENT"
      BY <1>1, <3>1 DEF Row, Statuses
    <3>. QED BY <2>1, <3>2, RowAssumption
  <2>2. CASE p.outcome = "skipped"
    <3>1. new = [row[s] EXCEPT !.status = "SKIPPED"]
      BY <2>2 DEF Written
    <3>2. new \in Row /\ new.status = "SKIPPED"
      BY <1>1, <3>1 DEF Row, Statuses
    <3>. QED BY <3>2, RowAssumption
  <2>3. CASE p.outcome = "failed"
    <3>. PICK k, status : k = p.attempts + 1 /\ status = IF Exhausted(p.attempts) THEN "FAILED" ELSE "PENDING"
      OBVIOUS
    <3>1. k \in Nat /\ status \in {"FAILED", "PENDING"}
      BY <1>1 DEF Process
    <3>2. new = [row[s] EXCEPT !.status = status, !.attempts = k]
      BY <2>3 DEF Written
    <3>3. new \in Row /\ new.status = status
      BY <1>1, <3>1, <3>2 DEF Row, Statuses
    <3>. QED BY <3>1, <3>3, RowAssumption
  <2>. QED BY <1>1, <2>1, <2>2, <2>3 DEF Process
<1>5. s <= made /\ made' = made
  BY <1>1, <1>2
<1>6. CASE new.status = "PENDING"
  <2>1. Where(s)' = "waiting"
    BY <1>1, <1>2, <1>4, <1>5, <1>6, CargosAssumption DEF Where, CargosInv, TypeOK
  <2>2. Queue!GiveBack({s})
    BY <1>1, <1>2, <1>3, <2>1, Moved DEF Queue!GiveBack
  <2>. QED BY <1>1, <2>2 DEF Queue!Next
<1>7. CASE new.status # "PENDING"
  <2>1. \E to \in {"sent", "skipped", "failed"} : Where(s)' = to /\ (to = "sent" => s \in accepted)
    BY <1>1, <1>2, <1>4, <1>5, <1>7, CargosAssumption DEF Where, CargosInv, TypeOK
  <2>2. Queue!Settle(s)
    BY <1>1, <1>2, <1>3, <2>1, Moved DEF Queue!Settle, Queue!Settled
  <2>. QED BY <1>1, <2>2 DEF Queue!Next
<1>. QED BY <1>6, <1>7

LEMMA DeleteQueue == ASSUME CargosInv, NEW r \in Reservations, Delete(r) PROVE [Queue!Next]_<<Job, accepted>>
<1>. PICK lost : lost = {s \in Subs : row[s] # None /\ row[s].res = r}
  OBVIOUS
<1>1. row' = [s \in Subs |-> IF s \in lost THEN None ELSE row[s]] /\ UNCHANGED <<made, accepted>>
  BY DEF Delete, outside
<1>2. /\ lost \in SUBSET Subs /\ \A s \in lost : row[s] # None /\ row'[s] = None
      /\ \A s \in Subs \ lost : row'[s] = row[s]
  BY <1>1
<1>3. \A s \in lost : Where(s) \in {"waiting", "taken"} \cup {"sent", "skipped", "failed"} /\ Where(s)' = "gone"
  <2>. SUFFICES ASSUME NEW s \in lost
                PROVE  Where(s) \in {"waiting", "taken"} \cup {"sent", "skipped", "failed"} /\ Where(s)' = "gone"
    OBVIOUS
  <2>1. s \in 1..made /\ ~(s > made)
    BY <1>2, RowFields, CargosAssumption DEF CargosInv, TypeOK
  <2>. QED BY <1>1, <1>2, <2>1, RowWhere DEF Where
<1>4. \A s \in Subs \ lost : Where(s)' = Where(s)
  BY <1>1, <1>2, WhereSame
<1>5. Queue!Withdraw(lost)
  BY <1>1, <1>2, <1>3, <1>4, Moved DEF Queue!Withdraw, Queue!Settled
<1>. QED BY <1>2, <1>5 DEF Queue!Next

LEMMA RestartQueue == ASSUME CargosInv, NEW w \in Workers, Restart(w) PROVE [Queue!Next]_<<Job, accepted>>
<1>1. /\ row' = [s \in Subs |-> IF s \in stale THEN [row[s] EXCEPT !.status = "PENDING"] ELSE row[s]]
      /\ UNCHANGED <<made, accepted>>
  BY DEF Restart, outside
<1>2. stale \in SUBSET Subs /\ \A s \in Subs \ stale : row'[s] = row[s]
  BY <1>1 DEF CargosInv, TypeOK
<1>3. \A s \in stale : Where(s) = "taken" /\ Where(s)' = "waiting"
  <2>. SUFFICES ASSUME NEW s \in stale PROVE Where(s) = "taken" /\ Where(s)' = "waiting"
    OBVIOUS
  <2>1. s \in Subs /\ Is(s, "PROCESSING") /\ row[s] \in Row /\ s \in 1..made
    BY <1>2, RowFields DEF CargosInv, QueueSound, Is
  <2>2. row'[s] = [row[s] EXCEPT !.status = "PENDING"] /\ row'[s] \in Row /\ row'[s].status = "PENDING"
    BY <1>1, <2>1 DEF Row, Statuses
  <2>3. ~(s > made) /\ row'[s] # None
    BY <2>1, <2>2, CargosAssumption, RowAssumption DEF CargosInv, TypeOK
  <2>. QED BY <1>1, <2>1, <2>2, <2>3, RowWhere DEF Where
<1>4. \A s \in Subs \ stale : Where(s)' = Where(s)
  BY <1>1, <1>2, WhereSame
<1>5. Queue!GiveBack(stale)
  BY <1>1, <1>2, <1>3, <1>4, Moved DEF Queue!GiveBack
<1>. QED BY <1>2, <1>5 DEF Queue!Next

LEMMA NextQueue ==
  ASSUME CargosInv, CargosInv', Prompt, [Next]_vars PROVE [Queue!Next]_<<Job, accepted>>
<1>1. ASSUME NEW t \in Transmitters, Transmit(t) PROVE [Queue!Next]_<<Job, accepted>>
  <2>1. CASE Claim(t)
    BY <2>1, ClaimQueue
  <2>2. CASE ReadCompany(t) \/ Send(t)
    <3>1. proc[t].at \in Holding /\ UNCHANGED <<row, made>>
      BY <2>2 DEF ReadCompany, Send, Holding, queue
    <3>2. accepted' \in {accepted, accepted \cup {proc[t].sub}}
      BY <2>2 DEF ReadCompany, Send
    <3>. QED BY <3>1, <3>2, DeliverQueue, StutterQueue
  <2>3. CASE Write(t)
    BY <2>3, WriteQueue
  <2>4. CASE WriteNothing(t)
    BY <2>4, StutterQueue DEF WriteNothing, queue, outside
  <2>. QED BY <1>1, <2>1, <2>2, <2>3, <2>4 DEF Transmit
<1>2. CASE SetCompany \/ UNCHANGED vars \/ \E r \in Reservations : SetStatus(r)
  BY <1>2, StutterQueue DEF SetCompany, SetStatus, vars, queue, outside
<1>3. ASSUME NEW r \in Reservations, Delete(r) PROVE [Queue!Next]_<<Job, accepted>>
  BY <1>3, DeleteQueue
<1>4. ASSUME NEW t \in Senders, Ask(t) \/ SenderStep(t) PROVE [Queue!Next]_<<Job, accepted>>
  <2>1. CASE Ask(t) \/ ReadPolicy(t) \/ LookForInFlight(t) \/ Fetch(t)
    BY <2>1, StutterQueue DEF Ask, ReadPolicy, LookForInFlight, Fetch, queue, outside
  <2>2. CASE Create(t)
    BY <2>2, CreateQueue
  <2>. QED BY <1>1, <1>4, <2>1, <2>2 DEF SenderStep, Transmitters
<1>5. ASSUME NEW w \in Workers, WorkerStep(w) \/ Restart(w) PROVE [Queue!Next]_<<Job, accepted>>
  <2>1. CASE Poll(w)
    BY <2>1, StutterQueue DEF Poll, queue, outside
  <2>. QED BY <1>1, <1>5, <2>1, RestartQueue DEF WorkerStep, Transmitters
<1>6. ASSUME NEW t \in Transmitters, WriteFails(t) \/ Crash(t) PROVE [Queue!Next]_<<Job, accepted>>
  BY <1>6, StutterQueue DEF WriteFails, Crash, queue, outside
<1>7. ASSUME NEW s \in Subs, Age(s) PROVE [Queue!Next]_<<Job, accepted>>
  BY <1>7, StutterQueue DEF Age, outside
<1>. QED BY <1>2, <1>3, <1>4, <1>5, <1>6, <1>7 DEF Next

\* The worker and send-now together are a submission queue: claims exclude each
\* other, what is settled is never touched again, nothing is delivered untaken.
THEOREM Refinement == Prompt => (Spec => QueueSpec)
<1>. SUFFICES ASSUME Prompt PROVE Spec => QueueSpec
  OBVIOUS
<1>1. Init => Queue!Init
  BY InitQueue
<1>2. CargosInv /\ CargosInv' /\ [Next]_vars => [Queue!Next]_<<Job, accepted>>
  BY NextQueue
<1>. QED BY <1>1, <1>2, CargosInvariant, PTL DEF Spec, QueueSpec, Queue!Spec, Job
=============================================================================
