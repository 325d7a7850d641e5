---------------------------- MODULE SdiHandoffProofs ----------------------------
(***************************************************************************)
(* Proofs about SdiHandoff: the inductive invariant, and what it says of   *)
(* the outcomes written and of invoices sent twice.                        *)
(***************************************************************************)
EXTENDS SdiHandoff, TLAPS

LEMMA IdleSound == Idle \in Request /\ Idle.at = "idle" /\ Idle.sub = 0 /\ Sound(Idle) /\ Sound(Idle)'
BY DEF Idle, Request, Sound, Holding, Unposted, AllAdapters, Replies

LEMMA InitInv == Init => SdiInv
<1>. SUFFICES ASSUME Init PROVE SdiInv
  OBVIOUS
<1>1. TypeOK
  BY IdleSound, SdiAssumption DEF Init, TypeOK, NoHook, Progress
<1>2. RowsSound /\ SentIsSent /\ FailedIsTold
  BY DEF Init, RowsSound, SentIsSent, FailedIsTold, Is
<1>3. Apart /\ \A t \in Requests : Sound(req[t])
  BY IdleSound DEF Init, Apart, Holding
<1>4. HooksSound /\ \A s \in Subs : AllQuiet(known[s])
  BY DEF Init, HooksSound, NoHook, AllQuiet
<1>. QED BY <1>1, <1>2, <1>3, <1>4 DEF SdiInv

\* The fields of a request that works on a row.
LEMMA HolderFields ==
  ASSUME SdiInv, NEW t \in Requests
  PROVE  /\ req[t] \in Request /\ Sound(req[t])
         /\ req[t].at \in Holding => req[t].sub \in 1..made /\ req[t].sub \in Subs
         /\ req[t].at # "idle" => req[t].inv \in Invoices
BY SdiAssumption DEF SdiInv, TypeOK, Sound, Subs

-----------------------------------------------------------------------------
(***************************************************************************)
(* Steps that create no row and tell the middleware nothing.               *)
(***************************************************************************)

LEMMA TableInv ==
  ASSUME SdiInv, UNCHANGED <<made, mw, known, timedOut>>,
         adapter' \in Adapters, invoice' \in [Invoices -> {"ISSUED", "VOID", "gone"}],
         row' \in [Subs -> Row \cup {None}], req' \in [Requests -> Request],
         hook' \in [Callbacks -> [at : {"idle", "read", "write"}, sub : Subs \cup {0}, status : {"SENT", "FAILED"}]],
         lost' \subseteq Subs, calls' \in 0..MaxCalls, crashes' \in 0..MaxCrashes,
         \A t \in Requests :
           \/ req'[t] = req[t] \/ req'[t] = Idle
           \/ req'[t].at = "look" /\ req'[t].inv \in Invoices
           \/ req'[t].at = "create" /\ AllQuiet(req'[t].found) /\ req'[t].inv \in Invoices
           \/ req[t].at = "start" /\ req'[t].at = "post" /\ req'[t].sub = req[t].sub /\ req'[t].inv = req[t].inv,
         \A s \in Subs : row'[s] # None =>
           /\ row[s] # None
           /\ \/ row'[s].status \in {row[s].status, "MOCK_SENT", "PROCESSING"}
              \/ row'[s].status = "SENT" /\ mw[s] \in ReallySent
              \/ row'[s].status = "FAILED" /\ (mw[s] \in {"unseen", "FAILED"} \/ s \in timedOut),
         \A t \in Requests : req'[t].at \in Unposted =>
           row'[req'[t].sub] = None \/ row'[req'[t].sub].status \in {"PENDING", "PROCESSING"},
         \A c \in Callbacks : hook'[c].at # "idle" => hook'[c].sub \in Subs /\ mw[hook'[c].sub] = hook'[c].status
  PROVE  SdiInv'
<1>1. TypeOK'
  BY DEF SdiInv, TypeOK
<1>2. (RowsSound /\ SentIsSent /\ FailedIsTold)'
  BY DEF SdiInv, RowsSound, SentIsSent, FailedIsTold, Is, ReallySent
<1>3. \A t \in Requests : /\ req'[t].at \in Unposted => req[t].at \in Unposted /\ req'[t].sub = req[t].sub
                          /\ req'[t].at \in Holding => req[t].at \in Holding /\ req'[t].sub = req[t].sub
  BY IdleSound DEF Unposted, Holding
<1>4. Apart'
  BY <1>3 DEF SdiInv, Apart
<1>5. HooksSound'
  BY DEF HooksSound
<1>6. ASSUME NEW S, AllQuiet(S)
      PROVE  /\ AllQuiet(S)'
             /\ \A s \in S : /\ s <= made'
                            /\ \/ s \in timedOut'
                               \/ mw'[s] \in {"unseen", "FAILED"} /\ \A u \in Requests : req'[u].at \in Unposted => req'[u].sub # s
  BY <1>3, <1>6 DEF AllQuiet, Quiet
<1>7. (\A s \in Subs : AllQuiet(known[s]))'
  BY <1>6 DEF SdiInv
<1>8. (\A t \in Requests : Sound(req[t]))'
  <2>. SUFFICES ASSUME NEW t \in Requests PROVE Sound(req[t])'
    OBVIOUS
  <2>1. CASE req'[t] = Idle
    BY <2>1, IdleSound
  <2>2. CASE req'[t].at = "look" /\ req'[t].inv \in Invoices
    BY <2>2 DEF Sound, Holding, Unposted
  <2>3. CASE req'[t].at = "create" /\ AllQuiet(req'[t].found) /\ req'[t].inv \in Invoices
    <3>1. PICK S : S = req'[t].found /\ AllQuiet(S)
      BY <2>3
    <3>2. req'[t].at = "create"
      BY <2>3
    <3>. QED BY <1>6, <2>3, <3>1, <3>2 DEF Sound, Holding, Unposted, AllQuiet, Quiet
  <2>4. CASE req[t].at = "start" /\ req'[t].at = "post" /\ req'[t].sub = req[t].sub /\ req'[t].inv = req[t].inv
    BY <2>4, HolderFields DEF Sound, Holding, Unposted, Is
  <2>5. CASE req'[t] = req[t]
    <3>1. Sound(req[t])
      BY DEF SdiInv
    <3>2. CASE req[t].at = "create"
      <4>1. PICK S : S = req[t].found /\ AllQuiet(S)
        BY <3>1, <3>2 DEF Sound
      <4>. QED BY <1>6, <2>5, <3>1, <3>2, <4>1 DEF Sound, Holding, Unposted, AllQuiet, Quiet
    <3>3. CASE req[t].at # "create"
      BY <2>5, <3>1, <3>3 DEF Sound, Holding, Unposted, Is
    <3>. QED BY <3>2, <3>3
  <2>. QED BY <2>1, <2>2, <2>3, <2>4, <2>5
<1>. QED BY <1>1, <1>2, <1>4, <1>5, <1>7, <1>8 DEF SdiInv

\* Until it has posted, a request works on a row that is not settled.
LEMMA UnpostedRows ==
  ASSUME SdiInv, NEW t \in Requests, req[t].at \in Unposted
  PROVE  /\ req[t].sub \in Subs
         /\ row[req[t].sub] = None \/ row[req[t].sub].status \in {"PENDING", "PROCESSING"}
BY HolderFields DEF Sound, Is, Unposted, Holding

\* What the steps of this section leave alone.
LEMMA SameRequests ==
  ASSUME SdiInv, UNCHANGED <<req, row>>
  PROVE  /\ req' \in [Requests -> Request]
         /\ \A t \in Requests : req'[t].at \in Unposted =>
              row'[req'[t].sub] = None \/ row'[req'[t].sub].status \in {"PENDING", "PROCESSING"}
BY UnpostedRows DEF SdiInv, TypeOK

LEMMA SameHooks ==
  ASSUME SdiInv, UNCHANGED hook
  PROVE  /\ hook' \in [Callbacks -> [at : {"idle", "read", "write"}, sub : Subs \cup {0}, status : {"SENT", "FAILED"}]]
         /\ \A c \in Callbacks : hook'[c].at # "idle" => hook'[c].sub \in Subs /\ mw[hook'[c].sub] = hook'[c].status
BY DEF SdiInv, TypeOK, HooksSound

LEMMA SetAdapterInv == SdiInv /\ SetAdapter => SdiInv'
<1>. SUFFICES ASSUME SdiInv, SetAdapter PROVE SdiInv'
  OBVIOUS
<1>1. UNCHANGED <<made, mw, known, timedOut, invoice, row, req, hook, lost, calls, crashes>> /\ adapter' \in Adapters
  BY DEF SetAdapter, table, history
<1>2. TypeOK
  BY DEF SdiInv
<1>. QED BY <1>1, <1>2, SameRequests, SameHooks, TableInv DEF TypeOK

LEMMA VoidInv == ASSUME NEW i \in Invoices PROVE SdiInv /\ Void(i) => SdiInv'
<1>. SUFFICES ASSUME SdiInv, Void(i) PROVE SdiInv'
  OBVIOUS
<1>1. UNCHANGED <<made, mw, known, timedOut, adapter, row, req, hook, lost, calls, crashes>>
  BY DEF Void, table, history
<1>2. TypeOK
  BY DEF SdiInv
<1>3. invoice' \in [Invoices -> {"ISSUED", "VOID", "gone"}]
  BY <1>2 DEF Void, TypeOK
<1>. QED BY <1>1, <1>2, <1>3, SameRequests, SameHooks, TableInv DEF TypeOK

LEMMA DeleteInv == ASSUME NEW i \in Invoices PROVE SdiInv /\ Delete(i) => SdiInv'
<1>. SUFFICES ASSUME SdiInv, Delete(i) PROVE SdiInv'
  OBVIOUS
<1>1. UNCHANGED <<made, mw, known, timedOut, adapter, req, hook, lost, calls, crashes>>
  BY DEF Delete, history
<1>2. TypeOK
  BY DEF SdiInv
<1>3. invoice' \in [Invoices -> {"ISSUED", "VOID", "gone"}]
  BY <1>2 DEF Delete, TypeOK
<1>4. row' \in [Subs -> Row \cup {None}] /\ \A s \in Subs : row'[s] \in {row[s], None}
  BY <1>2 DEF Delete, TypeOK
<1>5. \A t \in Requests : req'[t].at \in Unposted =>
        row'[req'[t].sub] = None \/ row'[req'[t].sub].status \in {"PENDING", "PROCESSING"}
  BY <1>1, <1>4, UnpostedRows
<1>6. \A s \in Subs : row'[s] # None => row[s] # None /\ row'[s].status = row[s].status
  BY <1>4
<1>. QED BY <1>1, <1>2, <1>3, <1>4, <1>5, <1>6, SameHooks, TableInv DEF TypeOK

-----------------------------------------------------------------------------
(***************************************************************************)
(* Requests, up to the post and after it.                                  *)
(***************************************************************************)

LEMMA GoFields ==
  ASSUME SdiInv, NEW t \in Requests, NEW next \in Request, Go(t, next)
  PROVE  /\ req' \in [Requests -> Request] /\ req'[t] = next
         /\ \A u \in Requests \ {t} : req'[u] = req[u]
BY DEF Go, SdiInv, TypeOK

\* A request that does not hold a row afterwards, and leaves the rows alone.
LEMMA FreeRequests ==
  ASSUME SdiInv, NEW t \in Requests, NEW next \in Request, Go(t, next), next.at \notin Unposted, UNCHANGED row
  PROVE  \A u \in Requests : req'[u].at \in Unposted =>
           row'[req'[u].sub] = None \/ row'[req'[u].sub].status \in {"PENDING", "PROCESSING"}
BY GoFields, UnpostedRows

LEMMA AskInv == ASSUME NEW t \in Requests PROVE SdiInv /\ Ask(t) => SdiInv'
<1>. SUFFICES ASSUME SdiInv, Ask(t) PROVE SdiInv'
  OBVIOUS
<1>1. UNCHANGED <<made, mw, known, timedOut, adapter, invoice, row, hook, lost, crashes>>
  BY DEF Ask, table, history, records
<1>2. TypeOK /\ calls' \in 0..MaxCalls
  BY SdiAssumption DEF SdiInv, Ask, TypeOK
<1>3. PICK i \in Invoices : Go(t, [Idle EXCEPT !.at = "look", !.inv = i, !.adapter = adapter])
  BY DEF Ask
<1>a. PICK next : next = [Idle EXCEPT !.at = "look", !.inv = i, !.adapter = adapter]
  OBVIOUS
<1>4. next \in Request /\ next.at = "look" /\ next.inv = i /\ next.at \notin Unposted
  BY <1>a, <1>2, SdiAssumption DEF TypeOK, Idle, Request, Replies, Unposted, Holding
<1>5. Go(t, next)
  BY <1>3, <1>a DEF Go
<1>6. req' \in [Requests -> Request] /\ \A u \in Requests : req'[u] = req[u] \/ (req'[u].at = "look" /\ req'[u].inv \in Invoices)
  <2>1. req' \in [Requests -> Request] /\ req'[t] = next /\ \A u \in Requests \ {t} : req'[u] = req[u]
    BY <1>4, <1>5, GoFields
  <2>. QED BY <1>4, <2>1
<1>7. \A u \in Requests : req'[u].at \in Unposted =>
        row'[req'[u].sub] = None \/ row'[req'[u].sub].status \in {"PENDING", "PROCESSING"}
  BY <1>1, <1>4, <1>5, FreeRequests
<1>. QED BY <1>1, <1>2, <1>6, <1>7, SameHooks, TableInv DEF TypeOK

\* What a lookup finds and remembers is of the past: a row that a request has
\* still to post blocks, or is PENDING.
LEMMA LookFinds ==
  ASSUME SdiInv, NEW i \in Invoices, \A s \in SubsOf(i) : row[s].status \notin Blocking
  PROVE  AllQuiet({s \in SubsOf(i) : ~Is(s, "PENDING")})
<1>. SUFFICES ASSUME NEW s \in SubsOf(i), ~Is(s, "PENDING") PROVE s <= made /\ Quiet(s)
  BY DEF AllQuiet
<1>1. s \in Subs /\ row[s] # None /\ row[s] \in Row /\ s \in Nat /\ made \in Nat
  BY SdiAssumption DEF SubsOf, SdiInv, TypeOK, Subs
<1>2. Is(s, "SKIPPED") \/ Is(s, "FAILED")
  BY <1>1 DEF Is, Row, Blocking
<1>3. s <= made
  BY <1>1 DEF SdiInv, RowsSound
<1>4. \A t \in Requests : req[t].at \in Unposted => req[t].sub # s
  BY <1>2, UnpostedRows DEF Is
<1>5. s \in timedOut \/ mw[s] \in {"unseen", "FAILED"}
  BY <1>1, <1>2 DEF SdiInv, RowsSound, FailedIsTold
<1>. QED BY <1>3, <1>4, <1>5 DEF Quiet

LEMMA LookInv == ASSUME NEW t \in Requests PROVE SdiInv /\ Look(t) => SdiInv'
<1>. SUFFICES ASSUME SdiInv, Look(t) PROVE SdiInv'
  OBVIOUS
<1>1. UNCHANGED <<made, mw, known, timedOut, adapter, invoice, row, hook, lost, calls, crashes>>
  BY DEF Look, table, history, records
<1>2. TypeOK
  BY DEF SdiInv
<1>3. PICK p : p = req[t] /\ p \in Request /\ p.at = "look" /\ p.inv \in Invoices
  BY HolderFields DEF Look
<1>a. PICK found : found = {s \in SubsOf(p.inv) : ~Is(s, "PENDING")}
  OBVIOUS
<1>b. PICK next : next = [p EXCEPT !.at = "create", !.found = found]
  OBVIOUS
<1>4. next \in Request /\ next.at = "create" /\ next.inv \in Invoices /\ next.found = found
  BY <1>3, <1>a, <1>b DEF Request, SubsOf
<1>5. Go(t, Idle) \/ (Go(t, next) /\ AllQuiet(found))
  <2>1. Go(t, Idle) \/ (Go(t, next) /\ \A s \in SubsOf(p.inv) : row[s].status \notin Blocking)
    BY <1>3, <1>a, <1>b DEF Look, Go
  <2>2. ASSUME \A s \in SubsOf(p.inv) : row[s].status \notin Blocking PROVE AllQuiet(found)
    <3>1. \A s \in found : s \in SubsOf(p.inv) /\ ~Is(s, "PENDING")
      BY <1>a
    <3>2. AllQuiet({s \in SubsOf(p.inv) : ~Is(s, "PENDING")})
      BY <2>2, <1>3, LookFinds
    <3>. QED BY <3>1, <3>2 DEF AllQuiet
  <2>. QED BY <2>1, <2>2
<1>6. /\ req' \in [Requests -> Request]
      /\ \A u \in Requests : \/ req'[u] = req[u] \/ req'[u] = Idle
                             \/ req'[u].at = "create" /\ AllQuiet(req'[u].found) /\ req'[u].inv \in Invoices
  <2>1. CASE Go(t, Idle)
    <3>1. req' \in [Requests -> Request] /\ req'[t] = Idle /\ \A u \in Requests \ {t} : req'[u] = req[u]
      BY <2>1, IdleSound, GoFields
    <3>. QED BY <3>1
  <2>2. CASE Go(t, next) /\ AllQuiet(found)
    <3>1. req' \in [Requests -> Request] /\ req'[t] = next /\ \A u \in Requests \ {t} : req'[u] = req[u]
      BY <2>2, <1>4, GoFields
    <3>. QED BY <3>1, <2>2, <1>4
  <2>. QED BY <1>5, <2>1, <2>2
<1>7. \A u \in Requests : req'[u].at \in Unposted =>
        row'[req'[u].sub] = None \/ row'[req'[u].sub].status \in {"PENDING", "PROCESSING"}
  BY <1>1, <1>4, <1>5, IdleSound, FreeRequests DEF Unposted, Holding
<1>. QED BY <1>1, <1>2, <1>6, <1>7, SameHooks, TableInv DEF TypeOK

\* update by id.
LEMMA SetStatusFields ==
  ASSUME SdiInv, NEW s \in Subs, NEW status \in {"PROCESSING", "MOCK_SENT", "FAILED", "SENT"}, SetStatus(s, status)
  PROVE  /\ row' \in [Subs -> Row \cup {None}]
         /\ \A u \in Subs \ {s} : row'[u] = row[u]
         /\ row[s] = None => row'[s] = None
         /\ row[s] # None => row'[s] # None /\ row'[s].status = status /\ row'[s].inv = row[s].inv
<1>1. row \in [Subs -> Row \cup {None}]
  BY DEF SdiInv, TypeOK
<1>2. CASE row[s] = None
  BY <1>1, <1>2 DEF SetStatus
<1>3. CASE row[s] # None
  <2>1. row' = [row EXCEPT ![s].status = status]
    BY <1>3 DEF SetStatus
  <2>2. [row[s] EXCEPT !.status = status] \in Row /\ [row[s] EXCEPT !.status = status].inv = row[s].inv
    BY <1>1, <1>3 DEF Row
  <2>3. row'[s] \in Row /\ row'[s].status = status /\ row'[s].inv = row[s].inv
    BY <1>1, <1>3, <2>1 DEF Row
  <2>. QED BY <1>1, <1>3, <2>1, <2>3, NoneAssumption
<1>. QED BY <1>2, <1>3

\* A request that writes the outcome of its row and is done: nobody else is
\* about to post that row.
LEMMA FinishInv ==
  ASSUME SdiInv, NEW t \in Requests, req[t].at \in Holding, Finish(t),
         UNCHANGED <<made, mw, known, timedOut, adapter, invoice, hook, lost, calls, crashes>>,
         NEW status \in {"MOCK_SENT", "FAILED", "SENT"}, SetStatus(req[t].sub, status),
         status = "SENT" => mw[req[t].sub] \in ReallySent,
         status = "FAILED" => mw[req[t].sub] \in {"unseen", "FAILED"} \/ req[t].sub \in timedOut
  PROVE  SdiInv'
<1>1. PICK s \in Subs : s = req[t].sub
  BY HolderFields
<1>2. TypeOK
  BY DEF SdiInv
<1>3. SetStatus(s, status)
  BY <1>1 DEF SetStatus
<1>4. /\ row' \in [Subs -> Row \cup {None}]
      /\ \A u \in Subs \ {s} : row'[u] = row[u]
      /\ row[s] = None => row'[s] = None
      /\ row[s] # None => row'[s] # None /\ row'[s].status = status
  BY <1>3, SetStatusFields
<1>5. req' \in [Requests -> Request] /\ req'[t] = Idle /\ \A u \in Requests \ {t} : req'[u] = req[u]
  BY <1>2 , IdleSound DEF Finish, Go, TypeOK
<1>6. \A u \in Subs : row'[u] # None =>
        /\ row[u] # None
        /\ \/ row'[u].status \in {row[u].status, "MOCK_SENT", "PROCESSING"}
           \/ row'[u].status = "SENT" /\ mw[u] \in ReallySent
           \/ row'[u].status = "FAILED" /\ (mw[u] \in {"unseen", "FAILED"} \/ u \in timedOut)
  BY <1>1, <1>4
<1>7. \A u \in Requests : req'[u].at \in Unposted =>
        row'[req'[u].sub] = None \/ row'[req'[u].sub].status \in {"PENDING", "PROCESSING"}
  <2>. SUFFICES ASSUME NEW u \in Requests, req'[u].at \in Unposted
                PROVE  row'[req'[u].sub] = None \/ row'[req'[u].sub].status \in {"PENDING", "PROCESSING"}
    OBVIOUS
  <2>1. u # t /\ req'[u] = req[u] /\ req[u].at \in Unposted
    BY <1>5, IdleSound DEF Unposted, Holding
  <2>2. req[u].sub \in Subs \ {s}
    BY <1>1, <2>1, UnpostedRows DEF SdiInv, Apart, Unposted
  <2>. QED BY <1>4, <2>1, <2>2, UnpostedRows
<1>. QED BY <1>2, <1>4, <1>5, <1>6, <1>7, SameHooks, TableInv DEF TypeOK

LEMMA MockInv == ASSUME NEW t \in Requests PROVE SdiInv /\ Mock(t) => SdiInv'
<1>. SUFFICES ASSUME SdiInv, Mock(t) PROVE SdiInv'
  OBVIOUS
<1>1. UNCHANGED <<made, mw, known, timedOut, adapter, invoice, hook, lost, calls, crashes>>
  BY DEF Mock, history, records
<1>2. req[t].at \in Holding /\ Finish(t) /\ SetStatus(req[t].sub, "MOCK_SENT")
  BY DEF Mock, Holding
<1>. QED BY <1>1, <1>2, FinishInv

LEMMA WriteInv == ASSUME NEW t \in Requests PROVE SdiInv /\ Write(t) => SdiInv'
<1>. SUFFICES ASSUME SdiInv, Write(t) PROVE SdiInv'
  OBVIOUS
<1>1. UNCHANGED <<made, mw, known, timedOut, adapter, invoice, hook, lost, calls, crashes>>
  BY DEF Write, history, records
<1>2. req[t].at = "write" /\ req[t].at \in Holding /\ Finish(t) /\ Sound(req[t])
  BY HolderFields DEF Write, Holding
<1>3. CASE req[t].reply = "sent"
  <2>1. SetStatus(req[t].sub, "SENT")
    BY <1>3 DEF Write
  <2>2. mw[req[t].sub] \in ReallySent
    BY <1>2, <1>3 DEF Sound, ReallySent
  <2>. QED BY <1>1, <1>2, <2>1, <2>2, FinishInv
<1>4. CASE req[t].reply = "failed"
  <2>1. SetStatus(req[t].sub, "FAILED")
    BY <1>4 DEF Write
  <2>2. mw[req[t].sub] \in {"unseen", "FAILED"} \/ req[t].sub \in timedOut
    BY <1>2, <1>4 DEF Sound
  <2>. QED BY <1>1, <1>2, <2>1, <2>2, FinishInv
<1>5. CASE req[t].reply \notin {"sent", "failed"}
  <2>1. UNCHANGED row
    BY <1>5 DEF Write
  <2>2. TypeOK
    BY DEF SdiInv
  <2>3. req' \in [Requests -> Request] /\ req'[t] = Idle /\ \A u \in Requests \ {t} : req'[u] = req[u]
    BY <1>2, <2>2, IdleSound DEF Finish, Go, TypeOK
  <2>4. \A u \in Requests : req'[u].at \in Unposted =>
          row'[req'[u].sub] = None \/ row'[req'[u].sub].status \in {"PENDING", "PROCESSING"}
    BY <2>1, <2>3, IdleSound, UnpostedRows DEF Unposted, Holding
  <2>. QED BY <1>1, <2>1, <2>2, <2>3, <2>4, SameHooks, TableInv DEF TypeOK
<1>. QED BY <1>3, <1>4, <1>5

LEMMA StartInv == ASSUME NEW t \in Requests PROVE SdiInv /\ Start(t) => SdiInv'
<1>. SUFFICES ASSUME SdiInv, Start(t) PROVE SdiInv'
  OBVIOUS
<1>1. UNCHANGED <<made, mw, known, timedOut, adapter, invoice, hook, lost, calls, crashes>>
  BY DEF Start, history, records
<1>2. TypeOK
  BY DEF SdiInv
<1>3. req[t].at = "start" /\ req[t].at \in Holding /\ req[t].at \in Unposted /\ req[t] \in Request
  BY HolderFields DEF Start, Holding, Unposted
<1>4. PICK s \in Subs : s = req[t].sub /\ SetStatus(s, "PROCESSING")
  <2>1. req[t].sub \in Subs
    BY <1>3, HolderFields
  <2>. QED BY <2>1 DEF Start, SetStatus
<1>5. /\ row' \in [Subs -> Row \cup {None}]
      /\ \A u \in Subs \ {s} : row'[u] = row[u]
      /\ row[s] = None => row'[s] = None
      /\ row[s] # None => row'[s] # None /\ row'[s].status = "PROCESSING"
  BY <1>4, SetStatusFields
<1>6. /\ req' \in [Requests -> Request] /\ \A u \in Requests \ {t} : req'[u] = req[u]
      /\ req'[t] = Idle \/ req'[t] = [req[t] EXCEPT !.at = "post"]
  <2>1. Idle \in Request /\ [req[t] EXCEPT !.at = "post"] \in Request
    BY <1>3, IdleSound DEF Request
  <2>. QED BY <2>1, <1>2 DEF Start, Go, TypeOK
<1>7. \A u \in Requests :
        \/ req'[u] = req[u] \/ req'[u] = Idle
        \/ req[u].at = "start" /\ req'[u].at = "post" /\ req'[u].sub = req[u].sub /\ req'[u].inv = req[u].inv
  BY <1>3, <1>6 DEF Request
<1>8. \A u \in Subs : row'[u] # None =>
        row[u] # None /\ row'[u].status \in {row[u].status, "MOCK_SENT", "PROCESSING"}
  BY <1>5
<1>9. \A u \in Requests : req'[u].at \in Unposted =>
        row'[req'[u].sub] = None \/ row'[req'[u].sub].status \in {"PENDING", "PROCESSING"}
  <2>. SUFFICES ASSUME NEW u \in Requests, req'[u].at \in Unposted
                PROVE  row'[req'[u].sub] = None \/ row'[req'[u].sub].status \in {"PENDING", "PROCESSING"}
    OBVIOUS
  <2>1. req'[u].sub = req[u].sub /\ req[u].at \in Unposted
    BY <1>7, IdleSound DEF Unposted, Holding
  <2>. QED BY <1>5, <2>1, UnpostedRows
<1>. QED BY <1>1, <1>2, <1>5, <1>6, <1>7, <1>8, <1>9, SameHooks, TableInv DEF TypeOK

-----------------------------------------------------------------------------
(***************************************************************************)
(* Callbacks, and the death of one.                                        *)
(***************************************************************************)

LEMMA HookFields ==
  ASSUME SdiInv, NEW c \in Callbacks, NEW h \in [at : {"idle", "read", "write"}, sub : Subs \cup {0}, status : {"SENT", "FAILED"}],
         hook' = [hook EXCEPT ![c] = h], h.at # "idle" => h.sub \in Subs /\ mw[h.sub] = h.status
  PROVE  /\ hook' \in [Callbacks -> [at : {"idle", "read", "write"}, sub : Subs \cup {0}, status : {"SENT", "FAILED"}]]
         /\ \A d \in Callbacks : hook'[d].at # "idle" => hook'[d].sub \in Subs /\ mw[hook'[d].sub] = hook'[d].status
BY DEF SdiInv, TypeOK, HooksSound

LEMMA HookOf ==
  ASSUME SdiInv, NEW c \in Callbacks
  PROVE  /\ hook[c] \in [at : {"idle", "read", "write"}, sub : Subs \cup {0}, status : {"SENT", "FAILED"}]
         /\ hook[c].at # "idle" => hook[c].sub \in Subs /\ mw[hook[c].sub] = hook[c].status
         /\ NoHook \in [at : {"idle", "read", "write"}, sub : Subs \cup {0}, status : {"SENT", "FAILED"}] /\ NoHook.at = "idle"
BY DEF SdiInv, TypeOK, HooksSound, NoHook

LEMMA CallbackBeginsInv == ASSUME NEW c \in Callbacks, NEW s \in Subs PROVE SdiInv /\ CallbackBegins(c, s) => SdiInv'
<1>. SUFFICES ASSUME SdiInv, CallbackBegins(c, s) PROVE SdiInv'
  OBVIOUS
<1>1. UNCHANGED <<made, mw, known, timedOut, adapter, invoice, row, req, lost, calls, crashes>>
  BY DEF CallbackBegins, table, history, records
<1>2. TypeOK
  BY DEF SdiInv
<1>3. PICK h : h = [at |-> "read", sub |-> s, status |-> mw[s]]
  OBVIOUS
<1>4. h \in [at : {"idle", "read", "write"}, sub : Subs \cup {0}, status : {"SENT", "FAILED"}] /\ h.sub = s /\ mw[s] = h.status
  BY <1>3 DEF CallbackBegins
<1>5. hook' = [hook EXCEPT ![c] = h]
  BY <1>3 DEF CallbackBegins
<1>. QED BY <1>1, <1>2, <1>4, <1>5, HookFields, SameRequests, TableInv DEF TypeOK

LEMMA CallbackReadsInv == ASSUME NEW c \in Callbacks PROVE SdiInv /\ CallbackReads(c) => SdiInv'
<1>. SUFFICES ASSUME SdiInv, CallbackReads(c) PROVE SdiInv'
  OBVIOUS
<1>1. UNCHANGED <<made, mw, known, timedOut, adapter, invoice, row, req, lost, calls, crashes>>
  BY DEF CallbackReads, table, history, records
<1>2. TypeOK
  BY DEF SdiInv
<1>3. PICK h : h = hook'[c]
  OBVIOUS
<1>4. hook' = [hook EXCEPT ![c] = h] /\ h \in {NoHook, [hook[c] EXCEPT !.at = "write"]}
  BY <1>2, <1>3 DEF CallbackReads, TypeOK
<1>5. /\ h \in [at : {"idle", "read", "write"}, sub : Subs \cup {0}, status : {"SENT", "FAILED"}]
      /\ h.at # "idle" => h.sub \in Subs /\ mw[h.sub] = h.status
  BY <1>4, HookOf DEF CallbackReads
<1>. QED BY <1>1, <1>2, <1>4, <1>5, HookFields, SameRequests, TableInv DEF TypeOK

\* What a callback writes is what the middleware has decided: no request is
\* about to post that row.
LEMMA CallbackWritesInv == ASSUME NEW c \in Callbacks PROVE SdiInv /\ CallbackWrites(c) => SdiInv'
<1>. SUFFICES ASSUME SdiInv, CallbackWrites(c) PROVE SdiInv'
  OBVIOUS
<1>1. UNCHANGED <<made, mw, known, timedOut, adapter, invoice, req, lost, calls, crashes>>
  BY DEF CallbackWrites, history, records
<1>2. TypeOK
  BY DEF SdiInv
<1>3. PICK s \in Subs, status \in {"SENT", "FAILED"} : SetStatus(s, status) /\ mw[s] = status
  <2>1. hook[c].sub \in Subs /\ hook[c].status \in {"SENT", "FAILED"} /\ mw[hook[c].sub] = hook[c].status
    BY HookOf DEF CallbackWrites
  <2>. QED BY <2>1 DEF CallbackWrites, SetStatus
<1>4. /\ row' \in [Subs -> Row \cup {None}]
      /\ \A u \in Subs \ {s} : row'[u] = row[u]
      /\ row[s] = None => row'[s] = None
      /\ row[s] # None => row'[s] # None /\ row'[s].status = status
  BY <1>3, SetStatusFields
<1>5. \A u \in Subs : row'[u] # None =>
        /\ row[u] # None
        /\ \/ row'[u].status \in {row[u].status, "MOCK_SENT", "PROCESSING"}
           \/ row'[u].status = "SENT" /\ mw[u] \in ReallySent
           \/ row'[u].status = "FAILED" /\ (mw[u] \in {"unseen", "FAILED"} \/ u \in timedOut)
  BY <1>3, <1>4 DEF ReallySent
<1>6. \A t \in Requests : req'[t].at \in Unposted =>
        row'[req'[t].sub] = None \/ row'[req'[t].sub].status \in {"PENDING", "PROCESSING"}
  <2>. SUFFICES ASSUME NEW t \in Requests, req[t].at \in Unposted
                PROVE  row'[req[t].sub] = None \/ row'[req[t].sub].status \in {"PENDING", "PROCESSING"}
    BY <1>1
  <2>1. mw[req[t].sub] = "unseen"
    BY HolderFields DEF Sound
  <2>. QED BY <1>3, <1>4, <2>1, UnpostedRows
<1>7. hook' = [hook EXCEPT ![c] = NoHook]
  BY DEF CallbackWrites
<1>8. \A d \in Callbacks : hook'[d].at # "idle" => hook'[d].sub \in Subs /\ mw[hook'[d].sub] = hook'[d].status
  BY <1>2, <1>7, HookOf DEF TypeOK
<1>9. hook' \in [Callbacks -> [at : {"idle", "read", "write"}, sub : Subs \cup {0}, status : {"SENT", "FAILED"}]]
  BY <1>2, <1>7, HookOf DEF TypeOK
<1>. QED BY <1>1, <1>2, <1>4, <1>5, <1>6, <1>8, <1>9, TableInv DEF TypeOK

LEMMA CallbackDiesInv == ASSUME NEW c \in Callbacks PROVE SdiInv /\ CallbackDies(c) => SdiInv'
<1>. SUFFICES ASSUME SdiInv, CallbackDies(c) PROVE SdiInv'
  OBVIOUS
<1>1. UNCHANGED <<made, mw, known, timedOut, adapter, invoice, row, req, lost, calls>>
  BY DEF CallbackDies, table, history, records
<1>2. TypeOK /\ crashes' \in 0..MaxCrashes
  BY SdiAssumption DEF SdiInv, CallbackDies, TypeOK
<1>3. hook' = [hook EXCEPT ![c] = NoHook]
  BY DEF CallbackDies
<1>4. \A d \in Callbacks : hook'[d].at # "idle" => hook'[d].sub \in Subs /\ mw[hook'[d].sub] = hook'[d].status
  BY <1>2, <1>3, HookOf DEF TypeOK
<1>5. hook' \in [Callbacks -> [at : {"idle", "read", "write"}, sub : Subs \cup {0}, status : {"SENT", "FAILED"}]]
  BY <1>2, <1>3, HookOf DEF TypeOK
<1>. QED BY <1>1, <1>2, <1>4, <1>5, SameRequests, TableInv DEF TypeOK

-----------------------------------------------------------------------------
(***************************************************************************)
(* The middleware: a post, a request cut off in one, and a decision.       *)
(***************************************************************************)

\* What the step does to request u, when the middleware comes to v for s: u is
\* done; it has nothing to do with s, or nothing left to say of it; or it has
\* posted s.
Moves(u, s, v) ==
  \/ req'[u] = Idle
  \/ /\ req'[u] = req[u] /\ (req[u].at \in Unposted => req[u].sub # s)
     /\ req[u].at = "write" /\ req[u].sub = s => req[u].reply # "sent" /\ (req[u].reply = "failed" => s \in timedOut)
  \/ /\ req[u].at = "post" /\ req[u].sub = s /\ req'[u].at = "write" /\ req'[u].sub = s /\ req'[u].inv = req[u].inv
     /\ req'[u].reply = "sent" => v = "sent"
     /\ req'[u].reply = "failed" => v = "unseen" \/ s \in timedOut'

LEMMA MiddlewareInv ==
  ASSUME SdiInv, UNCHANGED <<adapter, invoice, row, made, hook, known, calls>>,
         NEW s \in Subs, NEW v \in Progress, mw' = [mw EXCEPT ![s] = v], s <= made,
         mw[s] \in {"unseen", "working"}, Quiet(s) => s \in timedOut,
         ~Is(s, "SENT"), ~Is(s, "SKIPPED"), Is(s, "FAILED") => s \in timedOut,
         timedOut \subseteq timedOut', timedOut' \subseteq Subs, lost' \subseteq Subs, crashes' \in 0..MaxCrashes,
         req' \in [Requests -> Request],
         \A u \in Requests : Moves(u, s, v)
  PROVE  SdiInv'
<1>1. TypeOK'
  BY DEF SdiInv, TypeOK
<1>2. mw'[s] = v /\ \A x \in Subs \ {s} : mw'[x] = mw[x]
  BY DEF SdiInv, TypeOK
<1>3. Subs \subseteq Nat /\ made \in Nat /\ \A x \in 1..made : x \in Subs
  BY SdiAssumption DEF Subs, SdiInv, TypeOK
<1>4. (RowsSound /\ SentIsSent /\ FailedIsTold)'
  <2>1. RowsSound'
    BY <1>2, <1>3 DEF SdiInv, RowsSound, Is
  <2>2. SentIsSent'
    BY <1>2 DEF SdiInv, SentIsSent, Is
  <2>3. FailedIsTold'
    BY <1>2 DEF SdiInv, FailedIsTold, Is
  <2>. QED BY <2>1, <2>2, <2>3
<1>5. \A u \in Requests : /\ req'[u].at \in Unposted => req'[u] = req[u]
                          /\ req'[u].at \in Holding => req[u].at \in Holding /\ req'[u].sub = req[u].sub
  BY IdleSound DEF Moves, Unposted, Holding
<1>6. Apart'
  BY <1>5 DEF SdiInv, Apart
<1>7. HooksSound'
  BY <1>2, HookOf DEF HooksSound
<1>8. ASSUME NEW S, AllQuiet(S)
      PROVE  /\ AllQuiet(S)'
             /\ \A x \in S : /\ x <= made'
                            /\ \/ x \in timedOut'
                               \/ mw'[x] \in {"unseen", "FAILED"} /\ \A u \in Requests : req'[u].at \in Unposted => req'[u].sub # x
  <2>1. \A x \in S : x <= made' /\ Quiet(x)
    BY <1>8 DEF AllQuiet
  <2>2. ASSUME NEW x \in S, x \notin timedOut', x # s
        PROVE  mw'[x] \in {"unseen", "FAILED"} /\ \A u \in Requests : req'[u].at \in Unposted => req'[u].sub # x
    <3>1. mw[x] \in {"unseen", "FAILED"} /\ \A u \in Requests : req[u].at \in Unposted => req[u].sub # x
      BY <2>1, <2>2 DEF Quiet
    <3>2. mw'[x] = mw[x]
      BY <2>2 DEF SdiInv, TypeOK
    <3>. QED BY <1>5, <3>1, <3>2
  <2>3. ASSUME s \in S, s \notin timedOut'
        PROVE  mw'[s] \in {"unseen", "FAILED"} /\ \A u \in Requests : req'[u].at \in Unposted => req'[u].sub # s
    <3>1. Quiet(s)
      BY <2>1, <2>3
    <3>. QED BY <1>2, <1>5, <2>3, <3>1, IdleSound DEF Moves, Quiet
  <2>4. \A x \in S : /\ x <= made'
                    /\ \/ x \in timedOut'
                       \/ mw'[x] \in {"unseen", "FAILED"} /\ \A u \in Requests : req'[u].at \in Unposted => req'[u].sub # x
    BY <2>1, <2>2, <2>3
  <2>. QED BY <2>4 DEF AllQuiet, Quiet
<1>9. (\A x \in Subs : AllQuiet(known[x]))'
  BY <1>8 DEF SdiInv
<1>10. (\A t \in Requests : Sound(req[t]))'
  <2>. SUFFICES ASSUME NEW t \in Requests PROVE Sound(req[t])'
    OBVIOUS
  <2>1. CASE req'[t] = Idle
    BY <2>1, IdleSound
  <2>2. CASE req'[t] = req[t] /\ req[t].at \in Holding
    <3>1. Sound(req[t]) /\ (req[t].at \in Unposted => req[t].sub # s) /\ req[t].sub \in Subs
      BY <2>2, HolderFields, IdleSound DEF Moves, Holding
    <3>2. CASE req[t].sub # s
      <4>1. mw'[req[t].sub] = mw[req[t].sub]
        BY <1>2, <3>1, <3>2
      <4>. QED BY <2>2, <3>1, <4>1 DEF Sound, Holding, Unposted, Is
    <3>3. CASE req[t].sub = s
      <4>1. req[t].at = "write" /\ req[t].reply # "sent" /\ (req[t].reply = "failed" => s \in timedOut)
        BY <2>2, <3>1, <3>3, IdleSound DEF Moves, Unposted, Holding
      <4>. QED BY <2>2, <3>1, <3>3, <4>1 DEF Sound, Holding, Unposted
    <3>. QED BY <3>2, <3>3
  <2>3. CASE req'[t] = req[t] /\ req[t].at = "create"
    <3>1. Sound(req[t])
      BY HolderFields
    <3>2. PICK S : S = req[t].found /\ AllQuiet(S)
      BY <2>3, <3>1 DEF Sound
    <3>. QED BY <1>8, <2>3, <3>1, <3>2 DEF Sound, Holding, Unposted, AllQuiet, Quiet
  <2>4. CASE req'[t] = req[t] /\ req[t].at \notin Holding /\ req[t].at # "create"
    <3>1. Sound(req[t])
      BY HolderFields
    <3>. QED BY <2>4, <3>1 DEF Sound, Holding, Unposted
  <2>5. CASE /\ req[t].at = "post" /\ req[t].sub = s /\ req'[t].at = "write" /\ req'[t].sub = s /\ req'[t].inv = req[t].inv
             /\ req'[t].reply = "sent" => v = "sent"
             /\ req'[t].reply = "failed" => v = "unseen" \/ s \in timedOut'
    <3>1. Sound(req[t])
      BY HolderFields
    <3>. QED BY <1>2, <2>5, <3>1 DEF Sound, Holding, Unposted
  <2>. QED BY <2>1, <2>2, <2>3, <2>4, <2>5 DEF Moves
<1>. QED BY <1>1, <1>4, <1>6, <1>7, <1>9, <1>10 DEF SdiInv

\* A request that posts has its row to itself, and nothing has happened to it.
LEMMA PostFields ==
  ASSUME SdiInv, NEW t \in Requests, req[t].at = "post"
  PROVE  /\ req[t].sub \in Subs /\ req[t].sub <= made /\ mw[req[t].sub] = "unseen"
         /\ Quiet(req[t].sub) => req[t].sub \in timedOut
         /\ ~Is(req[t].sub, "SENT") /\ ~Is(req[t].sub, "SKIPPED") /\ ~Is(req[t].sub, "FAILED")
         /\ \A u \in Requests \ {t} : req[u].at \in Holding => req[u].sub # req[t].sub
<1>1. req[t].at \in Holding /\ req[t].at \in Unposted
  BY DEF Holding, Unposted
<1>2. req[t].sub \in Subs /\ req[t].sub \in 1..made /\ made \in Nat
  BY <1>1, HolderFields DEF SdiInv, TypeOK
<1>3. mw[req[t].sub] = "unseen"
  BY <1>1, HolderFields DEF Sound
<1>4. Quiet(req[t].sub) => req[t].sub \in timedOut
  BY <1>1 DEF Quiet
<1>5. ~Is(req[t].sub, "SENT") /\ ~Is(req[t].sub, "SKIPPED") /\ ~Is(req[t].sub, "FAILED")
  BY <1>1, UnpostedRows DEF Is
<1>6. \A u \in Requests \ {t} : req[u].at \in Holding => req[u].sub # req[t].sub
  BY <1>1 DEF SdiInv, Apart
<1>. QED BY <1>2, <1>3, <1>4, <1>5, <1>6

LEMMA PostInv == ASSUME NEW t \in Requests PROVE SdiInv /\ Post(t) => SdiInv'
<1>. SUFFICES ASSUME SdiInv, Post(t) PROVE SdiInv'
  OBVIOUS
<1>1. UNCHANGED <<adapter, invoice, row, made, hook, known, lost, calls, crashes>> /\ req[t].at = "post"
  BY DEF Post, table, records
<1>2. TypeOK
  BY DEF SdiInv
<1>3. PICK s \in Subs : s = req[t].sub
  BY <1>1, PostFields
<1>4. PICK v \in {"unseen", "sent", "working"}, r \in {"failed", "sent", "accepted"} :
        /\ mw' = [mw EXCEPT ![s] = v] /\ Replied(t, r)
        /\ r = "sent" => v = "sent"
        /\ r = "failed" => v = "unseen" \/ s \in timedOut'
        /\ timedOut' \in {timedOut, timedOut \cup {s}}
  <2>1. CASE Replied(t, "failed") /\ UNCHANGED <<mw, timedOut>>
    <3>1. mw' = [mw EXCEPT ![s] = "unseen"]
      BY <1>1, <1>2, <1>3, <2>1, PostFields DEF TypeOK
    <3>. QED BY <2>1, <3>1
  <2>2. ASSUME NEW taken \in {"sent", "working"}, mw' = [mw EXCEPT ![s] = taken],
               Replied(t, IF taken = "sent" THEN "sent" ELSE "accepted") /\ UNCHANGED timedOut
        PROVE  \E v \in {"unseen", "sent", "working"}, r \in {"failed", "sent", "accepted"} :
                 /\ mw' = [mw EXCEPT ![s] = v] /\ Replied(t, r)
                 /\ r = "sent" => v = "sent"
                 /\ r = "failed" => v = "unseen" \/ s \in timedOut'
                 /\ timedOut' \in {timedOut, timedOut \cup {s}}
    BY <2>2
  <2>3. ASSUME NEW taken \in {"sent", "working"}, mw' = [mw EXCEPT ![s] = taken],
               Replied(t, "failed") /\ timedOut' = timedOut \cup {s}
        PROVE  \E v \in {"unseen", "sent", "working"}, r \in {"failed", "sent", "accepted"} :
                 /\ mw' = [mw EXCEPT ![s] = v] /\ Replied(t, r)
                 /\ r = "sent" => v = "sent"
                 /\ r = "failed" => v = "unseen" \/ s \in timedOut'
                 /\ timedOut' \in {timedOut, timedOut \cup {s}}
    BY <2>3
  <2>. QED BY <1>3, <2>1, <2>2, <2>3 DEF Post
<1>5. req' \in [Requests -> Request] /\ req'[t] = [req[t] EXCEPT !.at = "write", !.reply = r]
      /\ \A u \in Requests \ {t} : req'[u] = req[u]
  <2>1. [req[t] EXCEPT !.at = "write", !.reply = r] \in Request
    BY HolderFields DEF Request, Replies
  <2>. QED BY <1>2, <1>4, <2>1 DEF Replied, Go, TypeOK
<1>6. req'[t].at = "write" /\ req'[t].reply = r /\ req'[t].sub = s /\ req'[t].inv = req[t].inv
  BY <1>3, <1>5, HolderFields DEF Request
<1>7. \A u \in Requests \ {t} :
        /\ req'[u] = req[u]
        /\ req[u].at \in Unposted => req[u].sub # s
        /\ ~(req[u].at = "write" /\ req[u].sub = s)
  BY <1>1, <1>3, <1>5, PostFields DEF Holding, Unposted
<1>8. timedOut \subseteq timedOut' /\ timedOut' \subseteq Subs /\ v \in Progress
  BY <1>2, <1>4 DEF TypeOK, Progress
<1>9. /\ s <= made /\ mw[s] = "unseen" /\ (Quiet(s) => s \in timedOut)
      /\ ~Is(s, "SENT") /\ ~Is(s, "SKIPPED") /\ (Is(s, "FAILED") => s \in timedOut) /\ mw[s] \in {"unseen", "working"}
  BY <1>1, <1>3, PostFields
<1>10. \A u \in Requests : Moves(u, s, v)
  BY <1>1, <1>3, <1>4, <1>6, <1>7 DEF Moves
<1>11. lost' \subseteq Subs /\ crashes' \in 0..MaxCrashes
  BY <1>1, <1>2 DEF TypeOK
<1>. QED BY <1>1, <1>4, <1>5, <1>8, <1>9, <1>10, <1>11, MiddlewareInv

LEMMA CrashInv == ASSUME NEW t \in Requests PROVE SdiInv /\ Crash(t) => SdiInv'
<1>. SUFFICES ASSUME SdiInv, Crash(t) PROVE SdiInv'
  OBVIOUS
<1>1. UNCHANGED <<adapter, invoice, row, made, hook, known, timedOut, calls>>
  BY DEF Crash, table, records
<1>2. TypeOK /\ crashes' \in 0..MaxCrashes
  <2>1. TypeOK
    BY DEF SdiInv
  <2>2. crashes < MaxCrashes /\ crashes' = crashes + 1
    BY DEF Crash
  <2>. QED BY <2>1, <2>2, SdiAssumption DEF TypeOK
<1>3. lost' \subseteq Subs
  <2>1. req[t].sub \in Subs \cup {0}
    BY HolderFields DEF Request
  <2>. QED BY <1>2, <2>1 DEF Crash, TypeOK
<1>4. req' \in [Requests -> Request] /\ req'[t] = Idle /\ \A u \in Requests \ {t} : req'[u] = req[u]
  BY <1>2, IdleSound DEF Crash, Finish, Go, TypeOK
<1>5. CASE req[t].at = "post"
  <2>1. PICK s \in Subs : s = req[t].sub
    BY <1>5, PostFields
  <2>2. PICK v \in {"unseen", "sent", "working"} : mw' = [mw EXCEPT ![s] = v]
    BY <1>5, <2>1 DEF Crash
  <2>3. /\ s <= made /\ mw[s] = "unseen" /\ (Quiet(s) => s \in timedOut)
        /\ ~Is(s, "SENT") /\ ~Is(s, "SKIPPED") /\ (Is(s, "FAILED") => s \in timedOut) /\ mw[s] \in {"unseen", "working"}
    BY <1>5, <2>1, PostFields
  <2>4. \A u \in Requests \ {t} :
          /\ req'[u] = req[u]
          /\ req[u].at \in Unposted => req[u].sub # s
          /\ ~(req[u].at = "write" /\ req[u].sub = s)
    BY <1>4, <1>5, <2>1, PostFields DEF Holding, Unposted
  <2>5. timedOut' \subseteq Subs /\ v \in Progress
    BY <1>1, <1>2, <2>2 DEF TypeOK, Progress
  <2>6. \A u \in Requests : Moves(u, s, v)
    BY <1>4, <2>4 DEF Moves
  <2>. QED BY <1>1, <1>2, <1>3, <1>4, <2>2, <2>3, <2>5, <2>6, MiddlewareInv
<1>6. CASE req[t].at # "post"
  <2>1. UNCHANGED mw
    BY <1>6 DEF Crash
  <2>2. \A u \in Requests : req'[u].at \in Unposted =>
          row'[req'[u].sub] = None \/ row'[req'[u].sub].status \in {"PENDING", "PROCESSING"}
    BY <1>1, <1>4, IdleSound, UnpostedRows DEF Unposted, Holding
  <2>. QED BY <1>1, <1>2, <1>3, <1>4, <2>1, <2>2, SameHooks, TableInv DEF TypeOK
<1>. QED BY <1>5, <1>6

LEMMA DecideInv == ASSUME NEW s \in Subs PROVE SdiInv /\ Decide(s) => SdiInv'
<1>. SUFFICES ASSUME SdiInv, Decide(s) PROVE SdiInv'
  OBVIOUS
<1>1. UNCHANGED <<adapter, invoice, row, made, hook, known, timedOut, lost, calls, crashes, req>> /\ mw[s] = "working"
  BY DEF Decide, table, records, history
<1>2. TypeOK
  BY DEF SdiInv
<1>3. PICK v \in {"SENT", "FAILED"} : mw' = [mw EXCEPT ![s] = v]
  BY DEF Decide
<1>4. s <= made
  BY <1>1, SdiAssumption DEF SdiInv, RowsSound, TypeOK, Subs
<1>5. Quiet(s) => s \in timedOut
  BY <1>1 DEF Quiet
<1>6. ~Is(s, "SENT") /\ ~Is(s, "SKIPPED") /\ (Is(s, "FAILED") => s \in timedOut)
  BY <1>1 DEF SdiInv, SentIsSent, RowsSound, FailedIsTold, ReallySent
<1>7. \A u \in Requests :
        /\ req[u].at \in Unposted => req[u].sub # s
        /\ req[u].at = "write" /\ req[u].sub = s => req[u].reply # "sent" /\ (req[u].reply = "failed" => s \in timedOut)
  BY <1>1, HolderFields DEF Sound, Unposted, Holding
<1>8. req' \in [Requests -> Request] /\ lost' \subseteq Subs /\ crashes' \in 0..MaxCrashes /\ timedOut' \subseteq Subs
      /\ v \in Progress
  BY <1>1, <1>2 DEF TypeOK, Progress
<1>9. \A u \in Requests : Moves(u, s, v)
  BY <1>1, <1>7 DEF Moves
<1>. QED BY <1>1, <1>3, <1>4, <1>5, <1>6, <1>8, <1>9, MiddlewareInv

-----------------------------------------------------------------------------
(***************************************************************************)
(* A new submission.                                                       *)
(***************************************************************************)

\* The insert that fails.
LEMMA CreateFailsInv ==
  ASSUME NEW t \in Requests, SdiInv, Finish(t),
         UNCHANGED <<made, mw, known, timedOut, adapter, invoice, row, hook, lost, calls, crashes>>
  PROVE  SdiInv'
<1>1. TypeOK
  BY DEF SdiInv
<1>2. req' \in [Requests -> Request] /\ req'[t] = Idle /\ \A u \in Requests \ {t} : req'[u] = req[u]
  BY <1>1, IdleSound DEF Finish, Go, TypeOK
<1>3. \A u \in Requests : req'[u].at \in Unposted =>
        row'[req'[u].sub] = None \/ row'[req'[u].sub].status \in {"PENDING", "PROCESSING"}
  BY <1>2, IdleSound, UnpostedRows DEF Unposted, Holding
<1>. QED BY <1>1, <1>2, <1>3, SameHooks, TableInv DEF TypeOK

LEMMA CreatedInv ==
  ASSUME SdiInv, NEW t \in Requests, NEW next \in Request, Go(t, next), req[t].at = "create",
         UNCHANGED <<adapter, invoice, hook, mw, timedOut, lost, calls, crashes>>,
         NEW s \in Subs, s = made + 1, made' = s,
         NEW status \in {"SKIPPED", "PENDING"}, row' = [row EXCEPT ![s] = [inv |-> req[t].inv, status |-> status]],
         NEW S, S = req[t].found, known' = [known EXCEPT ![s] = S],
         \/ next = Idle
         \/ next.at \in {"mock", "start"} /\ next.sub = s /\ next.inv \in Invoices /\ status = "PENDING"
  PROVE  SdiInv'
<1>1. TypeOK /\ req[t] \in Request /\ req[t].inv \in Invoices /\ AllQuiet(S)
  <2>1. Sound(req[t])
    BY HolderFields
  <2>. QED BY <2>1, HolderFields DEF SdiInv, Sound
<1>2. Subs \subseteq Nat /\ made \in Nat /\ made' \in 0..MaxSubs /\ \A x \in 1..made : x \in Subs /\ x # s
  BY <1>1, SdiAssumption DEF Subs, TypeOK
<1>3. mw[s] = "unseen"
  BY <1>2 DEF SdiInv, RowsSound
<1>4. /\ row' \in [Subs -> Row \cup {None}] /\ row'[s] # None /\ row'[s].status = status
      /\ \A x \in Subs \ {s} : row'[x] = row[x]
  <2>1. [inv |-> req[t].inv, status |-> status] \in Row
    BY <1>1 DEF Row
  <2>. QED BY <1>1, <2>1, NoneAssumption DEF TypeOK
<1>5. req' \in [Requests -> Request] /\ req'[t] = next /\ \A u \in Requests \ {t} : req'[u] = req[u]
  BY GoFields
<1>6. known' \in [Subs -> SUBSET Subs] /\ known'[s] = S /\ \A x \in Subs \ {s} : known'[x] = known[x]
  BY <1>1 DEF TypeOK, Request
<1>7. TypeOK'
  BY <1>1, <1>2, <1>4, <1>5, <1>6 DEF TypeOK
<1>8. (RowsSound /\ SentIsSent /\ FailedIsTold)'
  <2>a. mw' = mw
    OBVIOUS
  <2>b. RowsSound
    BY DEF SdiInv
  <2>c. ASSUME NEW x \in Subs, x > made' PROVE row'[x] = None /\ mw'[x] = "unseen"
    <3>1. x > made /\ x # s
      BY <1>2, <2>c
    <3>. QED BY <1>4, <2>a, <2>b, <3>1 DEF RowsSound
  <2>d. ASSUME NEW x \in Subs, row'[x] # None, row'[x].status = "SKIPPED" PROVE mw'[x] = "unseen"
    BY <1>3, <1>4, <2>a, <2>b, <2>d DEF RowsSound, Is
  <2>1. RowsSound'
    BY <2>c, <2>d DEF RowsSound, Is
  <2>2. SentIsSent'
    BY <1>4 DEF SdiInv, SentIsSent, Is
  <2>3. FailedIsTold'
    BY <1>3, <1>4 DEF SdiInv, FailedIsTold, Is
  <2>. QED BY <2>1, <2>2, <2>3
<1>9. \A u \in Requests :
        /\ req'[u].at \in Holding =>
             \/ u = t /\ req'[u].sub = s
             \/ u # t /\ req[u].at \in Holding /\ req'[u].sub = req[u].sub /\ req[u].sub # s
        /\ req'[u].at \in Unposted => req'[u].sub = s \/ (req[u].at \in Unposted /\ req'[u].sub = req[u].sub)
  <2>1. req'[t].at \in Holding => req'[t].sub = s
    BY <1>5, IdleSound DEF Holding
  <2>2. ASSUME NEW u \in Requests, u # t, req[u].at \in Holding PROVE req[u].sub # s
    BY <1>2, <2>2, HolderFields
  <2>. QED BY <1>5, <2>1, <2>2 DEF Unposted
<1>10. Apart'
  BY <1>9 DEF SdiInv, Apart
<1>11. HooksSound'
  BY DEF SdiInv, HooksSound
<1>12. ASSUME NEW Q \in SUBSET Subs, AllQuiet(Q)
      PROVE  /\ AllQuiet(Q)'
             /\ \A x \in Q : /\ x <= made'
                            /\ \/ x \in timedOut'
                               \/ mw'[x] \in {"unseen", "FAILED"} /\ \A u \in Requests : req'[u].at \in Unposted => req'[u].sub # x
  <2>1. \A x \in Q : /\ x <= made
                    /\ \/ x \in timedOut
                       \/ mw[x] \in {"unseen", "FAILED"} /\ \A u \in Requests : req[u].at \in Unposted => req[u].sub # x
    BY <1>12 DEF AllQuiet, Quiet
  <2>2. ASSUME NEW x \in Q
        PROVE  /\ x <= made'
               /\ \/ x \in timedOut'
                  \/ mw'[x] \in {"unseen", "FAILED"} /\ \A u \in Requests : req'[u].at \in Unposted => req'[u].sub # x
    <3>1. x <= made
      BY <2>1
    <3>2. x # s /\ x <= made'
      BY <1>2, <3>1
    <3>3. UNCHANGED <<timedOut, mw>>
      OBVIOUS
    <3>. QED BY <1>9, <2>1, <3>2, <3>3
  <2>. QED BY <2>2 DEF AllQuiet, Quiet
<1>13. (\A x \in Subs : AllQuiet(known[x]))'
  <2>1. S \in SUBSET Subs /\ \A x \in Subs : known[x] \in SUBSET Subs /\ AllQuiet(known[x])
    BY <1>1 DEF SdiInv, TypeOK, Request
  <2>. QED BY <1>1, <1>6, <1>12, <2>1
<1>14. (\A u \in Requests : Sound(req[u]))'
  <2>. SUFFICES ASSUME NEW u \in Requests PROVE Sound(req[u])'
    OBVIOUS
  <2>1. CASE req'[u] = Idle
    BY <2>1, IdleSound
  <2>2. CASE u = t /\ next.at \in {"mock", "start"} /\ next.sub = s /\ next.inv \in Invoices /\ status = "PENDING"
    <3>1. req'[u] = next /\ s \in 1..made' /\ mw'[s] = "unseen"
      BY <1>2, <1>3, <1>5, <2>2 DEF Subs
    <3>. QED BY <1>4, <2>2, <3>1 DEF Sound, Holding, Unposted, Is
  <2>3. CASE u # t /\ req[u].at \in Holding
    <3>1. req'[u] = req[u] /\ Sound(req[u]) /\ req[u].sub \in 1..made /\ req[u].sub \in Subs
      BY <1>5, <2>3, HolderFields
    <3>2. row'[req[u].sub] = row[req[u].sub] /\ req[u].sub \in 1..made'
      BY <1>2, <1>4, <3>1
    <3>. QED BY <2>3, <3>1, <3>2 DEF Sound, Holding, Unposted, Is
  <2>4. CASE u # t /\ req[u].at = "create"
    <3>1. req'[u] = req[u] /\ Sound(req[u])
      BY <1>5, <2>4, HolderFields
    <3>2. PICK Q \in SUBSET Subs : Q = req[u].found /\ AllQuiet(Q)
      BY <2>4, <3>1, HolderFields DEF Sound, Request
    <3>. QED BY <1>12, <2>4, <3>1, <3>2 DEF Sound, Holding, Unposted, AllQuiet, Quiet
  <2>5. CASE u # t /\ req[u].at \notin Holding /\ req[u].at # "create"
    <3>1. req'[u] = req[u] /\ Sound(req[u])
      BY <1>5, <2>5, HolderFields
    <3>. QED BY <2>5, <3>1 DEF Sound, Holding, Unposted
  <2>. QED BY <1>5, <2>1, <2>2, <2>3, <2>4, <2>5
<1>. QED BY <1>7, <1>8, <1>10, <1>11, <1>13, <1>14 DEF SdiInv

LEMMA CreateInv == ASSUME NEW t \in Requests PROVE SdiInv /\ Create(t) => SdiInv'
<1>. SUFFICES ASSUME SdiInv, Create(t) PROVE SdiInv'
  OBVIOUS
<1>1. UNCHANGED <<adapter, invoice, hook, mw, timedOut, lost, calls, crashes>> /\ req[t].at = "create"
  BY DEF Create, records
<1>2. CASE invoice[req[t].inv] = "gone"
  <2>1. Finish(t) /\ UNCHANGED <<row, made, known>>
    BY <1>2 DEF Create, table
  <2>. QED BY <1>1, <2>1, CreateFailsInv
<1>3. CASE invoice[req[t].inv] # "gone"
  <2>1. PICK p : p = req[t] /\ p \in Request /\ p.inv \in Invoices
    BY <1>1, HolderFields
  <2>2. PICK s : s = made + 1
    OBVIOUS
  <2>3. s \in Subs /\ made' = s
    BY <1>3, <2>2, SdiAssumption DEF Create, SdiInv, TypeOK, Subs
  <2>4. PICK status \in {"SKIPPED", "PENDING"} :
          /\ status = (IF p.adapter = "OFF" THEN "SKIPPED" ELSE "PENDING")
          /\ row' = [row EXCEPT ![s] = [inv |-> req[t].inv, status |-> status]]
    BY <1>3, <2>1, <2>2 DEF Create
  <2>5. PICK S : S = req[t].found /\ known' = [known EXCEPT ![s] = S]
    BY <1>3, <2>2 DEF Create
  <2>6. PICK next : next = CASE p.adapter = "OFF" -> Idle
                             [] p.adapter = "MOCK" -> [p EXCEPT !.at = "mock", !.sub = s]
                             [] OTHER -> [p EXCEPT !.at = "start", !.sub = s]
    OBVIOUS
  <2>7. Go(t, next)
    BY <1>3, <2>1, <2>2, <2>6 DEF Create, Go
  <2>8. /\ next \in Request
        /\ \/ next = Idle
           \/ next.at \in {"mock", "start"} /\ next.sub = s /\ next.inv \in Invoices /\ status = "PENDING"
    <3>1. CASE p.adapter = "OFF"
      BY <2>6, <3>1, IdleSound
    <3>2. CASE p.adapter = "MOCK"
      BY <2>1, <2>3, <2>4, <2>6, <3>2 DEF Request
    <3>3. CASE p.adapter # "OFF" /\ p.adapter # "MOCK"
      BY <2>1, <2>3, <2>4, <2>6, <3>3 DEF Request
    <3>. QED BY <3>1, <3>2, <3>3
  <2>. QED BY <1>1, <2>2, <2>3, <2>4, <2>5, <2>7, <2>8, CreatedInv
<1>. QED BY <1>2, <1>3

-----------------------------------------------------------------------------
(***************************************************************************)
(* The theorems.                                                           *)
(***************************************************************************)

LEMMA StutterInv == SdiInv /\ UNCHANGED vars => SdiInv'
<1>. SUFFICES ASSUME SdiInv, UNCHANGED vars PROVE SdiInv'
  OBVIOUS
<1>1. UNCHANGED <<made, mw, known, timedOut, adapter, invoice, row, req, hook, lost, calls, crashes>>
  BY DEF vars
<1>2. TypeOK
  BY DEF SdiInv
<1>. QED BY <1>1, <1>2, SameRequests, SameHooks, TableInv DEF TypeOK

LEMMA NextInv == SdiInv /\ [Next]_vars => SdiInv'
<1>. SUFFICES ASSUME SdiInv, Next PROVE SdiInv'
  BY StutterInv
<1>1. CASE SetAdapter
  BY <1>1, SetAdapterInv
<1>2. ASSUME NEW i \in Invoices, Void(i) \/ Delete(i) PROVE SdiInv'
  BY <1>2, VoidInv, DeleteInv
<1>3. ASSUME NEW t \in Requests, Ask(t) \/ RequestStep(t) \/ Crash(t) PROVE SdiInv'
  BY <1>3, AskInv, LookInv, CreateInv, MockInv, StartInv, PostInv, WriteInv, CrashInv DEF RequestStep
<1>4. ASSUME NEW s \in Subs, Decide(s) \/ Report(s) \/ ReportAgain(s) PROVE SdiInv'
  BY <1>4, DecideInv, CallbackBeginsInv DEF Report, ReportAgain
<1>5. ASSUME NEW c \in Callbacks, CallbackStep(c) \/ CallbackDies(c) PROVE SdiInv'
  BY <1>5, CallbackReadsInv, CallbackWritesInv, CallbackDiesInv DEF CallbackStep
<1>. QED BY <1>1, <1>2, <1>3, <1>4, <1>5 DEF Next

\* The inductive invariant holds: a request that has still to post has its row
\* to itself, and what a request or a callback is about to write is what the
\* middleware has said.
THEOREM SdiInvariant == Spec => []SdiInv
BY InitInv, NextInv, PTL DEF Spec

\* A submission is never SENT unless the middleware has sent it, whatever
\* requests, callbacks, retries and crashes come between.
THEOREM SentSubmissionsAreSent == Spec => []SentIsSent
<1>1. SdiInv => SentIsSent
  BY DEF SdiInv
<1>. QED BY <1>1, SdiInvariant, PTL

\* A submission is never FAILED while the middleware has it, unless it said so
\* or its reply was lost.
THEOREM FailuresAreTold == Spec => []FailedIsTold
<1>1. SdiInv => FailedIsTold
  BY DEF SdiInv
<1>. QED BY <1>1, SdiInvariant, PTL

\* Two submissions of one invoice are both sent only if the reply for the first
\* was lost, or neither was under way when the requests looked.
THEOREM DuplicatesAreExplained == Spec => []SentTwiceIsExplained
<1>1. SdiInv => SentTwiceIsExplained
  <2>. SUFFICES ASSUME SdiInv, NEW s \in Subs, NEW u \in Subs, mw[s] \in ReallySent, s \in known[u]
                PROVE  s \in timedOut
    BY DEF SentTwiceIsExplained
  <2>1. Quiet(s)
    BY DEF SdiInv, AllQuiet
  <2>. QED BY <2>1 DEF Quiet, ReallySent
<1>. QED BY <1>1, SdiInvariant, PTL

-----------------------------------------------------------------------------
(***************************************************************************)
(* One request at a time.                                                  *)
(***************************************************************************)

\* A step that makes no row, no lookup and no PENDING row.
RowsOnlySettle ==
  \A s \in Subs : row'[s] # None =>
    /\ row[s] # None /\ row'[s].inv = row[s].inv
    /\ row'[s].status = "PENDING" => row[s].status = "PENDING"

\* What request t is now at is not PENDING now.
NotPending(t) == row'[req'[t].sub] = None \/ row'[req'[t].sub].status # "PENDING"

RequestsGoOn ==
  \A t \in Requests :
    /\ req'[t].at \in Unposted => req[t].at \in Unposted /\ req'[t].sub = req[t].sub
    /\ req'[t].at = "post" => req[t].at = "post" \/ NotPending(t)
    /\ req'[t].at = "create" => req'[t] = req[t]

OnlyPostedAreTaken ==
  \A s \in Subs : mw'[s] = mw[s] \/ mw[s] # "unseen" \/ \E t \in Requests : req[t].at = "post" /\ req[t].sub = s

LEMMA SerialKept ==
  ASSUME SdiInv, SerialInv, RowsOnlySettle, RequestsGoOn, OnlyPostedAreTaken, known' = known
  PROVE  SerialInv'
<1>1. ASSUME NEW s \in Subs, Dormant(s) PROVE Dormant(s)'
  <2>1. mw'[s] = "unseen"
    BY <1>1 DEF OnlyPostedAreTaken, Dormant, Unposted, Holding
  <2>2. \A t \in Requests : req'[t].at \in Unposted => req'[t].sub # s
    BY <1>1 DEF RequestsGoOn, Dormant
  <2>. QED BY <2>1, <2>2 DEF Dormant
<1>2. ASSUME NEW s \in Subs, Is(s, "PENDING")' PROVE mw'[s] = "unseen" /\ Is(s, "PENDING")
  <2>1. Is(s, "PENDING")
    BY <1>2 DEF RowsOnlySettle, Is
  <2>2. mw[s] = "unseen" /\ \A t \in Requests : ~(req[t].at = "post" /\ req[t].sub = s)
    BY <2>1 DEF SerialInv
  <2>. QED BY <2>1, <2>2 DEF OnlyPostedAreTaken
<1>3. ASSUME NEW t \in Requests, req'[t].at = "post" PROVE NotPending(t)
  <2>1. CASE req[t].at = "post"
    <3>1. req[t].sub \in Subs
      BY <2>1, PostFields
    <3>2. ~Is(req[t].sub, "PENDING")
      BY <2>1 DEF SerialInv
    <3>3. req'[t].sub = req[t].sub
      BY <1>3 DEF RequestsGoOn, Unposted, Holding
    <3>. QED BY <3>1, <3>2, <3>3 DEF NotPending, RowsOnlySettle, Is
  <2>2. CASE req[t].at # "post"
    BY <1>3, <2>2 DEF RequestsGoOn
  <2>. QED BY <2>1, <2>2
<1>4. ASSUME NEW t \in Requests, req'[t].at = "create", NEW s \in SubsOf(req[t].inv)'
      PROVE  s \in req'[t].found \/ Dormant(s)'
  <2>1. req'[t] = req[t] /\ req[t].at = "create"
    BY <1>4 DEF RequestsGoOn
  <2>2. s \in Subs /\ s \in SubsOf(req[t].inv)
    BY <1>4, <2>1 DEF RowsOnlySettle, SubsOf
  <2>. QED BY <2>1, <2>2, <1>1 DEF SerialInv
<1>5. ASSUME NEW s \in Subs, NEW u \in Subs, s < u, row'[s] # None, row'[u] # None, row'[s].inv = row'[u].inv
      PROVE  s \in known'[u] \/ Dormant(s)'
  <2>1. row[s] # None /\ row[u] # None /\ row[s].inv = row[u].inv
    BY <1>5 DEF RowsOnlySettle
  <2>. QED BY <1>1, <1>5, <2>1 DEF SerialInv
<1>6. \A t \in Requests : (req[t].at = "post" => ~Is(req[t].sub, "PENDING"))'
  BY <1>3 DEF NotPending, Is
<1>. QED BY <1>2, <1>4, <1>5, <1>6 DEF SerialInv

\* Steps of the settings, the middleware and the callbacks.
LEMMA OutsideKeepsSerial ==
  ASSUME SdiInv, SerialInv,
         \/ SetAdapter \/ UNCHANGED vars
         \/ \E i \in Invoices : Void(i) \/ Delete(i)
         \/ \E s \in Subs : Decide(s) \/ Report(s) \/ ReportAgain(s)
         \/ \E c \in Callbacks : CallbackStep(c) \/ CallbackDies(c)
  PROVE  SerialInv'
<1>1. req' = req /\ known' = known
  BY DEF SetAdapter, Void, Delete, Decide, Report, ReportAgain, CallbackBegins, CallbackStep, CallbackReads,
     CallbackWrites, CallbackDies, history, vars
<1>2. RowsOnlySettle
  <2>1. CASE UNCHANGED row
    BY <2>1 DEF RowsOnlySettle
  <2>2. ASSUME NEW i \in Invoices, Delete(i) PROVE RowsOnlySettle
    BY <2>2 DEF Delete, RowsOnlySettle
  <2>3. ASSUME NEW c \in Callbacks, CallbackWrites(c) PROVE RowsOnlySettle
    <3>1. hook[c].sub \in Subs /\ hook[c].status \in {"SENT", "FAILED"} /\ SetStatus(hook[c].sub, hook[c].status)
      BY <2>3, HookOf DEF CallbackWrites
    <3>2. PICK status : status = hook[c].status
      OBVIOUS
    <3>. QED BY <3>1, <3>2 DEF RowsOnlySettle, SetStatus, SdiInv, TypeOK, Row
  <2>. QED BY <2>1, <2>2, <2>3 DEF SetAdapter, Void, Decide, Report, ReportAgain, CallbackBegins, CallbackStep,
       CallbackReads, CallbackDies, table, vars
<1>3. OnlyPostedAreTaken
  <2>1. CASE UNCHANGED mw
    BY <2>1 DEF OnlyPostedAreTaken
  <2>2. ASSUME NEW s \in Subs, Decide(s) PROVE OnlyPostedAreTaken
    BY <2>2 DEF Decide, OnlyPostedAreTaken, SdiInv, TypeOK
  <2>. QED BY <2>1, <2>2 DEF SetAdapter, Void, Delete, Report, ReportAgain, CallbackBegins, CallbackStep,
       CallbackReads, CallbackWrites, CallbackDies, vars
<1>4. RequestsGoOn
  BY <1>1 DEF RequestsGoOn
<1>. QED BY <1>1, <1>2, <1>3, <1>4, SerialKept

\* The steps of a request but its lookup and its insert.
LEMMA RequestKeepsSerial ==
  ASSUME SdiInv, SerialInv, NEW t \in Requests,
         Ask(t) \/ Mock(t) \/ Start(t) \/ Post(t) \/ Write(t) \/ Crash(t)
  PROVE  SerialInv'
<1>1. known' = known
  BY DEF Ask, Mock, Start, Post, Write, Crash, history
<1>2. RowsOnlySettle
  <2>1. CASE UNCHANGED row
    BY <2>1 DEF RowsOnlySettle
  <2>2. ASSUME NEW s, NEW status \in {"PROCESSING", "MOCK_SENT", "FAILED", "SENT"}, SetStatus(s, status)
        PROVE  RowsOnlySettle
    BY <2>2 DEF RowsOnlySettle, SetStatus, SdiInv, TypeOK, Row
  <2>. QED BY <2>1, <2>2 DEF Ask, Mock, Start, Post, Write, Crash, table
<1>3. OnlyPostedAreTaken
  <2>1. CASE UNCHANGED mw
    BY <2>1 DEF OnlyPostedAreTaken
  <2>2. CASE req[t].at = "post" /\ \E v : mw' = [mw EXCEPT ![req[t].sub] = v]
    BY <2>2 DEF OnlyPostedAreTaken, SdiInv, TypeOK
  <2>3. CASE Post(t)
    BY <2>1, <2>2, <2>3 DEF Post
  <2>4. CASE Crash(t)
    BY <2>1, <2>2, <2>4 DEF Crash
  <2>. QED BY <2>1, <2>3, <2>4 DEF Ask, Mock, Start, Write
<1>4. req[t] \in Request /\ \A u \in Requests \ {t} : req'[u] = req[u]
  BY DEF Ask, Mock, Start, Post, Write, Crash, Go, Finish, Replied, SdiInv, TypeOK
<1>5. /\ req'[t].at \in Unposted => req[t].at \in Unposted /\ req'[t].sub = req[t].sub
      /\ req'[t].at = "post" => NotPending(t)
      /\ req'[t].at # "create"
  <2>1. CASE Ask(t)
    BY <2>1 DEF Ask, Go, Idle, SdiInv, TypeOK, Unposted, Holding
  <2>2. CASE Finish(t)
    BY <2>2 DEF Finish, Go, Idle, SdiInv, TypeOK, Unposted, Holding
  <2>3. CASE Start(t)
    <3>1. CASE row[req[t].sub] = None
      BY <2>2, <2>3, <3>1 DEF Start, Finish
    <3>2. CASE row[req[t].sub] # None
      <4>1. req'[t] = [req[t] EXCEPT !.at = "post"]
        BY <2>3, <3>2 DEF Start, Go, SdiInv, TypeOK
      <4>2. req'[t].at = "post" /\ req'[t].sub = req[t].sub /\ req[t].at \in Unposted
        BY <2>3, <1>4, <4>1 DEF Start, Request, Unposted, Holding
      <4>3. req[t].sub \in Subs
        BY <4>2, UnpostedRows
      <4>4. row'[req[t].sub].status = "PROCESSING"
        BY <2>3, <3>2, <4>3 DEF Start, SetStatus, SdiInv, TypeOK, Row
      <4>. QED BY <4>2, <4>4 DEF NotPending
    <3>. QED BY <3>1, <3>2
  <2>4. CASE \E reply : Replied(t, reply)
    <3>1. PICK reply : req'[t] = [req[t] EXCEPT !.at = "write", !.reply = reply]
      BY <2>4 DEF Replied, Go, SdiInv, TypeOK
    <3>2. req'[t].at = "write"
      BY <3>1, <1>4 DEF Request
    <3>. QED BY <3>2 DEF Unposted
  <2>. QED BY <2>1, <2>2, <2>3, <2>4 DEF Mock, Post, Write, Crash
<1>6. RequestsGoOn
  BY <1>4, <1>5 DEF RequestsGoOn
<1>. QED BY <1>1, <1>2, <1>3, <1>6, SerialKept

\* The lookup: what it does not find is PENDING, left by a request that is gone.
LEMMA LookKeepsSerial ==
  ASSUME SdiInv, SerialInv, OneAtATime, NEW t \in Requests, Look(t)
  PROVE  SerialInv'
<1>. DEFINE p == req[t]
            found == {s \in SubsOf(p.inv) : ~Is(s, "PENDING")}
            n == [p EXCEPT !.at = "create", !.found = found]
<1>1. p \in Request /\ p.at = "look" /\ UNCHANGED <<row, mw, known>>
  BY DEF Look, SdiInv, TypeOK, table, history
<1>2. n.at = "create" /\ n.inv = p.inv /\ n.found = found
  BY <1>1 DEF Request
<1>3. req' = [req EXCEPT ![t] = Idle] \/ req' = [req EXCEPT ![t] = n]
  BY DEF Look, Go
<1>4. \A u \in Requests \ {t} : req[u].at = "idle" /\ req'[u] = req[u]
  BY <1>1, <1>3 DEF OneAtATime, SdiInv, TypeOK
<1>5. req'[t] = Idle \/ req'[t] = n
  BY <1>3 DEF SdiInv, TypeOK
<1>6. \A u \in Requests : req'[u].at \notin Unposted /\ req[u].at \notin Unposted
  <2>1. ASSUME NEW u \in Requests \ {t} PROVE req'[u].at \notin Unposted /\ req[u].at \notin Unposted
    BY <1>4 DEF Unposted, Holding
  <2>2. req[t].at \notin Unposted
    BY <1>1 DEF Unposted, Holding
  <2>3. req'[t].at \notin Unposted
    <3>. HIDE DEF n
    <3>. QED BY <1>2, <1>5 DEF Idle, Unposted, Holding
  <2>. QED BY <2>1, <2>2, <2>3
<1>7. ASSUME NEW s \in Subs, mw[s] = "unseen" PROVE Dormant(s)'
  BY <1>1, <1>6, <1>7 DEF Dormant
<1>8. ASSUME NEW u \in Requests, req'[u].at = "create", NEW s \in SubsOf(req[u].inv)'
      PROVE  s \in req'[u].found \/ Dormant(s)'
  <2>1. u = t /\ req'[u] = n
    BY <1>4, <1>5, <1>8 DEF Idle
  <2>2. s \in SubsOf(p.inv) /\ s \in Subs
    BY <1>1, <1>2, <1>8, <2>1 DEF SubsOf
  <2>3. CASE Is(s, "PENDING")
    BY <1>7, <2>2, <2>3 DEF SerialInv
  <2>4. CASE ~Is(s, "PENDING")
    BY <1>2, <2>1, <2>2, <2>4
  <2>. QED BY <2>3, <2>4
<1>9. ASSUME NEW s \in Subs, NEW u \in Subs, s < u, row[s] # None, row[u] # None, row[s].inv = row[u].inv
      PROVE  s \in known[u] \/ Dormant(s)'
  <2>1. s \in known[u] \/ mw[s] = "unseen"
    BY <1>9 DEF SerialInv, Dormant
  <2>. QED BY <2>1, <1>7
<1>10. \A u \in Requests : req'[u].at # "post"
  BY <1>6 DEF Unposted, Holding
<1>11. \A s \in Subs : Is(s, "PENDING")' => mw'[s] = "unseen"
  BY <1>1 DEF SerialInv, Is
<1>. HIDE DEF n
<1>. QED BY <1>1, <1>8, <1>9, <1>10, <1>11 DEF SerialInv

\* The insert: the new submission has not been posted, and knows the others of
\* its invoice by its lookup.
LEMMA CreateKeepsSerial ==
  ASSUME SdiInv, SerialInv, OneAtATime, NEW t \in Requests, Create(t)
  PROVE  SerialInv'
<1>. DEFINE p == req[t]
            s == made + 1
<1>1. p \in Request /\ p.at = "create" /\ mw' = mw
  BY DEF Create, SdiInv, TypeOK
<1>2. CASE invoice[p.inv] = "gone"
  <2>1. Finish(t) /\ UNCHANGED <<row, known>>
    BY <1>2 DEF Create, table
  <2>2. RowsOnlySettle /\ OnlyPostedAreTaken
    BY <1>1, <2>1 DEF RowsOnlySettle, OnlyPostedAreTaken
  <2>3. RequestsGoOn
    BY <2>1 DEF RequestsGoOn, Finish, Go, Idle, SdiInv, TypeOK, Unposted, Holding
  <2>. QED BY <2>1, <2>2, <2>3, SerialKept
<1>3. CASE invoice[p.inv] # "gone"
  <2>. DEFINE new == [inv |-> p.inv, status |-> IF p.adapter = "OFF" THEN "SKIPPED" ELSE "PENDING"]
  <2>1. /\ made < MaxSubs /\ row' = [row EXCEPT ![s] = new] /\ known' = [known EXCEPT ![s] = p.found]
    BY <1>3 DEF Create
  <2>2. s \in Subs /\ made \in Nat
    BY <2>1, SdiAssumption DEF SdiInv, TypeOK, Subs
  <2>3. mw[s] = "unseen" /\ row[s] = None
    BY <2>2 DEF SdiInv, RowsSound
  <2>4. /\ row'[s] = new /\ new.inv = p.inv /\ known'[s] = p.found
        /\ \A u \in Subs \ {s} : row'[u] = row[u] /\ known'[u] = known[u]
    BY <2>1, <2>2 DEF SdiInv, TypeOK
  <2>5. PICK n : /\ Go(t, n) /\ n.at # "create" /\ n.at # "post" /\ (n.at \in Unposted => n.sub = s)
    <3>1. Idle.at # "create" /\ Idle.at # "post" /\ Idle.at \notin Unposted
      BY DEF Idle, Unposted, Holding
    <3>2. \A at \in {"mock", "start"} : LET n == [p EXCEPT !.at = at, !.sub = s] IN n.at = at /\ n.sub = s
      BY <1>1 DEF Request
    <3>3. \/ Go(t, Idle) \/ Go(t, [p EXCEPT !.at = "mock", !.sub = s])
          \/ Go(t, [p EXCEPT !.at = "start", !.sub = s])
      BY <1>3 DEF Create
    <3>. QED BY <3>1, <3>2, <3>3
  <2>6. req'[t] = n /\ \A u \in Requests \ {t} : req'[u] = req[u] /\ req[u].at = "idle"
    <3>1. req' = [req EXCEPT ![t] = n]
      BY <2>5 DEF Go
    <3>2. \A u \in Requests \ {t} : req[u].at = "idle"
      BY <1>1 DEF OneAtATime
    <3>. QED BY <3>1, <3>2 DEF SdiInv, TypeOK
  <2>7. ASSUME NEW u \in Subs, u # s, mw[u] = "unseen" PROVE Dormant(u)'
    <3>1. ASSUME NEW v \in Requests, req'[v].at \in Unposted PROVE req'[v].sub = s
      <4>1. v = t
        BY <2>6, <3>1 DEF Unposted, Holding
      <4>. QED BY <2>5, <2>6, <3>1, <4>1
    <3>. QED BY <1>1, <2>7, <3>1 DEF Dormant
  <2>8. \A u \in Subs : Is(u, "PENDING")' => mw'[u] = "unseen"
    <3>. SUFFICES ASSUME NEW u \in Subs, Is(u, "PENDING")' PROVE mw[u] = "unseen"
      BY <1>1
    <3>1. CASE u = s
      BY <2>3, <3>1
    <3>2. CASE u # s
      BY <2>4, <3>2 DEF SerialInv, Is
    <3>. QED BY <3>1, <3>2
  <2>9. \A u \in Requests : req'[u].at # "create" /\ req'[u].at # "post"
    BY <2>5, <2>6
  <2>10. ASSUME NEW u \in Subs, NEW v \in Subs, u < v, row'[u] # None, row'[v] # None, row'[u].inv = row'[v].inv
         PROVE  u \in known'[v] \/ Dormant(u)'
    <3>1. u <= made /\ u # s /\ row'[u] = row[u]
      <4>1. v <= s
        BY <2>2, <2>4, <2>10 DEF SdiInv, RowsSound, Subs
      <4>2. u # s /\ u <= made
        BY <4>1, <2>2, <2>10 DEF Subs
      <4>. QED BY <4>2, <2>4
    <3>2. CASE v = s
      <4>1. u \in SubsOf(p.inv)
        BY <2>4, <2>10, <3>1, <3>2 DEF SubsOf
      <4>2. u \in p.found \/ Dormant(u)
        BY <1>1, <4>1 DEF SerialInv
      <4>. QED BY <2>4, <2>7, <3>1, <3>2, <4>2 DEF Dormant
    <3>3. CASE v # s
      <4>1. u \in known[v] \/ Dormant(u)
        BY <2>4, <2>10, <3>1, <3>3 DEF SerialInv
      <4>. QED BY <2>4, <2>7, <3>1, <3>3, <4>1 DEF Dormant
    <3>. QED BY <3>2, <3>3
  <2>. QED BY <2>8, <2>9, <2>10 DEF SerialInv
<1>. QED BY <1>2, <1>3

LEMMA SerialNext == SdiInv /\ SerialInv /\ OneAtATime /\ [Next]_vars => SerialInv'
BY OutsideKeepsSerial, RequestKeepsSerial, LookKeepsSerial, CreateKeepsSerial DEF Next, RequestStep

\* While enqueue requests do not overlap, the middleware sends an invoice twice
\* only if the reply to the first post was lost: enqueue's look at the earlier
\* submissions is enough, however callbacks, crashes and deletions come between.
THEOREM SerialSentOnce == Spec /\ []OneAtATime => []SentTwiceIsLost
<1>1. Init => SerialInv
  BY DEF Init, SerialInv, Idle, Is, Unposted, Holding
<1>2. SdiInv /\ SerialInv => SentTwiceIsLost
  <2>. SUFFICES ASSUME SdiInv, SerialInv, NEW s \in Subs, NEW u \in Subs, s < u, row[s] # None, row[u] # None,
                       row[s].inv = row[u].inv, mw[s] \in ReallySent
                PROVE  s \in timedOut
    BY DEF SentTwiceIsLost
  <2>1. s \in known[u]
    BY DEF SerialInv, Dormant, ReallySent
  <2>2. Quiet(s)
    BY <2>1 DEF SdiInv, AllQuiet
  <2>. QED BY <2>2 DEF Quiet, ReallySent
<1>. QED BY <1>1, <1>2, SerialNext, SdiInvariant, PTL DEF Spec
=============================================================================
