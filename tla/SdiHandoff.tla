------------------------------- MODULE SdiHandoff -------------------------------
(***************************************************************************)
(* The hand-off of issued invoices to the middleware of the exchange: the  *)
(* requests that look, create a row and post, and the callbacks by which   *)
(* the middleware reports an outcome it did not have at once.  Both read,  *)
(* decide and write by id, each in statements of its own.                  *)
(***************************************************************************)
EXTENDS Naturals

CONSTANTS
  Invoices,
  Requests,        \* enqueue requests in flight at the same time
  Callbacks,       \* callbacks in flight at the same time
  Adapters,        \* the settings of the company: see AllAdapters
  MaxSubs,         \* bound: submissions ever created
  MaxCalls,        \* bound: enqueue requests
  MaxCrashes,      \* bound: requests and callbacks that die between two steps
  None             \* null

\* NOURL is HTTP without an address.
AllAdapters == {"MOCK", "HTTP", "NOURL", "OFF"}

ASSUME SdiAssumption ==
  /\ Adapters \subseteq AllAdapters
  /\ MaxSubs \in Nat /\ MaxCalls \in Nat /\ MaxCrashes \in Nat
  /\ None \notin Invoices

VARIABLES
  adapter,    \* Company.sdiAdapter, with sdiHttpUrl
  invoice,    \* the status of each invoice that was issued
  row,        \* SdiInvoiceSubmission: the row of each id, or None
  made,       \* rows created so far
  req,        \* what each enqueue request is doing
  hook,       \* what each callback is doing
  mw,         \* outside: what the middleware has done with each submission
  known,      \* history: the submissions, but for PENDING ones, that the lookup for each one found
  timedOut,   \* history: submissions the middleware took although their post failed here
  lost,       \* history: submissions whose request died and that no callback will settle
  calls, crashes

vars == <<adapter, invoice, row, made, req, hook, mw, known, timedOut, lost, calls, crashes>>

Subs == 1..MaxSubs
Row == [inv : Invoices, status : {"PENDING", "PROCESSING", "MOCK_SENT", "SKIPPED", "FAILED", "SENT"}]
Blocking == {"MOCK_SENT", "SENT", "PROCESSING"}
Settled == {"MOCK_SENT", "SKIPPED", "FAILED", "SENT"}

\* The middleware has not taken a submission, has sent it at once, works on it
\* to call back later, or has the outcome it will call back with.
Progress == {"unseen", "sent", "working", "SENT", "FAILED"}
ReallySent == {"sent", "SENT"}

Idle == [at |-> "idle", inv |-> None, adapter |-> "OFF", sub |-> 0, reply |-> "none", found |-> {}]
Replies == {"none", "accepted", "sent", "failed"}
NoHook == [at |-> "idle", sub |-> 0, status |-> "SENT"]

\* Null is not a row.
ASSUME NoneAssumption == None \notin Row

Is(s, status) == row[s] # None /\ row[s].status = status
SubsOf(i) == {s \in Subs : row[s] # None /\ row[s].inv = i}

Init ==
  /\ adapter \in Adapters
  /\ invoice = [i \in Invoices |-> "ISSUED"]
  /\ row = [s \in Subs |-> None] /\ made = 0
  /\ req = [t \in Requests |-> Idle]
  /\ hook = [c \in Callbacks |-> NoHook]
  /\ mw = [s \in Subs |-> "unseen"]
  /\ known = [s \in Subs |-> {}] /\ timedOut = {} /\ lost = {}
  /\ calls = 0 /\ crashes = 0

Go(t, next) == req' = [req EXCEPT ![t] = next]
Finish(t) == Go(t, Idle)

records == <<adapter, invoice>>
table == <<row, made>>
history == <<known, timedOut, lost>>

\* Others change the settings, void an invoice, or delete one they still took
\* for a draft: its submissions go with it.
SetAdapter ==
  /\ adapter' \in Adapters \ {adapter}
  /\ UNCHANGED <<invoice, table, req, hook, mw, history, calls, crashes>>

Void(i) ==
  /\ invoice[i] = "ISSUED" /\ invoice' = [invoice EXCEPT ![i] = "VOID"]
  /\ UNCHANGED <<adapter, table, req, hook, mw, history, calls, crashes>>

Delete(i) ==
  /\ invoice[i] # "gone" /\ invoice' = [invoice EXCEPT ![i] = "gone"]
  /\ row' = [s \in Subs |-> IF s \in SubsOf(i) THEN None ELSE row[s]]
  /\ UNCHANGED <<adapter, made, req, hook, mw, history, calls, crashes>>

(***************************************************************************)
(* enqueue                                                                 *)
(***************************************************************************)

\* The invoice is read with its company; both are used to the end.
Ask(t) ==
  \E i \in Invoices :
    /\ req[t].at = "idle" /\ calls < MaxCalls /\ calls' = calls + 1
    /\ invoice[i] = "ISSUED"
    /\ Go(t, [Idle EXCEPT !.at = "look", !.inv = i, !.adapter = adapter])
    /\ UNCHANGED <<records, table, hook, mw, history, crashes>>

\* Mutant: a submission under way does not block another.
LookPastProcessing(t) ==
  LET p == req[t] IN
  /\ p.at = "look"
  /\ Go(t, IF p.adapter = "NOURL" \/ \E s \in SubsOf(p.inv) : row[s].status \in Blocking \ {"PROCESSING"} THEN Idle
           ELSE [p EXCEPT !.at = "create", !.found = {s \in SubsOf(p.inv) : ~Is(s, "PENDING")}])
  /\ UNCHANGED <<records, table, hook, mw, history, calls, crashes>>

\* A submission that is under way or sent is a conflict; HTTP needs an address.
Look(t) ==
  LET p == req[t] IN
  /\ p.at = "look"
  /\ Go(t, IF p.adapter = "NOURL" \/ \E s \in SubsOf(p.inv) : row[s].status \in Blocking THEN Idle
           ELSE [p EXCEPT !.at = "create", !.found = {s \in SubsOf(p.inv) : ~Is(s, "PENDING")}])
  /\ UNCHANGED <<records, table, hook, mw, history, calls, crashes>>

\* The insert fails when the invoice has gone.
Create(t) ==
  LET p == req[t]  s == made + 1 IN
  /\ p.at = "create"
  /\ IF invoice[p.inv] = "gone" THEN Finish(t) /\ UNCHANGED <<table, known>>
     ELSE /\ made < MaxSubs /\ made' = s
          /\ row' = [row EXCEPT ![s] = [inv |-> p.inv, status |-> IF p.adapter = "OFF" THEN "SKIPPED" ELSE "PENDING"]]
          /\ known' = [known EXCEPT ![s] = p.found]
          /\ Go(t, CASE p.adapter = "OFF" -> Idle
                     [] p.adapter = "MOCK" -> [p EXCEPT !.at = "mock", !.sub = s]
                     [] OTHER -> [p EXCEPT !.at = "start", !.sub = s])
  /\ UNCHANGED <<records, hook, mw, timedOut, lost, calls, crashes>>

\* update by id; it fails, and the request with it, when the row has gone.
SetStatus(s, status) == row' = IF row[s] = None THEN row ELSE [row EXCEPT ![s].status = status]

Mock(t) ==
  /\ req[t].at = "mock" /\ SetStatus(req[t].sub, "MOCK_SENT") /\ Finish(t)
  /\ UNCHANGED <<records, made, hook, mw, history, calls, crashes>>

Start(t) ==
  LET s == req[t].sub IN
  /\ req[t].at = "start" /\ SetStatus(s, "PROCESSING")
  /\ Go(t, IF row[s] = None THEN Idle ELSE [req[t] EXCEPT !.at = "post"])
  /\ UNCHANGED <<records, made, hook, mw, history, calls, crashes>>

Replied(t, reply) == Go(t, [req[t] EXCEPT !.at = "write", !.reply = reply])

\* Mutant: 202 counts as sent.
PostOptimistic(t) ==
  LET s == req[t].sub IN
  /\ req[t].at = "post"
  /\ \/ Replied(t, "failed") /\ UNCHANGED <<mw, timedOut>>
     \/ \E taken \in {"sent", "working"} : mw' = [mw EXCEPT ![s] = taken] /\ Replied(t, "sent") /\ UNCHANGED timedOut
  /\ UNCHANGED <<records, table, hook, known, lost, calls, crashes>>

\* The middleware refuses or does not get it; has sent it; takes it and will
\* call back (202); or the reply is lost.
Post(t) ==
  LET s == req[t].sub IN
  /\ req[t].at = "post"
  /\ \/ Replied(t, "failed") /\ UNCHANGED <<mw, timedOut>>
     \/ \E taken \in {"sent", "working"} :
          /\ mw' = [mw EXCEPT ![s] = taken]
          /\ \/ Replied(t, IF taken = "sent" THEN "sent" ELSE "accepted") /\ UNCHANGED timedOut
             \/ Replied(t, "failed") /\ timedOut' = timedOut \cup {s}
  /\ UNCHANGED <<records, table, hook, known, lost, calls, crashes>>

\* Mutant: what is not sent has failed.
WriteSentOrFailed(t) ==
  LET s == req[t].sub IN
  /\ req[t].at = "write" /\ Finish(t)
  /\ SetStatus(s, IF req[t].reply = "sent" THEN "SENT" ELSE "FAILED")
  /\ UNCHANGED <<records, made, hook, mw, history, calls, crashes>>

\* Unconditional, but that a 202 leaves the status alone: a callback may have
\* been faster.
Write(t) ==
  LET s == req[t].sub IN
  /\ req[t].at = "write" /\ Finish(t)
  /\ CASE req[t].reply = "sent" -> SetStatus(s, "SENT")
       [] req[t].reply = "failed" -> SetStatus(s, "FAILED")
       [] OTHER -> UNCHANGED row
  /\ UNCHANGED <<records, made, hook, mw, history, calls, crashes>>

(***************************************************************************)
(* The middleware and its callback.                                        *)
(***************************************************************************)

Decide(s) ==
  /\ mw[s] = "working" /\ \E outcome \in {"SENT", "FAILED"} : mw' = [mw EXCEPT ![s] = outcome]
  /\ UNCHANGED <<records, table, req, hook, history, calls, crashes>>

CallbackBegins(c, s) ==
  /\ hook[c].at = "idle" /\ mw[s] \in {"SENT", "FAILED"}
  /\ hook' = [hook EXCEPT ![c] = [at |-> "read", sub |-> s, status |-> mw[s]]]
  /\ UNCHANGED <<records, table, req, mw, history, calls, crashes>>

\* The middleware reports until it is answered; here, while the row is not
\* settled, which is when the answer matters to anybody.
Report(s) == Is(s, "PROCESSING") /\ \E c \in Callbacks : CallbackBegins(c, s)

\* A callback that comes twice, or late.
ReportAgain(s) == row[s] # None /\ row[s].status \in Settled /\ \E c \in Callbacks : CallbackBegins(c, s)

\* Mutant: only a row that nobody has started on goes on.
CallbackReadsPending(c) ==
  /\ hook[c].at = "read"
  /\ hook' = [hook EXCEPT ![c] = IF Is(hook[c].sub, "PENDING") THEN [@ EXCEPT !.at = "write"] ELSE NoHook]
  /\ UNCHANGED <<records, table, req, mw, history, calls, crashes>>

\* What agrees with the row is answered, what contradicts it is refused: only a
\* row under way goes on.
CallbackReads(c) ==
  LET s == hook[c].sub IN
  /\ hook[c].at = "read"
  /\ hook' = [hook EXCEPT ![c] = IF Is(s, "PENDING") \/ Is(s, "PROCESSING") THEN [@ EXCEPT !.at = "write"] ELSE NoHook]
  /\ UNCHANGED <<records, table, req, mw, history, calls, crashes>>

\* The transaction is read committed: the row may have changed since.
CallbackWrites(c) ==
  /\ hook[c].at = "write" /\ SetStatus(hook[c].sub, hook[c].status) /\ hook' = [hook EXCEPT ![c] = NoHook]
  /\ UNCHANGED <<records, made, req, mw, history, calls, crashes>>

\* The API dies, or the database fails it.  A post that is cut off may have
\* reached the middleware.
Crash(t) ==
  LET s == req[t].sub IN
  /\ req[t].at # "idle" /\ crashes < MaxCrashes /\ crashes' = crashes + 1
  /\ Finish(t)
  /\ \E taken \in IF req[t].at = "post" THEN {"unseen", "sent", "working"} ELSE {"as it is"} :
       mw' = IF taken = "as it is" THEN mw ELSE [mw EXCEPT ![s] = taken]
  /\ lost' = IF s # 0 /\ mw'[s] \in {"unseen", "sent"} THEN lost \cup {s} ELSE lost
  /\ UNCHANGED <<records, table, hook, known, timedOut, calls>>

CallbackDies(c) ==
  /\ hook[c].at # "idle" /\ crashes < MaxCrashes /\ crashes' = crashes + 1
  /\ hook' = [hook EXCEPT ![c] = NoHook]
  /\ UNCHANGED <<records, table, req, mw, history, calls>>

RequestStep(t) == Look(t) \/ Create(t) \/ Mock(t) \/ Start(t) \/ Post(t) \/ Write(t)
CallbackStep(c) == CallbackReads(c) \/ CallbackWrites(c)

Next ==
  \/ SetAdapter
  \/ \E i \in Invoices : Void(i) \/ Delete(i)
  \/ \E t \in Requests : Ask(t) \/ RequestStep(t) \/ Crash(t)
  \/ \E s \in Subs : Decide(s) \/ Report(s) \/ ReportAgain(s)
  \/ \E c \in Callbacks : CallbackStep(c) \/ CallbackDies(c)

Spec == Init /\ [][Next]_vars

\* Requests and callbacks go on, and the middleware does what a 202 promises:
\* it decides, and reports until it is heard.
FairSpec ==
  /\ Spec
  /\ \A t \in Requests : WF_vars(RequestStep(t))
  /\ \A c \in Callbacks : WF_vars(CallbackStep(c))
  /\ \A s \in Subs : WF_vars(Decide(s)) /\ SF_vars(Report(s))

-----------------------------------------------------------------------------
(***************************************************************************)
(* Properties.                                                             *)
(***************************************************************************)

Request == [at : {"idle", "look", "create", "mock", "start", "post", "write"}, inv : Invoices \cup {None},
            adapter : AllAdapters, sub : Subs \cup {0}, reply : Replies, found : SUBSET Subs]

\* Every variable keeps its shape.
TypeOK ==
  /\ adapter \in Adapters
  /\ invoice \in [Invoices -> {"ISSUED", "VOID", "gone"}]
  /\ row \in [Subs -> Row \cup {None}]
  /\ made \in 0..MaxSubs
  /\ req \in [Requests -> Request]
  /\ hook \in [Callbacks -> [at : {"idle", "read", "write"}, sub : Subs \cup {0}, status : {"SENT", "FAILED"}]]
  /\ mw \in [Subs -> Progress]
  /\ known \in [Subs -> SUBSET Subs] /\ timedOut \subseteq Subs /\ lost \subseteq Subs
  /\ calls \in 0..MaxCalls /\ crashes \in 0..MaxCrashes

\* A submission is SENT only if the middleware has sent it.
SentIsSent == \A s \in Subs : Is(s, "SENT") => mw[s] \in ReallySent

\* A submission is FAILED although the middleware took it only if the
\* middleware has failed it, or its reply was lost.
FailedIsTold == \A s \in Subs : Is(s, "FAILED") => mw[s] \in {"unseen", "FAILED"} \/ s \in timedOut

\* Of two submissions of an invoice that the middleware has both sent, the later
\* was made although the earlier was known only if its reply had been lost:
\* otherwise the two requests looked before either was under way.
SentTwiceIsExplained ==
  \A s, u \in Subs :
    s < u /\ row[s] # None /\ row[u] # None /\ row[s].inv = row[u].inv /\ {mw[s], mw[u]} \subseteq ReallySent =>
      s \in timedOut \/ s \notin known[u]

\* A submission the middleware has taken settles, even if the request that
\* posted it dies; only one whose request died and that the middleware will
\* not call back for is left for good.
HandoffSettles ==
  \A s \in Subs : row[s] # None ~> (row[s] = None \/ row[s].status \in Settled \/ s \in lost)

-----------------------------------------------------------------------------
(***************************************************************************)
(* The inductive invariant.                                                *)
(***************************************************************************)

Holding == {"mock", "start", "post", "write"}
Unposted == Holding \ {"write"}

\* Nothing has happened to ids not given out, and what is skipped is not posted.
RowsSound ==
  /\ \A s \in Subs : s > made => row[s] = None /\ mw[s] = "unseen"
  /\ \A s \in Subs : Is(s, "SKIPPED") => mw[s] = "unseen"

\* The middleware will never send this one, unless a reply of it was lost.
Quiet(s) ==
  \/ s \in timedOut
  \/ mw[s] \in {"unseen", "FAILED"} /\ \A t \in Requests : req[t].at \in Unposted => req[t].sub # s

AllQuiet(S) == \A s \in S : s <= made /\ Quiet(s)

\* A request works on a row of its own; until it has posted the row is not
\* settled, and what it will write is what the middleware has said.
Sound(p) ==
  /\ p.at \in Holding => p.sub \in 1..made
  /\ p.at \in Unposted => mw[p.sub] = "unseen" /\ (row[p.sub] = None \/ Is(p.sub, "PENDING") \/ Is(p.sub, "PROCESSING"))
  /\ p.at = "write" /\ p.reply = "sent" => mw[p.sub] = "sent"
  /\ p.at = "write" /\ p.reply = "failed" => mw[p.sub] = "unseen" \/ p.sub \in timedOut
  /\ p.at = "create" => AllQuiet(p.found)
  /\ p.at # "idle" => p.inv \in Invoices

Apart ==
  \A t, u \in Requests : req[t].at \in Holding /\ req[u].at \in Holding /\ req[t].sub = req[u].sub => t = u

\* A callback says what the middleware has decided.
HooksSound == \A c \in Callbacks : hook[c].at # "idle" => hook[c].sub \in Subs /\ mw[hook[c].sub] = hook[c].status

SdiInv ==
  /\ TypeOK /\ RowsSound /\ Apart /\ HooksSound
  /\ \A t \in Requests : Sound(req[t])
  /\ \A s \in Subs : AllQuiet(known[s])
  /\ SentIsSent /\ FailedIsTold

-----------------------------------------------------------------------------
(***************************************************************************)
(* Enqueue requests one after the other; callbacks still come at any time. *)
(***************************************************************************)

\* No enqueue request begins while another is under way.
OneAtATime == \A t, u \in Requests : req[t].at # "idle" /\ req[u].at # "idle" => t = u

\* The middleware has sent two submissions of an invoice only if its reply to
\* the earlier one was lost.
SentTwiceIsLost ==
  \A s, u \in Subs :
    s < u /\ row[s] # None /\ row[u] # None /\ row[s].inv = row[u].inv /\ {mw[s], mw[u]} \subseteq ReallySent =>
      s \in timedOut

\* Nobody has posted this submission, and nobody will.
Dormant(s) == mw[s] = "unseen" /\ \A t \in Requests : req[t].at \in Unposted => req[t].sub # s

\* The lookup for a submission has found every earlier one of its invoice that
\* may have been posted; one that is PENDING has not been.
SerialInv ==
  /\ \A s \in Subs : Is(s, "PENDING") => mw[s] = "unseen"
  /\ \A t \in Requests : req[t].at = "post" => ~Is(req[t].sub, "PENDING")
  /\ \A t \in Requests : req[t].at = "create" =>
       \A s \in SubsOf(req[t].inv) : s \in req[t].found \/ Dormant(s)
  /\ \A s, u \in Subs :
       s < u /\ row[s] # None /\ row[u] # None /\ row[s].inv = row[u].inv => s \in known[u] \/ Dormant(s)
=============================================================================
