--------------------------- MODULE CustomerDocuments ---------------------------
(***************************************************************************)
(* Customers and their identity documents: the row in the database, the    *)
(* object in storage, the suggestion read off the document by OCR, and     *)
(* what of it staff applies to the customer.  Requests, the OCR cron, its  *)
(* callback and the retention purge read, decide and write by id, each in  *)
(* statements of its own.                                                  *)
(***************************************************************************)
EXTENDS Naturals

CONSTANTS
  Customers,
  Docs,            \* document ids, each given out once
  Requests,        \* requests and OCR callbacks in flight at the same time
  Modes,           \* the values of STORAGE_MODE to consider, among LOCAL and S3
  MaxCalls,        \* bound: requests and callbacks
  MaxFaults,       \* bound: processes that die, storage and database errors
  None             \* null

ASSUME DocumentsAssumption ==
  /\ Modes \subseteq {"LOCAL", "S3"} /\ Modes # {}
  /\ MaxCalls \in Nat /\ MaxFaults \in Nat
  /\ None \notin Customers /\ None \notin Docs

VARIABLES
  mode,       \* STORAGE_MODE
  customer,   \* the row of each customer, or None
  doc,        \* CustomerDocument: the row of each id, or None
  blob,       \* outside: the documents whose object is in storage
  url,        \* outside: the documents whose presigned PUT is still good
  spent,      \* the ids given out
  req,        \* what each request or callback is doing
  cron,       \* the batch of the OCR cron
  purge,      \* the batch of the retention purge
  used,       \* history: the suggestion staff has applied, 0 for none
  raced,      \* history: documents written to, by who had read them before, around an apply
  rewritten,  \* history: customers an apply, or an edit begun earlier, filled after they were anonymised
  orphaned,   \* history: documents whose row went without their object
  broken,     \* history: documents whose object went without their row
  calls, faults

vars == <<mode, customer, doc, blob, url, spent, req, cron, purge, used, raced, rewritten, orphaned, broken, calls, faults>>

Suggestions == 1..2
Customer == [name : {"personal", "redacted"}, anonymized : BOOLEAN]
Document == [cust : Customers, done : BOOLEAN, expired : BOOLEAN, applied : BOOLEAN,
             ocr : {"NONE", "PENDING", "READY", "FAILED"}, sug : Suggestions \cup {0}]
Idle == [at |-> "idle", doc |-> None, cust |-> None, into |-> None, sug |-> 0, known |-> FALSE, moved |-> {}]
NoBatch == [at |-> "idle", found |-> {}, doc |-> None]

\* Null is not a row.
ASSUME NoneAssumption == None \notin Customer /\ None \notin Document

New(c, done) == [cust |-> c, done |-> done, expired |-> FALSE, applied |-> FALSE, ocr |-> "NONE", sug |-> 0]
DocsOf(c) == {d \in Docs : doc[d] # None /\ doc[d].cust = c}

Init ==
  /\ mode \in Modes
  /\ customer = [c \in Customers |-> [name |-> "personal", anonymized |-> FALSE]]
  /\ doc = [d \in Docs |-> None] /\ blob = {} /\ url = {} /\ spent = {}
  /\ req = [t \in Requests |-> Idle]
  /\ cron = NoBatch /\ purge = NoBatch
  /\ used = [d \in Docs |-> 0]
  /\ raced = {} /\ rewritten = {} /\ orphaned = {} /\ broken = {}
  /\ calls = 0 /\ faults = 0

store == <<blob, url, spent>>
batches == <<cron, purge>>
history == <<used, raced, rewritten, orphaned, broken>>

Go(t, next) == req' = [req EXCEPT ![t] = next]
Finish(t) == Go(t, Idle)
At(t, step) == req[t].at = step

\* A request begins: its first read, and what it goes on to.
Ask(t, next) ==
  /\ At(t, "idle") /\ calls < MaxCalls /\ calls' = calls + 1
  /\ Go(t, next)

Fault == faults < MaxFaults /\ faults' = faults + 1

(***************************************************************************)
(* Uploads.                                                                *)
(***************************************************************************)

\* upload: the file is written first.
Upload(t) ==
  \E c \in Customers, d \in Docs \ spent :
    /\ mode = "LOCAL" /\ customer[c] # None
    /\ Ask(t, [Idle EXCEPT !.at = "insert", !.doc = d, !.cust = c])
    /\ spent' = spent \cup {d} /\ blob' = blob \cup {d}
    /\ UNCHANGED <<mode, customer, doc, url, batches, history, faults>>

\* Its customer may have gone: then the file is removed again.
Insert(t) ==
  LET d == req[t].doc  c == req[t].cust IN
  /\ At(t, "insert")
  /\ IF customer[c] = None THEN blob' = blob \ {d} /\ Finish(t) /\ UNCHANGED doc
     ELSE doc' = [doc EXCEPT ![d] = New(c, TRUE)] /\ Go(t, [req[t] EXCEPT !.at = "queue"]) /\ UNCHANGED blob
  /\ UNCHANGED <<mode, customer, url, spent, batches, history, calls, faults>>

\* createPresignedUpload: the row comes first, and the client puts the object.
Presign(t) ==
  \E c \in Customers, d \in Docs \ spent :
    /\ mode = "S3" /\ customer[c] # None
    /\ Ask(t, Idle)
    /\ spent' = spent \cup {d} /\ url' = url \cup {d}
    /\ doc' = [doc EXCEPT ![d] = New(c, FALSE)]
    /\ UNCHANGED <<mode, customer, blob, batches, history, faults>>

ClientPuts(d) ==
  /\ d \in url /\ blob' = blob \cup {d}
  /\ orphaned' = IF doc[d] = None THEN orphaned \cup {d} ELSE orphaned
  /\ UNCHANGED <<mode, customer, doc, url, spent, req, batches, used, raced, rewritten, broken, calls, faults>>

UrlLapses(d) ==
  /\ d \in url /\ url' = url \ {d}
  /\ UNCHANGED <<mode, customer, doc, blob, spent, req, batches, history, calls, faults>>

\* completePresignedUpload: the object is asked for after the row was read.
AskComplete(t) ==
  \E d \in Docs :
    /\ mode = "S3" /\ doc[d] # None /\ ~doc[d].done
    /\ Ask(t, [Idle EXCEPT !.at = "head", !.doc = d])
    /\ UNCHANGED <<mode, customer, doc, store, batches, history, faults>>

\* Mutant: the object is not asked for.
HeadSkipped(t) ==
  /\ At(t, "head")
  /\ Go(t, [req[t] EXCEPT !.at = "complete"])
  /\ UNCHANGED <<mode, customer, doc, store, batches, history, calls, faults>>

\* An object of a wrong size is removed, and its row with it.
Head(t) ==
  /\ At(t, "head")
  /\ IF req[t].doc \notin blob THEN Finish(t)
     ELSE \E next \in {"complete", "shred"} : Go(t, [req[t] EXCEPT !.at = next])
  /\ UNCHANGED <<mode, customer, doc, store, batches, history, calls, faults>>

Complete(t) ==
  LET d == req[t].doc IN
  /\ At(t, "complete")
  /\ IF doc[d] = None THEN Finish(t) /\ UNCHANGED doc
     ELSE doc' = [doc EXCEPT ![d].done = TRUE] /\ Go(t, [req[t] EXCEPT !.at = "queue"])
  /\ UNCHANGED <<mode, customer, store, batches, history, calls, faults>>

(***************************************************************************)
(* maybeQueuePendingOcr, the last part of both uploads.                    *)
(***************************************************************************)

Queue(t) ==
  LET d == req[t].doc IN
  /\ At(t, "queue")
  /\ Go(t, [req[t] EXCEPT !.at = IF doc[d] = None \/ doc[d].applied THEN "return" ELSE "pend"])
  /\ UNCHANGED <<mode, customer, doc, store, batches, history, calls, faults>>

\* Any error of a local upload removes its file.
Pend(t) ==
  LET d == req[t].doc IN
  /\ At(t, "pend")
  /\ IF doc[d] = None
     THEN Finish(t) /\ blob' = (IF mode = "LOCAL" THEN blob \ {d} ELSE blob) /\ UNCHANGED doc
     ELSE /\ doc' = [doc EXCEPT ![d].ocr = "PENDING", ![d].sug = 0]
          /\ Go(t, [req[t] EXCEPT !.at = "return"]) /\ UNCHANGED blob
  /\ UNCHANGED <<mode, customer, url, spent, batches, history, calls, faults>>

Return(t) ==
  LET d == req[t].doc IN
  /\ At(t, "return") /\ Finish(t)
  /\ blob' = IF mode = "LOCAL" /\ doc[d] = None THEN blob \ {d} ELSE blob
  /\ UNCHANGED <<mode, customer, doc, url, spent, batches, history, calls, faults>>

\* The database fails after the insert: the file goes, and the row stays.
UploadFails(t) ==
  LET d == req[t].doc IN
  /\ mode = "LOCAL" /\ req[t].at \in {"queue", "pend", "return"} /\ Fault /\ Finish(t)
  /\ blob' = blob \ {d} /\ broken' = broken \cup {d}
  /\ UNCHANGED <<mode, customer, doc, url, spent, batches, used, raced, rewritten, orphaned, calls>>

(***************************************************************************)
(* remove: the object first, then the row.                                 *)
(***************************************************************************)

\* Mutant: the row goes first.
AskRemoveRowFirst(t) ==
  \E d \in Docs :
    /\ doc[d] # None
    /\ Ask(t, [Idle EXCEPT !.at = "shred", !.doc = d])
    /\ doc' = [doc EXCEPT ![d] = None]
    /\ UNCHANGED <<mode, customer, store, batches, history, faults>>

AskRemove(t) ==
  \E d \in Docs :
    /\ doc[d] # None
    /\ Ask(t, [Idle EXCEPT !.at = "shred", !.doc = d])
    /\ UNCHANGED <<mode, customer, doc, store, batches, history, faults>>

Shred(t) ==
  /\ At(t, "shred")
  /\ blob' = blob \ {req[t].doc}
  /\ Go(t, [req[t] EXCEPT !.at = "drop"])
  /\ UNCHANGED <<mode, customer, doc, url, spent, batches, history, calls, faults>>

\* An error of the bucket ends the request; one of the disk is ignored.
ShredFails(t) ==
  LET d == req[t].doc IN
  /\ At(t, "shred") /\ Fault
  /\ IF mode = "S3" THEN Finish(t) /\ UNCHANGED orphaned
     ELSE Go(t, [req[t] EXCEPT !.at = "drop"]) /\ orphaned' = orphaned \cup {d}
  /\ UNCHANGED <<mode, customer, doc, store, batches, used, raced, rewritten, broken, calls>>

\* The object may have been put again since it was removed.
DropRow(d) ==
  /\ doc' = [doc EXCEPT ![d] = None]
  /\ orphaned' = IF d \in blob THEN orphaned \cup {d} ELSE orphaned

Drop(t) ==
  /\ At(t, "drop") /\ DropRow(req[t].doc) /\ Finish(t)
  /\ UNCHANGED <<mode, customer, store, batches, used, raced, rewritten, broken, calls, faults>>

(***************************************************************************)
(* Suggestions: the demo run, the cron and the callback.                   *)
(***************************************************************************)

\* persistVendorOcrResult, and the update that records a failure.
Ready(d) == \E s \in Suggestions : doc' = [doc EXCEPT ![d].ocr = "READY", ![d].sug = s]
Failed(d) == doc' = [doc EXCEPT ![d].ocr = "FAILED", ![d].sug = 0]

\* Mutant: a document whose suggestion was applied is read again.
AskMockAgain(t) ==
  \E d \in Docs :
    /\ doc[d] # None /\ doc[d].done
    /\ Ask(t, [Idle EXCEPT !.at = "mock", !.doc = d])
    /\ UNCHANGED <<mode, customer, doc, store, batches, history, faults>>

\* runMockOcr
AskMock(t) ==
  \E d \in Docs :
    /\ doc[d] # None /\ doc[d].done /\ ~doc[d].applied
    /\ Ask(t, [Idle EXCEPT !.at = "mock", !.doc = d])
    /\ UNCHANGED <<mode, customer, doc, store, batches, history, faults>>

Mock(t) ==
  /\ At(t, "mock") /\ Finish(t)
  /\ IF doc[req[t].doc] = None THEN UNCHANGED doc ELSE Ready(req[t].doc)
  /\ UNCHANGED <<mode, customer, store, batches, history, calls, faults>>

\* dismissOcrSuggestion
AskDismiss(t) ==
  \E d \in Docs :
    /\ doc[d] # None /\ ~doc[d].applied
    /\ Ask(t, [Idle EXCEPT !.at = "dismiss", !.doc = d])
    /\ UNCHANGED <<mode, customer, doc, store, batches, history, faults>>

Dismiss(t) ==
  LET d == req[t].doc IN
  /\ At(t, "dismiss") /\ Finish(t)
  /\ doc' = IF doc[d] = None THEN doc ELSE [doc EXCEPT ![d].ocr = "NONE", ![d].sug = 0]
  /\ UNCHANGED <<mode, customer, store, batches, history, calls, faults>>

\* completeOcrFromAsyncWorker takes PENDING documents only.
AskCallback(t) ==
  \E d \in Docs :
    /\ doc[d] # None /\ doc[d].done /\ ~doc[d].applied /\ doc[d].ocr = "PENDING"
    /\ Ask(t, [Idle EXCEPT !.at = "callback", !.doc = d])
    /\ UNCHANGED <<mode, customer, doc, store, batches, history, faults>>

Callback(t) ==
  LET d == req[t].doc IN
  /\ At(t, "callback") /\ Finish(t)
  /\ IF doc[d] = None THEN UNCHANGED doc ELSE Ready(d) \/ Failed(d)
  /\ UNCHANGED <<mode, customer, store, batches, history, calls, faults>>

\* processPendingOcrMockBatch and processPendingOcrHttpBatch: the rows are read
\* at once and handled one after the other.
CronFinds ==
  LET waiting == {d \in Docs : doc[d] # None /\ doc[d].done /\ ~doc[d].applied /\ doc[d].ocr = "PENDING"} IN
  /\ cron.at = "idle" /\ waiting # {}
  /\ cron' = [NoBatch EXCEPT !.at = "pick", !.found = {<<d, doc[d].cust>> : d \in waiting}]
  /\ UNCHANGED <<mode, customer, doc, store, req, purge, history, calls, faults>>

\* A customer that has gone, by a merge perhaps, makes it a failure.
CronPicks ==
  /\ cron.at = "pick"
  /\ IF cron.found = {} THEN cron' = NoBatch
     ELSE \E f \in cron.found :
            cron' = [at |-> IF customer[f[2]] = None THEN "fail" ELSE "write", found |-> cron.found \ {f}, doc |-> f[1]]
  /\ UNCHANGED <<mode, customer, doc, store, req, purge, history, calls, faults>>

\* The batch is done with a document.
NextRow == cron' = [cron EXCEPT !.at = "pick", !.doc = None]

\* Mutant: a failed row is left for the next batch.
CronWritesReadyOnly ==
  /\ cron.at \in {"write", "fail"}
  /\ IF doc[cron.doc] = None THEN cron' = NoBatch /\ UNCHANGED doc
     ELSE \/ cron.at = "write" /\ Ready(cron.doc) /\ cron' = [cron EXCEPT !.at = "audit"]
          \/ NextRow /\ UNCHANGED doc
  /\ UNCHANGED <<mode, customer, store, req, purge, history, calls, faults>>

\* The adapter may fail.  A row that has gone ends the batch.
CronWrites ==
  /\ cron.at \in {"write", "fail"}
  /\ IF doc[cron.doc] = None THEN cron' = NoBatch /\ UNCHANGED doc
     ELSE \/ cron.at = "write" /\ Ready(cron.doc) /\ cron' = [cron EXCEPT !.at = "audit"]
          \/ Failed(cron.doc) /\ NextRow
  /\ UNCHANGED <<mode, customer, store, req, purge, history, calls, faults>>

CronAudits ==
  /\ cron.at = "audit" /\ NextRow
  /\ UNCHANGED <<mode, customer, doc, store, req, purge, history, calls, faults>>

\* The audit of a stored result is inside the same try: when it fails, the
\* catch will write FAILED over READY, and over an apply of that moment.
AuditFails ==
  /\ cron.at = "audit" /\ Fault /\ cron' = [cron EXCEPT !.at = "fail"]
  /\ UNCHANGED <<mode, customer, doc, store, req, purge, history, calls>>

(***************************************************************************)
(* Customers: apply a suggestion, edit, anonymise, delete, merge.          *)
(***************************************************************************)

AskApply(t) ==
  \E d \in Docs :
    /\ doc[d] # None /\ doc[d].ocr = "READY" /\ ~doc[d].applied
    /\ Ask(t, [Idle EXCEPT !.at = "apply", !.doc = d, !.cust = doc[d].cust, !.sug = doc[d].sug])
    /\ UNCHANGED <<mode, customer, doc, store, batches, history, faults>>

\* Who has read the document and will still write what that called for.
Writers(d) ==
  {t \in Requests : req[t].doc = d /\ req[t].at \in {"pend", "mock", "dismiss", "callback", "apply"}}
CronHolds(d) == cron.doc = d \/ \E f \in cron.found : f[1] = d

\* applyOcrSuggestion: one transaction, on what was read before it.
Apply(t) ==
  LET p == req[t]  d == p.doc  c == p.cust IN
  /\ At(t, "apply") /\ Finish(t)
  /\ IF customer[c] = None \/ doc[d] = None THEN UNCHANGED <<customer, doc, used, raced, rewritten>>
     ELSE /\ customer' = [customer EXCEPT ![c].name = "personal"]
          /\ doc' = [doc EXCEPT ![d].applied = TRUE]
          /\ used' = [used EXCEPT ![d] = p.sug]
          /\ raced' = IF doc[d].sug # p.sug \/ Writers(d) # {t} \/ CronHolds(d) THEN raced \cup {d} ELSE raced
          /\ rewritten' = IF customer[c].anonymized THEN rewritten \cup {c} ELSE rewritten
  /\ UNCHANGED <<mode, store, batches, orphaned, broken, calls, faults>>

\* Mutant: an anonymised customer is edited.
AskEditUnchecked(t) ==
  \E c \in Customers :
    /\ customer[c] # None
    /\ Ask(t, [Idle EXCEPT !.at = "edit", !.cust = c, !.known = customer[c].anonymized])
    /\ UNCHANGED <<mode, customer, doc, store, batches, history, faults>>

\* update: refused for a customer that is read as anonymised; "known" is that reading.
AskEdit(t) ==
  \E c \in Customers :
    /\ customer[c] # None /\ ~customer[c].anonymized
    /\ Ask(t, [Idle EXCEPT !.at = "edit", !.cust = c, !.known = customer[c].anonymized])
    /\ UNCHANGED <<mode, customer, doc, store, batches, history, faults>>

Edit(t) ==
  LET c == req[t].cust IN
  /\ At(t, "edit") /\ Finish(t)
  /\ IF customer[c] = None THEN UNCHANGED <<customer, rewritten>>
     ELSE /\ customer' = [customer EXCEPT ![c].name = "personal"]
          /\ rewritten' = IF customer[c].anonymized /\ ~req[t].known THEN rewritten \cup {c} ELSE rewritten
  /\ UNCHANGED <<mode, doc, store, batches, used, raced, orphaned, broken, calls, faults>>

AskAnonymize(t) ==
  \E c \in Customers :
    /\ customer[c] # None /\ ~customer[c].anonymized
    /\ Ask(t, [Idle EXCEPT !.at = "anonymize", !.cust = c])
    /\ UNCHANGED <<mode, customer, doc, store, batches, history, faults>>

\* anonymize: one transaction.
Anonymize(t) ==
  LET c == req[t].cust IN
  /\ At(t, "anonymize") /\ Finish(t)
  /\ customer' = IF customer[c] = None THEN customer
                 ELSE [customer EXCEPT ![c] = [name |-> "redacted", anonymized |-> TRUE]]
  /\ UNCHANGED <<mode, doc, store, batches, history, calls, faults>>

\* A merge holds the documents it moves until it is committed.
Locked(c) == \E t \in Requests : At(t, "merge") /\ req[t].moved # {} /\ c \in {req[t].cust, req[t].into}

Cascade(lost) ==
  /\ doc' = [d \in Docs |-> IF d \in lost THEN None ELSE doc[d]]
  /\ orphaned' = orphaned \cup (lost \cap blob)

\* remove: the rows of the documents go with the customer, their objects stay.
DeleteCustomer(t) ==
  \E c \in Customers :
    /\ customer[c] # None /\ ~Locked(c)
    /\ Ask(t, Idle)
    /\ customer' = [customer EXCEPT ![c] = None]
    /\ Cascade(DocsOf(c))
    /\ UNCHANGED <<mode, store, batches, used, raced, rewritten, broken, faults>>

\* mergeInto: neither customer is read as anonymised.
AskMerge(t) ==
  \E c, i \in Customers :
    /\ c # i /\ customer[c] # None /\ customer[i] # None
    /\ ~customer[c].anonymized /\ ~customer[i].anonymized
    /\ Ask(t, [Idle EXCEPT !.at = "move", !.cust = c, !.into = i])
    /\ UNCHANGED <<mode, customer, doc, store, batches, history, faults>>

\* The transaction moves what belongs to the customer at this moment.
Move(t) ==
  LET p == req[t] IN
  /\ At(t, "move") /\ ~Locked(p.cust) /\ ~Locked(p.into)
  /\ Go(t, IF customer[p.into] = None /\ DocsOf(p.cust) # {} THEN Idle
           ELSE [p EXCEPT !.at = "merge", !.moved = DocsOf(p.cust)])
  /\ UNCHANGED <<mode, customer, doc, store, batches, history, calls, faults>>

\* It then deletes the customer, and a document added meanwhile with it.
Merge(t) ==
  LET p == req[t]  lost == DocsOf(p.cust) \ p.moved IN
  /\ At(t, "merge") /\ Finish(t)
  /\ IF customer[p.cust] = None THEN UNCHANGED <<customer, doc, orphaned>>
     ELSE /\ customer' = [customer EXCEPT ![p.cust] = None]
          /\ doc' = [d \in Docs |-> IF d \in lost THEN None
                                    ELSE IF d \in DocsOf(p.cust) THEN [doc[d] EXCEPT !.cust = p.into] ELSE doc[d]]
          /\ orphaned' = orphaned \cup (lost \cap blob)
  /\ UNCHANGED <<mode, store, batches, used, raced, rewritten, broken, calls, faults>>

(***************************************************************************)
(* purgeExpiredCustomerDocuments, and time.                                *)
(***************************************************************************)

\* retentionUntil passes.
Expire(d) ==
  /\ doc[d] # None /\ ~doc[d].expired /\ doc' = [doc EXCEPT ![d].expired = TRUE]
  /\ UNCHANGED <<mode, customer, store, req, batches, history, calls, faults>>

PurgeFinds ==
  LET due == {d \in Docs : doc[d] # None /\ doc[d].expired /\ doc[d].done} IN
  /\ purge.at = "idle" /\ due # {}
  /\ purge' = [NoBatch EXCEPT !.at = "pick", !.found = due]
  /\ UNCHANGED <<mode, customer, doc, store, req, cron, history, calls, faults>>

PurgeShreds ==
  /\ purge.at = "pick"
  /\ IF purge.found = {} THEN purge' = NoBatch /\ UNCHANGED blob
     ELSE \E d \in purge.found :
            /\ blob' = blob \ {d}
            /\ purge' = [at |-> "drop", found |-> purge.found \ {d}, doc |-> d]
  /\ UNCHANGED <<mode, customer, doc, url, spent, req, cron, history, calls, faults>>

\* An error of the bucket leaves the row for the next batch; one of the disk
\* does not.
PurgeShredFails ==
  \E d \in purge.found :
    /\ purge.at = "pick" /\ Fault
    /\ IF mode = "S3" THEN purge' = [purge EXCEPT !.found = @ \ {d}] /\ UNCHANGED orphaned
       ELSE purge' = [at |-> "drop", found |-> purge.found \ {d}, doc |-> d] /\ orphaned' = orphaned \cup {d}
    /\ UNCHANGED <<mode, customer, doc, store, req, cron, used, raced, rewritten, broken, calls>>

\* Mutant: the object goes, the row stays.
PurgeKeepsRow ==
  /\ purge.at = "drop"
  /\ purge' = [purge EXCEPT !.at = "pick", !.doc = None]
  /\ UNCHANGED <<mode, customer, doc, store, req, cron, history, calls, faults>>

\* A row that has gone ends the batch.
PurgeDrops ==
  /\ purge.at = "drop"
  /\ purge' = IF doc[purge.doc] = None THEN NoBatch ELSE [purge EXCEPT !.at = "pick", !.doc = None]
  /\ DropRow(purge.doc)
  /\ UNCHANGED <<mode, customer, store, req, cron, used, raced, rewritten, broken, calls, faults>>

(***************************************************************************)
(* A process dies between two steps.                                       *)
(***************************************************************************)

Dies(at, d) ==
  /\ orphaned' = IF at = "insert" THEN orphaned \cup {d} ELSE orphaned
  /\ broken' = IF at = "drop" THEN broken \cup {d} ELSE broken
  /\ Fault /\ UNCHANGED <<mode, customer, doc, store, used, raced, rewritten, calls>>

RequestDies(t) ==
  ~At(t, "idle") /\ Finish(t) /\ Dies(req[t].at, req[t].doc) /\ UNCHANGED batches
CronDies == cron.at # "idle" /\ cron' = NoBatch /\ Dies("cron", cron.doc) /\ UNCHANGED <<req, purge>>
PurgeDies == purge.at # "idle" /\ purge' = NoBatch /\ Dies(purge.at, purge.doc) /\ UNCHANGED <<req, cron>>

RequestBegins(t) ==
  \/ Upload(t) \/ Presign(t) \/ AskComplete(t) \/ AskRemove(t)
  \/ AskMock(t) \/ AskDismiss(t) \/ AskCallback(t) \/ AskApply(t)
  \/ AskEdit(t) \/ AskAnonymize(t) \/ DeleteCustomer(t) \/ AskMerge(t)

RequestStep(t) ==
  \/ Insert(t) \/ Head(t) \/ Complete(t) \/ Queue(t) \/ Pend(t) \/ Return(t) \/ Shred(t) \/ Drop(t)
  \/ Mock(t) \/ Dismiss(t) \/ Callback(t) \/ Apply(t) \/ Edit(t) \/ Anonymize(t) \/ Move(t) \/ Merge(t)

CronStep == CronFinds \/ CronPicks \/ CronWrites \/ CronAudits
PurgeStep == PurgeFinds \/ PurgeShreds \/ PurgeDrops

Next ==
  \/ \E t \in Requests : RequestBegins(t) \/ RequestStep(t) \/ UploadFails(t) \/ ShredFails(t) \/ RequestDies(t)
  \/ \E d \in Docs : ClientPuts(d) \/ UrlLapses(d) \/ Expire(d)
  \/ CronStep \/ AuditFails \/ CronDies \/ PurgeStep \/ PurgeShredFails \/ PurgeDies

Spec == Init /\ [][Next]_vars

\* The cron and the worker go on calling their batches, and requests go on.
FairSpec ==
  /\ Spec
  /\ \A t \in Requests : WF_vars(RequestStep(t))
  /\ WF_vars(CronStep) /\ WF_vars(PurgeStep)

-----------------------------------------------------------------------------
(***************************************************************************)
(* Properties.                                                             *)
(***************************************************************************)

Request == [at : {"idle", "insert", "head", "complete", "queue", "pend", "return", "shred", "drop", "mock", "dismiss",
                  "callback", "apply", "edit", "anonymize", "move", "merge"},
            doc : Docs \cup {None}, cust : Customers \cup {None}, into : Customers \cup {None},
            sug : Suggestions \cup {0}, known : BOOLEAN, moved : SUBSET Docs]

CronBatch == [at : {"idle", "pick", "write", "audit", "fail"}, found : SUBSET (Docs \X Customers), doc : Docs \cup {None}]
PurgeBatch == [at : {"idle", "pick", "drop"}, found : SUBSET Docs, doc : Docs \cup {None}]

\* Every variable keeps its shape.
TypeOK ==
  /\ mode \in Modes
  /\ customer \in [Customers -> Customer \cup {None}]
  /\ doc \in [Docs -> Document \cup {None}]
  /\ blob \subseteq spent /\ url \subseteq spent /\ spent \subseteq Docs
  /\ req \in [Requests -> Request]
  /\ cron \in CronBatch /\ purge \in PurgeBatch
  /\ used \in [Docs -> Suggestions \cup {0}]
  /\ raced \subseteq Docs /\ orphaned \subseteq Docs /\ broken \subseteq Docs /\ rewritten \subseteq Customers
  /\ calls \in 0..MaxCalls /\ faults \in 0..MaxFaults

\* A document whose suggestion was applied shows the suggestion that went into
\* the customer, unless somebody who had read the document before the apply
\* wrote a result, a dismissal or another apply around it.
AppliedIsShown ==
  \A d \in Docs : doc[d] # None /\ doc[d].applied => doc[d].sug = used[d] \/ d \in raced

\* A document that is listed can be downloaded, but for one that is being
\* deleted, whose deletion died half-way, or whose upload failed late.
ListedIsStored ==
  \A d \in Docs : doc[d] # None /\ doc[d].done /\ d \notin blob =>
    \/ \E t \in Requests : At(t, "drop") /\ req[t].doc = d
    \/ purge.at = "drop" /\ purge.doc = d
    \/ d \in broken

\* No identity document stays in storage without a row that leads to it, but
\* for an upload under way and the cases "orphaned" collects: a deleted
\* customer, a merge, an object put late, an error of the disk, a crash.
StoredIsListed ==
  \A d \in blob : doc[d] # None \/ d \in orphaned \/ \E t \in Requests : At(t, "insert") /\ req[t].doc = d

\* The name of an anonymised customer comes back only by an apply, or by an
\* edit that had read the customer before.
RedactionHolds ==
  \A c \in Customers : customer[c] # None /\ customer[c].anonymized /\ customer[c].name = "personal" => c \in rewritten

\* A document that waits for OCR gets a result or a failure, whatever batches
\* and requests die, unless a suggestion was applied before it was queued.
OcrSettles == \A d \in Docs : doc[d] # None /\ doc[d].ocr = "PENDING" ~>
                                (doc[d] = None \/ doc[d].ocr # "PENDING" \/ doc[d].applied)

\* A listed document past its retention is deleted in the end.
ExpiredAreDeleted == \A d \in Docs : doc[d] # None /\ doc[d].done /\ doc[d].expired ~> doc[d] = None

-----------------------------------------------------------------------------
(***************************************************************************)
(* The inductive invariant, in four parts.                                 *)
(***************************************************************************)

\* What a request or a batch is at determines which of its fields are filled.
OnDocument == {"insert", "head", "complete", "queue", "pend", "return", "shred", "drop", "mock", "dismiss", "callback", "apply"}
OnCustomer == {"insert", "apply", "edit", "anonymize", "move", "merge"}
Shaped ==
  /\ \A t \in Requests :
       /\ req[t].at \in OnDocument => req[t].doc \in Docs
       /\ req[t].at \in OnCustomer => req[t].cust \in Customers
       /\ req[t].at \in {"move", "merge"} => req[t].into \in Customers
  /\ cron.at \in {"write", "audit", "fail"} => cron.doc \in Docs
  /\ purge.at = "drop" => purge.doc \in Docs

\* Only ids given out have rows or are worked on.
IdsGivenOut ==
  /\ \A d \in Docs : doc[d] # None => d \in spent
  /\ \A t \in Requests : req[t].at \in OnDocument => req[t].doc \in spent
  /\ purge.found \subseteq spent

\* An upload that is to insert its row has its file to itself.
InsertsAlone ==
  \A t \in Requests : At(t, "insert") =>
    /\ req[t].doc \in blob /\ doc[req[t].doc] = None /\ req[t].doc \notin purge.found
    /\ \A u \in Requests : req[u].at \in OnDocument /\ req[u].doc = req[t].doc => u = t

\* The object is there, or whoever removed it is about to remove the row, or
\* failed to.
Kept(d) ==
  \/ d \in blob \/ d \in broken
  \/ \E t \in Requests : At(t, "drop") /\ req[t].doc = d
  \/ purge.at = "drop" /\ purge.doc = d

\* A document to be completed has its object, or is being deleted.
StorageInv ==
  /\ IdsGivenOut /\ InsertsAlone
  /\ \A t \in Requests : At(t, "complete") /\ doc[req[t].doc] # None => Kept(req[t].doc)
  /\ ListedIsStored /\ StoredIsListed

\* Whoever will write to a document that was applied had read it before that.
RacesSeen ==
  \A d \in Docs : doc[d] # None /\ doc[d].applied /\ (Writers(d) # {} \/ CronHolds(d)) => d \in raced
ApplyInv == RacesSeen /\ AppliedIsShown

\* An edit has read the customer as not anonymised.
EditInv == RedactionHolds /\ \A t \in Requests : At(t, "edit") => ~req[t].known

DocumentsInv == TypeOK /\ Shaped /\ StorageInv /\ ApplyInv /\ EditInv

-----------------------------------------------------------------------------
(***************************************************************************)
(* What holds while no two writers of a suggestion overlap.                *)
(***************************************************************************)

\* Of the requests, callbacks and the cron, one at a time works on what a
\* document says.  Nothing in the code sees to it.
OneWriter ==
  \A d \in Docs : (\A t, u \in Writers(d) : t = u) /\ (Writers(d) # {} => ~CronHolds(d))

\* An applied document shows the suggestion that went into the customer: what
\* the screen says was applied is what was (applyOcrSuggestion).
AppliedShows ==
  \A d \in Docs : doc[d] # None /\ doc[d].applied => doc[d].sug = used[d]

\* Nothing has raced, and what an apply has read still stands.
SerialInv ==
  /\ raced = {}
  /\ \A t \in Requests : At(t, "apply") /\ doc[req[t].doc] # None => doc[req[t].doc].sug = req[t].sug
=============================================================================
