------------------------ MODULE CustomerDocumentsProofs ------------------------
(***************************************************************************)
(* The inductive invariant of CustomerDocuments and what follows from it:  *)
(* types, edits of anonymised customers, applied suggestions, storage.     *)
(***************************************************************************)
EXTENDS CustomerDocuments, TLAPS

Types == TypeOK /\ Shaped

\* A record a request may hold.
Fits(p) ==
  /\ p \in Request
  /\ p.at \in OnDocument => p.doc \in Docs
  /\ p.at \in OnCustomer => p.cust \in Customers
  /\ p.at \in {"move", "merge"} => p.into \in Customers

RequestsFit == req \in [Requests -> Request] /\ \A t \in Requests : Fits(req[t])
BatchesFit ==
  /\ cron.at \in {"write", "audit", "fail"} => cron.doc \in Docs
  /\ purge.at = "drop" => purge.doc \in Docs

LEMMA TypesAreFits == Types <=> TypeOK /\ RequestsFit /\ BatchesFit
BY DEF Types, TypeOK, Shaped, RequestsFit, BatchesFit, Fits, At

LEMMA IdleFits == Fits(Idle)
BY DEF Fits, Idle, Request, OnDocument, OnCustomer, Suggestions

LEMMA MoveFits ==
  ASSUME Types, NEW t \in Requests, NEW p, Fits(p), Go(t, p)
  PROVE  RequestsFit'
BY TypesAreFits DEF Go, RequestsFit, Fits

\* Only requests move.
LEMMA RequestsTypes ==
  ASSUME Types, RequestsFit', UNCHANGED <<mode, customer, doc, store, batches, history>>,
         calls' \in 0..MaxCalls, faults' \in 0..MaxFaults
  PROVE  Types'
<1>1. TypeOK' /\ BatchesFit'
  BY TypesAreFits DEF TypeOK, RequestsFit, BatchesFit, store, batches, history, Types
<1>. QED BY <1>1, TypesAreFits, PTL

\* What requests begin with.
LEMMA DocFits ==
  ASSUME NEW p, NEW d \in Docs, NEW step \in {"head", "shred", "mock", "dismiss", "callback"},
         p = [Idle EXCEPT !.at = step, !.doc = d]
  PROVE  Fits(p)
<1>b. PICK b \in BOOLEAN : b = FALSE
  OBVIOUS
<1>1. p = [at |-> step, doc |-> d, cust |-> None, into |-> None, sug |-> 0, known |-> b, moved |-> {}]
  BY <1>b DEF Idle
<1>2. p \in Request
  BY <1>1 DEF Request
<1>. QED BY <1>1, <1>2 DEF Fits, OnDocument, OnCustomer

LEMMA ApplyFits ==
  ASSUME NEW p, NEW d \in Docs, NEW c \in Customers, NEW s \in Suggestions \cup {0},
         p = [Idle EXCEPT !.at = "apply", !.doc = d, !.cust = c, !.sug = s]
  PROVE  Fits(p)
<1>b. PICK b \in BOOLEAN : b = FALSE
  OBVIOUS
<1>1. p = [at |-> "apply", doc |-> d, cust |-> c, into |-> None, sug |-> s, known |-> b, moved |-> {}]
  BY <1>b DEF Idle
<1>2. p \in Request
  BY <1>1 DEF Request
<1>. QED BY <1>1, <1>2 DEF Fits, OnDocument, OnCustomer

LEMMA EditFits ==
  ASSUME NEW p, NEW c \in Customers, NEW b \in BOOLEAN, p = [Idle EXCEPT !.at = "edit", !.cust = c, !.known = b]
  PROVE  Fits(p)
<1>1. p = [at |-> "edit", doc |-> None, cust |-> c, into |-> None, sug |-> 0, known |-> b, moved |-> {}]
  BY DEF Idle
<1>. QED BY <1>1 DEF Fits, Request, OnDocument, OnCustomer

LEMMA AnonymizeFits ==
  ASSUME NEW p, NEW c \in Customers, p = [Idle EXCEPT !.at = "anonymize", !.cust = c]
  PROVE  Fits(p)
<1>b. PICK b \in BOOLEAN : b = FALSE
  OBVIOUS
<1>1. p = [at |-> "anonymize", doc |-> None, cust |-> c, into |-> None, sug |-> 0, known |-> b, moved |-> {}]
  BY <1>b DEF Idle
<1>2. p \in Request
  BY <1>1 DEF Request
<1>. QED BY <1>1, <1>2 DEF Fits, OnDocument, OnCustomer

LEMMA MergeFits ==
  ASSUME NEW p, NEW c \in Customers, NEW i \in Customers, p = [Idle EXCEPT !.at = "move", !.cust = c, !.into = i]
  PROVE  Fits(p)
<1>b. PICK b \in BOOLEAN : b = FALSE
  OBVIOUS
<1>1. p = [at |-> "move", doc |-> None, cust |-> c, into |-> i, sug |-> 0, known |-> b, moved |-> {}]
  BY <1>b DEF Idle
<1>2. p \in Request
  BY <1>1 DEF Request
<1>. QED BY <1>1, <1>2 DEF Fits, OnDocument, OnCustomer

LEMMA AskTypes ==
  ASSUME Types, NEW t \in Requests,
         \/ AskComplete(t) \/ AskRemove(t) \/ AskMock(t) \/ AskDismiss(t) \/ AskCallback(t)
         \/ AskApply(t) \/ AskEdit(t) \/ AskAnonymize(t) \/ AskMerge(t)
  PROVE  Types'
<1>1. calls < MaxCalls /\ calls' = calls + 1 /\ UNCHANGED <<mode, customer, doc, store, batches, history, faults>>
  BY DEF AskComplete, AskRemove, AskMock, AskDismiss, AskCallback, AskApply, AskEdit, AskAnonymize, AskMerge, Ask
<1>2. calls' \in 0..MaxCalls /\ faults' \in 0..MaxFaults
  BY <1>1, DocumentsAssumption DEF Types, TypeOK
<1>3. \E p : Fits(p) /\ Go(t, p)
  <2>1. CASE AskComplete(t) \/ AskRemove(t) \/ AskMock(t) \/ AskDismiss(t) \/ AskCallback(t)
    <3>1. \E d \in Docs, step \in {"head", "shred", "mock", "dismiss", "callback"} : Go(t, [Idle EXCEPT !.at = step, !.doc = d])
      BY <2>1 DEF AskComplete, AskRemove, AskMock, AskDismiss, AskCallback, Ask
    <3>. QED BY <3>1, DocFits
  <2>2. CASE AskApply(t)
    <3>1. PICK d \in Docs : /\ doc[d] # None
                            /\ doc[d].ocr = "READY"
                            /\ Go(t, [Idle EXCEPT !.at = "apply", !.doc = d, !.cust = doc[d].cust, !.sug = doc[d].sug])
      BY <2>2 DEF AskApply, Ask
    <3>. QED BY <3>1, ApplyFits DEF Types, TypeOK, Document
  <2>3. CASE AskEdit(t)
    <3>1. PICK c \in Customers, b \in BOOLEAN : Go(t, [Idle EXCEPT !.at = "edit", !.cust = c, !.known = b])
      BY <2>3 DEF AskEdit, Ask, Types, TypeOK, Customer
    <3>. QED BY <3>1, EditFits
  <2>4. CASE AskAnonymize(t)
    BY <2>4, AnonymizeFits DEF AskAnonymize, Ask
  <2>5. CASE AskMerge(t)
    BY <2>5, MergeFits DEF AskMerge, Ask
  <2>. QED BY <2>1, <2>2, <2>3, <2>4, <2>5
<1>4. RequestsFit'
  BY <1>3, MoveFits
<1>. QED BY <1>1, <1>2, <1>4, RequestsTypes

\* What a request goes on to with the same document and customer.
LEMMA StepFits ==
  ASSUME Types, NEW t \in Requests, NEW step \in OnDocument \ {"insert", "apply"}, req[t].at \in OnDocument,
         Go(t, [req[t] EXCEPT !.at = step])
  PROVE  RequestsFit'
<1>1. PICK p : p = [req[t] EXCEPT !.at = step]
  OBVIOUS
<1>2. req[t] \in Request /\ req[t].doc \in Docs
  BY DEF Types, TypeOK, Shaped
<1>3. p \in Request /\ p.at = step /\ p.doc = req[t].doc
  BY <1>1, <1>2 DEF Request, OnDocument
<1>4. Fits(p)
  BY <1>2, <1>3 DEF Fits, OnDocument, OnCustomer
<1>. QED BY <1>1, <1>4, MoveFits

LEMMA FinishFits ==
  ASSUME Types, NEW t \in Requests, Finish(t)
  PROVE  RequestsFit'
BY IdleFits, MoveFits DEF Finish

\* What handlers write into the row of a document.
LEMMA NewIsDocument ==
  ASSUME NEW c \in Customers, NEW b \in BOOLEAN
  PROVE  New(c, b) \in Document
<1>1. PICK n \in BOOLEAN : n = FALSE
  OBVIOUS
<1>2. New(c, b) = [cust |-> c, done |-> b, expired |-> n, applied |-> n, ocr |-> "NONE", sug |-> 0]
  BY <1>1 DEF New
<1>. QED BY <1>2 DEF Document

LEMMA SuggestionIsDocument ==
  ASSUME NEW r \in Document, NEW o \in {"NONE", "PENDING", "READY", "FAILED"}, NEW s \in Suggestions \cup {0},
         NEW v, v = [r EXCEPT !.ocr = o, !.sug = s]
  PROVE  v \in Document
BY DEF Document

LEMMA FlagIsDocument ==
  ASSUME NEW r \in Document, NEW v,
         v = [r EXCEPT !.done = TRUE] \/ v = [r EXCEPT !.expired = TRUE] \/ v = [r EXCEPT !.applied = TRUE]
  PROVE  v \in Document
<1>1. PICK b \in BOOLEAN : b = TRUE
  OBVIOUS
<1>2. v = [r EXCEPT !.done = b] \/ v = [r EXCEPT !.expired = b] \/ v = [r EXCEPT !.applied = b]
  BY <1>1
<1>. QED BY <1>2 DEF Document

LEMMA OwnerIsDocument ==
  ASSUME NEW r \in Document, NEW c \in Customers, NEW v, v = [r EXCEPT !.cust = c]
  PROVE  v \in Document
BY DEF Document

LEMMA PutDocument ==
  ASSUME Types, NEW d \in Docs, NEW v \in Document \cup {None}, doc' = [doc EXCEPT ![d] = v]
  PROVE  doc' \in [Docs -> Document \cup {None}]
BY DEF Types, TypeOK

\* A step that gives out no id and leaves the batches alone.
LEMMA StepTypes ==
  ASSUME Types, RequestsFit', UNCHANGED <<mode, url, spent, cron, purge>>,
         customer' \in [Customers -> Customer \cup {None}], doc' \in [Docs -> Document \cup {None}],
         blob' \subseteq spent, used' \in [Docs -> Suggestions \cup {0}],
         raced' \subseteq Docs, orphaned' \subseteq Docs, broken' \subseteq Docs, rewritten' \subseteq Customers,
         calls' \in 0..MaxCalls, faults' \in 0..MaxFaults
  PROVE  Types'
<1>1. TypeOK' /\ BatchesFit'
  BY TypesAreFits DEF TypeOK, RequestsFit, BatchesFit, Types
<1>. QED BY <1>1, TypesAreFits, PTL

\* A step of a batch.
LEMMA BatchTypes ==
  ASSUME Types, BatchesFit', UNCHANGED <<mode, customer, url, spent, req, used, raced, rewritten, calls>>,
         doc' \in [Docs -> Document \cup {None}], blob' \subseteq spent,
         cron' \in CronBatch, purge' \in PurgeBatch,
         orphaned' \subseteq Docs, broken' \subseteq Docs, faults' \in 0..MaxFaults
  PROVE  Types'
<1>1. RequestsFit'
  BY TypesAreFits DEF RequestsFit, Fits
<1>2. TypeOK'
  BY <1>1 DEF TypeOK, RequestsFit, Types
<1>. QED BY <1>1, <1>2, TypesAreFits, PTL

-----------------------------------------------------------------------------
(***************************************************************************)
(* Types, one action at a time.                                            *)
(***************************************************************************)

LEMMA UploadTypes == ASSUME Types, NEW t \in Requests, Upload(t) PROVE Types'
<1>1. PICK c \in Customers, d \in Docs \ spent :
        /\ Ask(t, [Idle EXCEPT !.at = "insert", !.doc = d, !.cust = c])
        /\ spent' = spent \cup {d} /\ blob' = blob \cup {d}
        /\ UNCHANGED <<mode, customer, doc, url, batches, history, faults>>
  BY DEF Upload
<1>2. PICK p : p = [Idle EXCEPT !.at = "insert", !.doc = d, !.cust = c]
  OBVIOUS
<1>3. Fits(p)
  <2>1. PICK b \in BOOLEAN : b = FALSE
    OBVIOUS
  <2>2. p = [at |-> "insert", doc |-> d, cust |-> c, into |-> None, sug |-> 0, known |-> b, moved |-> {}]
    BY <1>2, <2>1 DEF Idle
  <2>3. p \in Request
    BY <2>2 DEF Request
  <2>. QED BY <2>2, <2>3 DEF Fits, OnDocument, OnCustomer
<1>4. RequestsFit'
  BY <1>1, <1>2, <1>3, MoveFits DEF Ask
<1>5. calls' \in 0..MaxCalls
  BY <1>1, DocumentsAssumption DEF Ask, Types, TypeOK
<1>6. TypeOK' /\ BatchesFit'
  BY <1>1, <1>4, <1>5, TypesAreFits DEF Types, TypeOK, RequestsFit, BatchesFit, batches, history
<1>. QED BY <1>4, <1>6, TypesAreFits, PTL

LEMMA PresignTypes == ASSUME Types, NEW t \in Requests, Presign(t) PROVE Types'
<1>1. PICK c \in Customers, d \in Docs \ spent :
        /\ Ask(t, Idle)
        /\ spent' = spent \cup {d} /\ url' = url \cup {d}
        /\ doc' = [doc EXCEPT ![d] = New(c, FALSE)]
        /\ UNCHANGED <<mode, customer, blob, batches, history, faults>>
  BY DEF Presign
<1>2. RequestsFit'
  BY <1>1, IdleFits, MoveFits DEF Ask
<1>3. doc' \in [Docs -> Document \cup {None}]
  BY <1>1, NewIsDocument, PutDocument
<1>4. calls' \in 0..MaxCalls
  BY <1>1, DocumentsAssumption DEF Ask, Types, TypeOK
<1>5. TypeOK' /\ BatchesFit'
  BY <1>1, <1>2, <1>3, <1>4, TypesAreFits DEF Types, TypeOK, RequestsFit, BatchesFit, batches, history
<1>. QED BY <1>2, <1>5, TypesAreFits, PTL

LEMMA InsertTypes == ASSUME Types, NEW t \in Requests, Insert(t) PROVE Types'
<1>1. req[t].doc \in Docs /\ req[t].cust \in Customers /\ req[t].at \in OnDocument
  BY DEF Insert, Types, Shaped, At, OnDocument, OnCustomer
<1>2. RequestsFit'
  <2>1. CASE customer[req[t].cust] = None
    BY <2>1, FinishFits DEF Insert
  <2>2. CASE customer[req[t].cust] # None
    BY <2>2, <1>1, StepFits DEF Insert, OnDocument
  <2>. QED BY <2>1, <2>2
<1>3. doc' \in [Docs -> Document \cup {None}] /\ blob' \subseteq spent
  <2>1. doc' = doc \/ doc' = [doc EXCEPT ![req[t].doc] = New(req[t].cust, TRUE)]
    BY DEF Insert
  <2>2. doc' \in [Docs -> Document \cup {None}]
    BY <1>1, <2>1, NewIsDocument, PutDocument DEF Types, TypeOK
  <2>. QED BY <2>2 DEF Insert, Types, TypeOK
<1>. QED BY <1>2, <1>3, StepTypes DEF Insert, Types, TypeOK, batches, history

LEMMA QuietTypes ==
  ASSUME Types, NEW t \in Requests, Head(t) \/ Queue(t) \/ Move(t)
  PROVE  Types'
<1>1. CASE Head(t)
  <2>1. req[t].at \in OnDocument
    BY <1>1 DEF Head, At, OnDocument
  <2>2. RequestsFit'
    BY <1>1, <2>1, FinishFits, StepFits DEF Head, OnDocument
  <2>. QED BY <1>1, <2>2, RequestsTypes DEF Head, Types, TypeOK
<1>2. CASE Queue(t)
  <2>1. req[t].at \in OnDocument
    BY <1>2 DEF Queue, At, OnDocument
  <2>2. RequestsFit'
    <3>1. PICK step \in {"return", "pend"} : Go(t, [req[t] EXCEPT !.at = step])
      BY <1>2 DEF Queue
    <3>. QED BY <2>1, <3>1, StepFits DEF OnDocument
  <2>. QED BY <1>2, <2>2, RequestsTypes DEF Queue, Types, TypeOK
<1>3. CASE Move(t)
  <2>1. CASE Go(t, Idle)
    BY <1>3, <2>1, IdleFits, MoveFits, RequestsTypes DEF Move, Types, TypeOK
  <2>2. CASE Go(t, [req[t] EXCEPT !.at = "merge", !.moved = DocsOf(req[t].cust)])
    <3>1. PICK p : p = [req[t] EXCEPT !.at = "merge", !.moved = DocsOf(req[t].cust)]
      OBVIOUS
    <3>2. req[t] \in Request /\ req[t].cust \in Customers /\ req[t].into \in Customers
      BY <1>3 DEF Move, Types, TypeOK, Shaped, At, OnCustomer
    <3>3. DocsOf(req[t].cust) \subseteq Docs
      BY DEF DocsOf
    <3>4. p \in Request /\ p.at = "merge" /\ p.cust = req[t].cust /\ p.into = req[t].into
      BY <3>1, <3>2, <3>3 DEF Request
    <3>5. Fits(p)
      BY <3>2, <3>4 DEF Fits, OnDocument
    <3>6. RequestsFit'
      BY <2>2, <3>1, <3>5, MoveFits
    <3>. QED BY <1>3, <3>6, RequestsTypes DEF Move, Types, TypeOK
  <2>. QED BY <1>3, <2>1, <2>2 DEF Move
<1>. QED BY <1>1, <1>2, <1>3

LEMMA CompleteTypes == ASSUME Types, NEW t \in Requests, Complete(t) PROVE Types'
<1>1. req[t].doc \in Docs /\ req[t].at \in OnDocument
  BY DEF Complete, Types, Shaped, At, OnDocument
<1>2. RequestsFit'
  BY <1>1, FinishFits, StepFits DEF Complete, OnDocument
<1>3. doc' \in [Docs -> Document \cup {None}]
  <2>1. CASE doc[req[t].doc] = None
    BY <2>1 DEF Complete, Types, TypeOK
  <2>2. CASE doc[req[t].doc] # None
    <3>1. doc' = [doc EXCEPT ![req[t].doc] = [doc[req[t].doc] EXCEPT !.done = TRUE]]
      BY <2>2 DEF Complete
    <3>2. doc[req[t].doc] \in Document
      BY <1>1, <2>2 DEF Types, TypeOK
    <3>3. PICK v : v = [doc[req[t].doc] EXCEPT !.done = TRUE]
      OBVIOUS
    <3>4. v \in Document
      BY <3>2, <3>3, FlagIsDocument
    <3>. QED BY <1>1, <3>1, <3>3, <3>4, PutDocument
  <2>. QED BY <2>1, <2>2
<1>. QED BY <1>2, <1>3, StepTypes DEF Complete, Types, TypeOK, store, batches, history

\* What is written of a suggestion.
LEMMA SuggestionTypes ==
  ASSUME Types, NEW d \in Docs, doc[d] # None, NEW o \in {"NONE", "PENDING", "READY", "FAILED"}, NEW s \in Suggestions \cup {0},
         doc' = [doc EXCEPT ![d].ocr = o, ![d].sug = s]
  PROVE  doc' \in [Docs -> Document \cup {None}]
<1>1. doc[d] \in Document
  BY DEF Types, TypeOK
<1>2. PICK v : v = [doc[d] EXCEPT !.ocr = o, !.sug = s]
  OBVIOUS
<1>3. v \in Document
  BY <1>1, <1>2, SuggestionIsDocument
<1>4. doc' = [doc EXCEPT ![d] = v]
  BY <1>2 DEF Types, TypeOK
<1>. QED BY <1>3, <1>4, PutDocument

LEMMA PendTypes == ASSUME Types, NEW t \in Requests, Pend(t) PROVE Types'
<1>1. req[t].doc \in Docs /\ req[t].at \in OnDocument
  BY DEF Pend, Types, Shaped, At, OnDocument
<1>2. RequestsFit'
  BY <1>1, FinishFits, StepFits DEF Pend, OnDocument
<1>3. doc' \in [Docs -> Document \cup {None}]
  <2>1. CASE doc[req[t].doc] = None
    BY <2>1 DEF Pend, Types, TypeOK
  <2>2. CASE doc[req[t].doc] # None
    BY <1>1, <2>2, SuggestionTypes DEF Pend
  <2>. QED BY <2>1, <2>2
<1>4. blob' \subseteq spent
  BY DEF Pend, Types, TypeOK
<1>. QED BY <1>2, <1>3, <1>4, StepTypes DEF Pend, Types, TypeOK, batches, history

LEMMA RemovalTypes ==
  ASSUME Types, NEW t \in Requests, Return(t) \/ UploadFails(t) \/ Shred(t) \/ ShredFails(t) \/ Drop(t)
  PROVE  Types'
<1>1. req[t].doc \in Docs /\ req[t].at \in OnDocument
  BY DEF Return, UploadFails, Shred, ShredFails, Drop, Types, Shaped, At, OnDocument
<1>2. RequestsFit'
  BY <1>1, FinishFits, StepFits DEF Return, UploadFails, Shred, ShredFails, Drop, OnDocument
<1>3. doc' \in [Docs -> Document \cup {None}]
  BY <1>1, PutDocument DEF Return, UploadFails, Shred, ShredFails, Drop, DropRow, Types, TypeOK, store
<1>4. blob' \subseteq spent /\ orphaned' \subseteq Docs /\ broken' \subseteq Docs /\ faults' \in 0..MaxFaults
  BY <1>1, DocumentsAssumption
     DEF Return, UploadFails, Shred, ShredFails, Drop, DropRow, Fault, Types, TypeOK, store, history
<1>5. /\ UNCHANGED <<mode, url, spent, cron, purge, customer, used, raced, rewritten, calls>>
  BY DEF Return, UploadFails, Shred, ShredFails, Drop, store, batches, history
<1>. QED BY <1>2, <1>3, <1>4, <1>5, StepTypes DEF Types, TypeOK

LEMMA ResultTypes ==
  ASSUME Types, NEW t \in Requests, Mock(t) \/ Dismiss(t) \/ Callback(t)
  PROVE  Types'
<1>1. req[t].doc \in Docs
  BY DEF Mock, Dismiss, Callback, Types, Shaped, At, OnDocument
<1>2. RequestsFit'
  BY FinishFits DEF Mock, Dismiss, Callback
<1>3. doc' \in [Docs -> Document \cup {None}]
  <2>1. CASE doc[req[t].doc] = None
    BY <2>1 DEF Mock, Dismiss, Callback, Types, TypeOK
  <2>2. CASE doc[req[t].doc] # None
    BY <1>1, <2>2, SuggestionTypes DEF Mock, Dismiss, Callback, Ready, Failed, Suggestions
  <2>. QED BY <2>1, <2>2
<1>. QED BY <1>2, <1>3, StepTypes DEF Mock, Dismiss, Callback, Types, TypeOK, store, batches, history

\* What is written of a customer.
LEMMA NamedIsCustomer ==
  ASSUME NEW r \in Customer, NEW v, v = [r EXCEPT !.name = "personal"]
  PROVE  v \in Customer
BY DEF Customer

LEMMA RedactedIsCustomer ==
  ASSUME NEW v, v = [name |-> "redacted", anonymized |-> TRUE]
  PROVE  v \in Customer
<1>1. PICK b \in BOOLEAN : b = TRUE
  OBVIOUS
<1>2. v = [name |-> "redacted", anonymized |-> b]
  BY <1>1
<1>. QED BY <1>2 DEF Customer

LEMMA PutCustomer ==
  ASSUME Types, NEW c \in Customers, NEW v \in Customer \cup {None}, customer' = [customer EXCEPT ![c] = v]
  PROVE  customer' \in [Customers -> Customer \cup {None}]
BY DEF Types, TypeOK

LEMMA NameCustomer ==
  ASSUME Types, NEW c \in Customers, customer[c] # None, customer' = [customer EXCEPT ![c].name = "personal"]
  PROVE  customer' \in [Customers -> Customer \cup {None}]
<1>1. customer[c] \in Customer
  BY DEF Types, TypeOK
<1>2. PICK v : v = [customer[c] EXCEPT !.name = "personal"]
  OBVIOUS
<1>3. v \in Customer
  BY <1>1, <1>2, NamedIsCustomer
<1>4. customer' = [customer EXCEPT ![c] = v]
  BY <1>2
<1>. QED BY <1>3, <1>4, PutCustomer

LEMMA ApplyTypes == ASSUME Types, NEW t \in Requests, Apply(t) PROVE Types'
<1>1. PICK d \in Docs, c \in Customers, s \in Suggestions \cup {0} : d = req[t].doc /\ c = req[t].cust /\ s = req[t].sug
  BY DEF Apply, Types, Shaped, At, OnDocument, OnCustomer, TypeOK, Request
<1>2. RequestsFit'
  BY FinishFits DEF Apply
<1>3. CASE customer[c] = None \/ doc[d] = None
  BY <1>1, <1>2, <1>3, StepTypes DEF Apply, Types, TypeOK, store, batches
<1>4. CASE customer[c] # None /\ doc[d] # None
  <2>1. customer' = [customer EXCEPT ![c].name = "personal"] /\ doc' = [doc EXCEPT ![d].applied = TRUE]
        /\ used' = [used EXCEPT ![d] = s] /\ raced' \in {raced, raced \cup {d}} /\ rewritten' \in {rewritten, rewritten \cup {c}}
    BY <1>1, <1>4 DEF Apply
  <2>2. customer' \in [Customers -> Customer \cup {None}]
    BY <1>4, <2>1, NameCustomer
  <2>3. doc' \in [Docs -> Document \cup {None}]
    <3>1. PICK v : v = [doc[d] EXCEPT !.applied = TRUE]
      OBVIOUS
    <3>2. doc[d] \in Document
      BY <1>4 DEF Types, TypeOK
    <3>3. v \in Document
      BY <3>1, <3>2, FlagIsDocument
    <3>4. doc' = [doc EXCEPT ![d] = v]
      BY <2>1, <3>1
    <3>. QED BY <3>3, <3>4, PutDocument
  <2>4. used' \in [Docs -> Suggestions \cup {0}] /\ raced' \subseteq Docs /\ rewritten' \subseteq Customers
    BY <2>1 DEF Types, TypeOK
  <2>. QED BY <1>2, <2>2, <2>3, <2>4, StepTypes DEF Apply, Types, TypeOK, store, batches
<1>. QED BY <1>3, <1>4

LEMMA EditTypes == ASSUME Types, NEW t \in Requests, Edit(t) PROVE Types'
<1>1. req[t].cust \in Customers
  BY DEF Edit, Types, Shaped, At, OnCustomer
<1>2. RequestsFit'
  BY FinishFits DEF Edit
<1>3. customer' \in [Customers -> Customer \cup {None}] /\ rewritten' \subseteq Customers
  <2>1. CASE customer[req[t].cust] = None
    BY <2>1 DEF Edit, Types, TypeOK
  <2>2. CASE customer[req[t].cust] # None
    BY <1>1, <2>2, NameCustomer DEF Edit, Types, TypeOK
  <2>. QED BY <2>1, <2>2
<1>. QED BY <1>2, <1>3, StepTypes DEF Edit, Types, TypeOK, store, batches

LEMMA AnonymizeTypes == ASSUME Types, NEW t \in Requests, Anonymize(t) PROVE Types'
<1>1. req[t].cust \in Customers
  BY DEF Anonymize, Types, Shaped, At, OnCustomer
<1>2. RequestsFit'
  BY FinishFits DEF Anonymize
<1>3. PICK v : v = [name |-> "redacted", anonymized |-> TRUE]
  OBVIOUS
<1>4. customer' \in [Customers -> Customer \cup {None}]
  BY <1>1, <1>3, RedactedIsCustomer, PutCustomer DEF Anonymize, Types, TypeOK
<1>. QED BY <1>2, <1>4, StepTypes DEF Anonymize, Types, TypeOK, store, batches, history

LEMMA DeleteTypes == ASSUME Types, NEW t \in Requests, DeleteCustomer(t) PROVE Types'
<1>1. PICK c \in Customers :
        /\ Ask(t, Idle) /\ customer' = [customer EXCEPT ![c] = None] /\ Cascade(DocsOf(c))
        /\ UNCHANGED <<mode, store, batches, used, raced, rewritten, broken, faults>>
  BY DEF DeleteCustomer
<1>2. RequestsFit' /\ calls' \in 0..MaxCalls
  BY <1>1, IdleFits, MoveFits, DocumentsAssumption DEF Ask, Types, TypeOK
<1>3. customer' \in [Customers -> Customer \cup {None}]
  BY <1>1, PutCustomer
<1>4. doc' \in [Docs -> Document \cup {None}] /\ orphaned' \subseteq Docs
  BY <1>1 DEF Cascade, DocsOf, Types, TypeOK
<1>. QED BY <1>1, <1>2, <1>3, <1>4, StepTypes DEF Types, TypeOK, store, batches

LEMMA MergeTypes == ASSUME Types, NEW t \in Requests, Merge(t) PROVE Types'
<1>1. PICK c \in Customers, i \in Customers : c = req[t].cust /\ i = req[t].into
  BY DEF Merge, Types, Shaped, At, OnCustomer
<1>2. RequestsFit'
  BY FinishFits DEF Merge
<1>3. CASE customer[c] = None
  BY <1>1, <1>2, <1>3, StepTypes DEF Merge, Types, TypeOK, store, batches
<1>4. CASE customer[c] # None
  <2>1. customer' \in [Customers -> Customer \cup {None}]
    BY <1>1, <1>4, PutCustomer DEF Merge
  <2>2. orphaned' \subseteq Docs
    BY <1>1, <1>4 DEF Merge, DocsOf, Types, TypeOK
  <2>3. doc' \in [Docs -> Document \cup {None}]
    <3>1. PICK lost : doc' = [d \in Docs |-> IF d \in lost THEN None
                                ELSE IF d \in DocsOf(c) THEN [doc[d] EXCEPT !.cust = i] ELSE doc[d]]
      BY <1>1, <1>4 DEF Merge
    <3>2. ASSUME NEW d \in Docs PROVE doc'[d] \in Document \cup {None}
      <4>1. CASE d \in DocsOf(c) /\ d \notin lost
        <5>1. doc[d] \in Document
          BY <4>1 DEF DocsOf, Types, TypeOK
        <5>2. doc'[d] = [doc[d] EXCEPT !.cust = i]
          BY <3>1, <4>1
        <5>. QED BY <5>1, <5>2 DEF Document
      <4>2. CASE d \in lost \/ d \notin DocsOf(c)
        BY <3>1, <4>2 DEF Types, TypeOK
      <4>. QED BY <4>1, <4>2
    <3>3. doc' = [d \in Docs |-> doc'[d]]
      BY <3>1
    <3>. QED BY <3>2, <3>3
  <2>. QED BY <1>2, <2>1, <2>2, <2>3, StepTypes DEF Merge, Types, TypeOK, store, batches
<1>. QED BY <1>3, <1>4

LEMMA OutsideTypes ==
  ASSUME Types, NEW d \in Docs, ClientPuts(d) \/ UrlLapses(d) \/ Expire(d)
  PROVE  Types'
<1>1. RequestsFit /\ req' = req /\ BatchesFit /\ UNCHANGED <<mode, customer, spent, cron, purge, used, raced, rewritten, broken, calls, faults>>
  BY TypesAreFits DEF ClientPuts, UrlLapses, Expire, batches, store, history
<1>2. RequestsFit' /\ BatchesFit'
  BY <1>1 DEF RequestsFit, BatchesFit, Fits
<1>3. doc' \in [Docs -> Document \cup {None}]
  <2>1. CASE Expire(d)
    <3>1. PICK v : v = [doc[d] EXCEPT !.expired = TRUE]
      OBVIOUS
    <3>2. doc[d] \in Document
      BY <2>1 DEF Expire, Types, TypeOK
    <3>3. v \in Document
      BY <3>1, <3>2, FlagIsDocument
    <3>4. doc' = [doc EXCEPT ![d] = v]
      BY <2>1, <3>1 DEF Expire
    <3>. QED BY <3>3, <3>4, PutDocument
  <2>2. CASE ClientPuts(d) \/ UrlLapses(d)
    BY <2>2 DEF ClientPuts, UrlLapses, Types, TypeOK
  <2>. QED BY <2>1, <2>2
<1>4. blob' \subseteq spent /\ url' \subseteq spent /\ orphaned' \subseteq Docs
  BY DEF ClientPuts, UrlLapses, Expire, store, history, Types, TypeOK
<1>5. TypeOK'
  BY <1>1, <1>2, <1>3, <1>4 DEF Types, TypeOK, RequestsFit
<1>. QED BY <1>2, <1>5, TypesAreFits, PTL

LEMMA CronTypes == ASSUME Types, CronStep \/ AuditFails PROVE Types'
<1>1. UNCHANGED <<mode, customer, blob, url, spent, req, purge, used, raced, rewritten, orphaned, broken, calls>>
  BY DEF CronStep, CronFinds, CronPicks, CronWrites, CronAudits, AuditFails, store, history
<1>0. faults' \in 0..MaxFaults
  BY DocumentsAssumption DEF CronStep, CronFinds, CronPicks, CronWrites, CronAudits, AuditFails, Fault, Types, TypeOK
<1>2. /\ cron' \in CronBatch
      /\ cron'.at \in {"write", "audit", "fail"} => cron'.doc \in Docs
  <2>1. CASE CronFinds
    <3>1. \A d \in Docs : doc[d] # None => doc[d].cust \in Customers
      BY DEF Types, TypeOK, Document
    <3>2. PICK waiting \in SUBSET Docs :
            /\ \A d \in waiting : doc[d] # None
            /\ cron' = [NoBatch EXCEPT !.at = "pick", !.found = {<<d, doc[d].cust>> : d \in waiting}]
      <4>. DEFINE W == {d \in Docs : doc[d] # None /\ doc[d].done /\ ~doc[d].applied /\ doc[d].ocr = "PENDING"}
      <4>1. W \in SUBSET Docs /\ (\A d \in W : doc[d] # None)
        OBVIOUS
      <4>2. cron' = [NoBatch EXCEPT !.at = "pick", !.found = {<<d, doc[d].cust>> : d \in W}]
        BY <2>1 DEF CronFinds
      <4>. QED BY <4>1, <4>2
    <3>3. cron'.at = "pick" /\ cron'.doc = None /\ cron'.found = {<<d, doc[d].cust>> : d \in waiting}
          /\ cron' = [at |-> cron'.at, found |-> cron'.found, doc |-> cron'.doc]
      BY <3>2 DEF NoBatch
    <3>4. cron'.found \in SUBSET (Docs \X Customers)
      BY <3>1, <3>2, <3>3
    <3>. QED BY <3>3, <3>4 DEF CronBatch
  <2>2. CASE CronPicks
    <3>1. \A f \in cron.found : f[1] \in Docs /\ f[2] \in Customers
      BY DEF Types, TypeOK, CronBatch
    <3>2. CASE cron.found = {}
      BY <2>2, <3>2 DEF CronPicks, NoBatch, CronBatch
    <3>3. CASE cron.found # {}
      BY <2>2, <3>1, <3>3 DEF CronPicks, Types, TypeOK, CronBatch
    <3>. QED BY <3>2, <3>3
  <2>3. CASE CronWrites
    <3>1. CASE cron' = NoBatch
      BY <3>1 DEF NoBatch, CronBatch
    <3>2. CASE NextRow
      BY <3>2 DEF NextRow, Types, TypeOK, CronBatch
    <3>3. CASE cron.at = "write" /\ cron' = [cron EXCEPT !.at = "audit"]
      BY <3>3 DEF Types, TypeOK, Shaped, CronBatch
    <3>. QED BY <2>3, <3>1, <3>2, <3>3 DEF CronWrites
  <2>4. CASE CronAudits \/ AuditFails
    BY <2>4 DEF CronAudits, AuditFails, NextRow, Types, TypeOK, Shaped, CronBatch
  <2>. QED BY <2>1, <2>2, <2>3, <2>4 DEF CronStep
<1>3. doc' \in [Docs -> Document \cup {None}]
  <2>1. CASE CronWrites
    <3>1. cron.doc \in Docs
      BY <2>1 DEF CronWrites, Types, Shaped
    <3>2. CASE doc[cron.doc] = None
      BY <2>1, <3>2 DEF CronWrites, Types, TypeOK
    <3>3. CASE doc[cron.doc] # None
      BY <2>1, <3>1, <3>3, SuggestionTypes DEF CronWrites, Ready, Failed, Suggestions
    <3>. QED BY <3>2, <3>3
  <2>2. CASE CronFinds \/ CronPicks \/ CronAudits \/ AuditFails
    BY <2>2 DEF CronFinds, CronPicks, CronAudits, AuditFails, Types, TypeOK
  <2>. QED BY <2>1, <2>2 DEF CronStep
<1>4. BatchesFit'
  BY <1>1, <1>2 DEF BatchesFit, Types, Shaped
<1>. QED BY <1>0, <1>1, <1>2, <1>3, <1>4, BatchTypes DEF Types, TypeOK

LEMMA PurgeTypes == ASSUME Types, PurgeStep \/ PurgeShredFails PROVE Types'
<1>1. UNCHANGED <<mode, customer, url, spent, req, cron, used, raced, rewritten, broken, calls>>
  BY DEF PurgeStep, PurgeFinds, PurgeShreds, PurgeDrops, PurgeShredFails, store, history
<1>2. faults' \in 0..MaxFaults
  BY DocumentsAssumption DEF PurgeStep, PurgeFinds, PurgeShreds, PurgeDrops, PurgeShredFails, Fault, history, Types, TypeOK
<1>3. /\ purge' \in PurgeBatch
      /\ purge'.at = "drop" => purge'.doc \in Docs
  <2>1. CASE PurgeFinds
    BY <2>1 DEF PurgeFinds, NoBatch, PurgeBatch
  <2>2. CASE PurgeShreds
    <3>1. CASE purge.found = {}
      BY <2>2, <3>1 DEF PurgeShreds, NoBatch, PurgeBatch
    <3>2. CASE purge.found # {}
      BY <2>2, <3>2 DEF PurgeShreds, Types, TypeOK, PurgeBatch
    <3>. QED BY <3>1, <3>2
  <2>3. CASE PurgeDrops
    <3>1. CASE purge' = NoBatch
      BY <3>1 DEF NoBatch, PurgeBatch
    <3>2. CASE purge' = [purge EXCEPT !.at = "pick", !.doc = None]
      BY <3>2 DEF Types, TypeOK, PurgeBatch
    <3>. QED BY <2>3, <3>1, <3>2 DEF PurgeDrops
  <2>4. CASE PurgeShredFails
    <3>1. PICK d \in purge.found :
            \/ purge.at = "pick" /\ purge' = [purge EXCEPT !.found = @ \ {d}]
            \/ purge' = [at |-> "drop", found |-> purge.found \ {d}, doc |-> d]
      BY <2>4 DEF PurgeShredFails
    <3>. QED BY <3>1 DEF Types, TypeOK, PurgeBatch
  <2>. QED BY <2>1, <2>2, <2>3, <2>4 DEF PurgeStep
<1>4. doc' \in [Docs -> Document \cup {None}] /\ orphaned' \subseteq Docs /\ blob' \subseteq spent
  <2>1. CASE PurgeFinds \/ PurgeShreds
    BY <2>1 DEF PurgeFinds, PurgeShreds, store, history, Types, TypeOK
  <2>2. CASE PurgeDrops
    BY <2>2 DEF PurgeDrops, DropRow, store, Types, TypeOK, Shaped
  <2>3. CASE PurgeShredFails
    BY <2>3 DEF PurgeShredFails, store, Types, TypeOK, PurgeBatch
  <2>. QED BY <2>1, <2>2, <2>3 DEF PurgeStep
<1>5. BatchesFit'
  BY <1>1, <1>3 DEF BatchesFit, Types, Shaped
<1>. QED BY <1>1, <1>2, <1>3, <1>4, <1>5, BatchTypes DEF Types, TypeOK

LEMMA DeathTypes ==
  ASSUME Types, \/ \E t \in Requests : RequestDies(t)
                \/ CronDies \/ PurgeDies
  PROVE  Types'
<1>1. ASSUME NEW t \in Requests, RequestDies(t) PROVE Types'
  <2>1. RequestsFit'
    BY <1>1, FinishFits DEF RequestDies
  <2>2. orphaned' \subseteq Docs /\ broken' \subseteq Docs
    BY <1>1 DEF RequestDies, Dies, Types, TypeOK, PurgeBatch, Shaped, OnDocument
  <2>. QED BY <1>1, <2>1, <2>2, StepTypes, DocumentsAssumption DEF RequestDies, Dies, Fault, Types, TypeOK, store, batches
<1>2. CASE CronDies
  <2>1. BatchesFit' /\ cron' \in CronBatch
    BY <1>2 DEF CronDies, NoBatch, CronBatch, BatchesFit, Types, Shaped
  <2>2. orphaned' = orphaned /\ broken' = broken /\ faults' \in 0..MaxFaults
    BY <1>2, DocumentsAssumption DEF CronDies, Dies, Fault, Types, TypeOK
  <2>. QED BY <1>2, <2>1, <2>2, BatchTypes DEF CronDies, Dies, store, Types, TypeOK
<1>3. CASE PurgeDies
  <2>1. BatchesFit' /\ purge' \in PurgeBatch
    BY <1>3 DEF PurgeDies, NoBatch, PurgeBatch, BatchesFit, Types, Shaped
  <2>2. orphaned' \subseteq Docs /\ broken' \subseteq Docs /\ faults' \in 0..MaxFaults
    BY <1>3, DocumentsAssumption DEF PurgeDies, Dies, Fault, Types, TypeOK, PurgeBatch, Shaped
  <2>. QED BY <1>3, <2>1, <2>2, BatchTypes DEF PurgeDies, Dies, store, Types, TypeOK
<1>. QED BY <1>1, <1>2, <1>3

LEMMA StillTypes == ASSUME Types, UNCHANGED vars PROVE Types'
<1>1. TypeOK'
  BY DEF vars, Types, TypeOK, store, batches, history
<1>2. RequestsFit' /\ BatchesFit'
  BY TypesAreFits DEF vars, batches, RequestsFit, BatchesFit, Fits
<1>. QED BY <1>1, <1>2, TypesAreFits, PTL

LEMMA NextTypes == ASSUME Types, [Next]_vars PROVE Types'
<1>1. ASSUME NEW t \in Requests, RequestBegins(t) PROVE Types'
  BY <1>1, UploadTypes, PresignTypes, AskTypes, DeleteTypes DEF RequestBegins
<1>2. ASSUME NEW t \in Requests, RequestStep(t) \/ UploadFails(t) \/ ShredFails(t) PROVE Types'
  BY <1>2, InsertTypes, QuietTypes, CompleteTypes, PendTypes, RemovalTypes, ResultTypes, ApplyTypes, EditTypes,
     AnonymizeTypes, MergeTypes DEF RequestStep
<1>. QED BY <1>1, <1>2, OutsideTypes, CronTypes, PurgeTypes, DeathTypes, StillTypes DEF Next

-----------------------------------------------------------------------------
(***************************************************************************)
(* Edits and anonymised customers.                                         *)
(***************************************************************************)

\* Nobody learns of an anonymised customer and edits it all the same.
Unknowing == \A t \in Requests : req'[t] = req[t] \/ req'[t].at # "edit" \/ ~req'[t].known

LEMMA EditKept ==
  ASSUME EditInv, Unknowing, rewritten' = rewritten, \A c \in Customers : customer'[c] \in {customer[c], None}
  PROVE  EditInv'
BY DEF EditInv, RedactionHolds, Unknowing, At

LEMMA FinishUnknowing == ASSUME Types, NEW t \in Requests, Finish(t) PROVE Unknowing
BY DEF Finish, Go, Idle, Unknowing, Types, TypeOK

LEMMA BeginEdit == ASSUME Types, EditInv, NEW t \in Requests, RequestBegins(t) PROVE EditInv'
<1>1. rewritten' = rewritten /\ \A c \in Customers : customer'[c] \in {customer[c], None}
  BY DEF RequestBegins, Upload, Presign, AskComplete, AskRemove, AskMock, AskDismiss, AskCallback, AskApply, AskEdit,
         AskAnonymize, DeleteCustomer, AskMerge, history, Types, TypeOK
<1>2. CASE AskEdit(t)
  <2>1. PICK c \in Customers : ~customer[c].anonymized /\ Go(t, [Idle EXCEPT !.at = "edit", !.cust = c, !.known = customer[c].anonymized])
    BY <1>2 DEF AskEdit, Ask
  <2>2. Unknowing
    BY <2>1 DEF Go, Idle, Unknowing, Types, TypeOK
  <2>. QED BY <1>1, <2>2, EditKept
<1>3. CASE ~AskEdit(t)
  <2>1. \E p : p.at # "edit" /\ Go(t, p)
    BY <1>3 DEF RequestBegins, Upload, Presign, AskComplete, AskRemove, AskMock, AskDismiss, AskCallback, AskApply,
                AskAnonymize, DeleteCustomer, AskMerge, Ask, Idle
  <2>2. Unknowing
    BY <2>1 DEF Go, Unknowing, Types, TypeOK
  <2>. QED BY <1>1, <2>2, EditKept
<1>. QED BY <1>2, <1>3

\* The steps that write no name.
LEMMA StepEdit ==
  ASSUME Types, EditInv, NEW t \in Requests,
         \/ Insert(t) \/ Head(t) \/ Complete(t) \/ Queue(t) \/ Pend(t) \/ Return(t) \/ Shred(t) \/ Drop(t)
         \/ Mock(t) \/ Dismiss(t) \/ Callback(t) \/ Move(t) \/ Merge(t)
         \/ UploadFails(t) \/ ShredFails(t) \/ RequestDies(t)
  PROVE  EditInv'
<1>1. rewritten' = rewritten /\ \A c \in Customers : customer'[c] \in {customer[c], None}
  BY DEF Insert, Head, Complete, Queue, Pend, Return, Shred, Drop, Mock, Dismiss, Callback, Move, Merge,
         UploadFails, ShredFails, RequestDies, Dies, history, Types, TypeOK
<1>2. \/ Finish(t)
      \/ \E step \in {"queue", "complete", "shred", "return", "pend", "drop"} : Go(t, [req[t] EXCEPT !.at = step])
      \/ Go(t, [req[t] EXCEPT !.at = "merge", !.moved = DocsOf(req[t].cust)])
  BY DEF Insert, Head, Complete, Queue, Pend, Return, Shred, Drop, Mock, Dismiss, Callback, Move, Merge,
         UploadFails, ShredFails, RequestDies, Finish
<1>3. req[t] \in Request
  BY DEF Types, TypeOK
<1>4. CASE Finish(t)
  BY <1>1, <1>4, FinishUnknowing, EditKept
<1>5. CASE ~Finish(t)
  <2>1. \E p : p.at # "edit" /\ Go(t, p)
    BY <1>2, <1>3, <1>5 DEF Request
  <2>2. Unknowing
    BY <2>1 DEF Go, Unknowing, Types, TypeOK
  <2>. QED BY <1>1, <2>2, EditKept
<1>. QED BY <1>4, <1>5

\* applyOcrSuggestion and update say which anonymised customers they fill.
LEMMA NamingEdit ==
  ASSUME Types, EditInv, NEW t \in Requests, Apply(t) \/ Edit(t)
  PROVE  EditInv'
<1>1. Unknowing
  BY FinishUnknowing DEF Apply, Edit
<1>2. PICK c \in Customers : c = req[t].cust
  BY DEF Apply, Edit, Types, Shaped, At, OnCustomer
<1>3. \/ UNCHANGED <<customer, rewritten>>
      \/ /\ customer' = [customer EXCEPT ![c].name = "personal"] /\ rewritten \subseteq rewritten'
         /\ customer[c] # None /\ (customer[c].anonymized => c \in rewritten')
  BY <1>2 DEF Apply, Edit, EditInv, At
<1>4. RedactionHolds'
  <2>1. CASE UNCHANGED <<customer, rewritten>>
    BY <2>1 DEF EditInv, RedactionHolds
  <2>2. CASE ~UNCHANGED <<customer, rewritten>>
    <3>1. customer[c] \in Customer
      BY <1>3, <2>2 DEF Types, TypeOK
    <3>. QED BY <1>3, <2>2, <3>1 DEF EditInv, RedactionHolds, Types, TypeOK, Customer
  <2>. QED BY <2>1, <2>2
<1>. QED BY <1>1, <1>4 DEF EditInv, Unknowing, At

LEMMA AnonymizeEdit == ASSUME Types, EditInv, NEW t \in Requests, Anonymize(t) PROVE EditInv'
<1>1. Unknowing
  BY FinishUnknowing DEF Anonymize
<1>2. RedactionHolds'
  BY DEF Anonymize, EditInv, RedactionHolds, Types, TypeOK, history
<1>. QED BY <1>1, <1>2 DEF EditInv, Unknowing, At

LEMMA NextEdit == ASSUME Types, EditInv, [Next]_vars PROVE EditInv'
<1>1. ASSUME NEW t \in Requests, RequestStep(t) PROVE EditInv'
  BY <1>1, StepEdit, NamingEdit, AnonymizeEdit DEF RequestStep
<1>2. ASSUME \/ \E d \in Docs : ClientPuts(d) \/ UrlLapses(d) \/ Expire(d)
             \/ CronStep \/ AuditFails \/ CronDies \/ PurgeStep \/ PurgeShredFails \/ PurgeDies \/ UNCHANGED vars
      PROVE  EditInv'
  <2>1. UNCHANGED <<customer, req, rewritten>>
    BY <1>2 DEF ClientPuts, UrlLapses, Expire, CronStep, CronFinds, CronPicks, CronWrites, CronAudits, AuditFails, CronDies,
         PurgeStep, PurgeFinds, PurgeShreds, PurgeDrops, PurgeShredFails, PurgeDies, Dies, history, batches, vars
  <2>. QED BY <2>1 DEF EditInv, RedactionHolds, At
<1>. QED BY <1>1, <1>2, BeginEdit, StepEdit DEF Next

-----------------------------------------------------------------------------
(***************************************************************************)
(* Suggestions that were applied.                                          *)
(***************************************************************************)

Writing(p, d) == p.doc = d /\ p.at \in {"pend", "mock", "dismiss", "callback", "apply"}
Applied(d) == doc[d] # None /\ doc[d].applied

LEMMA RacesAre ==
  RacesSeen <=> \A d \in Docs : Applied(d) /\ ((\E t \in Requests : Writing(req[t], d)) \/ CronHolds(d)) => d \in raced
BY DEF RacesSeen, Writers, Writing, Applied

LEMMA RacesWere ==
  RacesSeen' <=>
    \A d \in Docs : Applied(d)' /\ ((\E t \in Requests : Writing(req'[t], d)) \/ CronHolds(d)') => d \in raced'
BY DEF RacesSeen, Writers, Writing, Applied

\* What an applied document says changes only under a writer known to race.
SaysTheSame ==
  \A d \in Docs : Applied(d)' => Applied(d) /\ (doc'[d].sug = doc[d].sug \/ d \in raced)

\* Nobody reads an applied document and goes on to write to it.
NoLateReader ==
  \A d \in Docs : Applied(d)' =>
    /\ \A t \in Requests : Writing(req'[t], d) => Writing(req[t], d)
    /\ CronHolds(d)' => CronHolds(d)

LEMMA ApplyKept ==
  ASSUME ApplyInv, SaysTheSame, NoLateReader, UNCHANGED <<used, raced>>
  PROVE  ApplyInv'
<1>1. RacesSeen'
  BY RacesAre, RacesWere DEF ApplyInv, SaysTheSame, NoLateReader
<1>2. AppliedIsShown'
  BY DEF ApplyInv, AppliedIsShown, SaysTheSame, Applied
<1>. QED BY <1>1, <1>2 DEF ApplyInv

\* A request that goes on to something else than a write to a document.
GoesOn(t) == \E p : Go(t, p) /\ p.at \notin {"pend", "mock", "dismiss", "callback", "apply"}

LEMMA GoesOnLate ==
  ASSUME Types, NEW t \in Requests, GoesOn(t), cron' = cron
  PROVE  NoLateReader
BY DEF GoesOn, Go, NoLateReader, Writing, CronHolds, Types, TypeOK

\* Where a request that writes to no document is.
LEMMA ElsewhereGoesOn ==
  ASSUME NEW t \in Requests, NEW p, Go(t, p),
         p.at \in {"idle", "insert", "head", "complete", "queue", "return", "shred", "drop", "edit", "anonymize", "move", "merge"}
  PROVE  GoesOn(t)
BY DEF GoesOn

LEMMA FinishGoesOn == ASSUME NEW t \in Requests, Finish(t) PROVE GoesOn(t)
BY DEF Finish, GoesOn, Idle

LEMMA SameDocs == ASSUME doc' = doc PROVE SaysTheSame
BY DEF SaysTheSame, Applied

LEMMA BeginApply == ASSUME Types, ApplyInv, NEW t \in Requests, RequestBegins(t) PROVE ApplyInv'
<1>1. UNCHANGED <<used, raced, cron>>
  BY DEF RequestBegins, Upload, Presign, AskComplete, AskRemove, AskMock, AskDismiss, AskCallback, AskApply, AskEdit,
         AskAnonymize, DeleteCustomer, AskMerge, history, batches
<1>2. CASE AskMock(t) \/ AskDismiss(t) \/ AskCallback(t) \/ AskApply(t)
  <2>1. PICK p : p.doc \in Docs /\ doc[p.doc] # None /\ ~doc[p.doc].applied /\ Go(t, p)
    BY <1>2 DEF AskMock, AskDismiss, AskCallback, AskApply, Ask, Idle
  <2>2. doc' = doc
    BY <1>2 DEF AskMock, AskDismiss, AskCallback, AskApply
  <2>3. NoLateReader
    BY <1>1, <2>1, <2>2 DEF Go, NoLateReader, Writing, CronHolds, Types, TypeOK, Applied
  <2>. QED BY <1>1, <2>2, <2>3, SameDocs, ApplyKept
<1>3. CASE AskComplete(t) \/ AskRemove(t) \/ Upload(t) \/ AskEdit(t) \/ AskAnonymize(t) \/ AskMerge(t)
  <2>1. req'[t].at \in {"head", "shred", "insert", "edit", "anonymize", "move"} /\ \A u \in Requests \ {t} : req'[u] = req[u]
    <3>1. CASE AskComplete(t)
      BY <3>1 DEF AskComplete, Ask, Go, Idle, Types, TypeOK
    <3>5. CASE AskRemove(t)
      BY <3>5 DEF AskRemove, Ask, Go, Idle, Types, TypeOK
    <3>6. CASE Upload(t)
      BY <3>6 DEF Upload, Ask, Go, Idle, Types, TypeOK
    <3>2. CASE AskEdit(t)
      BY <3>2 DEF AskEdit, Ask, Go, Idle, Types, TypeOK
    <3>3. CASE AskAnonymize(t)
      BY <3>3 DEF AskAnonymize, Ask, Go, Idle, Types, TypeOK
    <3>4. CASE AskMerge(t)
      BY <3>4 DEF AskMerge, Ask, Go, Idle, Types, TypeOK
    <3>. QED BY <1>3, <3>1, <3>2, <3>3, <3>4, <3>5, <3>6
  <2>3. NoLateReader
    BY <1>1, <2>1 DEF NoLateReader, Writing, CronHolds
  <2>2. doc' = doc
    BY <1>3 DEF AskComplete, AskRemove, Upload, AskEdit, AskAnonymize, AskMerge
  <2>. QED BY <1>1, <2>2, <2>3, SameDocs, ApplyKept
<1>4. CASE Presign(t) \/ DeleteCustomer(t)
  <2>1. GoesOn(t)
    BY <1>4, FinishGoesOn DEF Presign, DeleteCustomer, Ask, Finish
  <2>2. SaysTheSame
    BY <1>4 DEF Presign, DeleteCustomer, Cascade, DocsOf, New, SaysTheSame, Applied, Types, TypeOK
  <2>. QED BY <1>1, <2>1, <2>2, GoesOnLate, ApplyKept
<1>. QED BY <1>2, <1>3, <1>4 DEF RequestBegins

\* Steps that leave applied documents as they are.
LEMMA StepApply ==
  ASSUME Types, ApplyInv, NEW t \in Requests,
         \/ Insert(t) \/ Head(t) \/ Complete(t) \/ Queue(t) \/ Return(t) \/ Shred(t) \/ Drop(t)
         \/ Edit(t) \/ Anonymize(t) \/ Move(t) \/ Merge(t) \/ UploadFails(t) \/ ShredFails(t) \/ RequestDies(t)
  PROVE  ApplyInv'
<1>0. req[t] \in Request
  BY DEF Types, TypeOK
<1>1. UNCHANGED <<used, raced, cron>>
  BY DEF Insert, Head, Complete, Queue, Return, Shred, Drop, Edit, Anonymize, Move, Merge, UploadFails, ShredFails,
         RequestDies, Dies, history, batches
<1>2. SaysTheSame
  <2>1. CASE doc' = doc
    BY <2>1, SameDocs
  <2>2. CASE Insert(t) \/ Drop(t)
    <3>1. doc' = doc \/ \E d \in Docs : \E v : doc' = [doc EXCEPT ![d] = v] /\ (v = None \/ ~v.applied)
      BY <2>2 DEF Insert, Drop, DropRow, New, Types, Shaped, At, OnDocument
    <3>. QED BY <3>1 DEF SaysTheSame, Applied, Types, TypeOK
  <2>4. CASE Complete(t)
    <3>1. PICK d \in Docs : d = req[t].doc
      BY <2>4 DEF Complete, Types, Shaped, At, OnDocument
    <3>2. CASE doc[d] = None
      BY <2>4, <3>1, <3>2, SameDocs DEF Complete
    <3>3. CASE doc[d] # None
      <4>1. doc' = [doc EXCEPT ![d].done = TRUE]
        BY <2>4, <3>1, <3>3 DEF Complete
      <4>2. doc[d] \in Document
        BY <3>3 DEF Types, TypeOK
      <4>. QED BY <3>3, <4>1, <4>2 DEF SaysTheSame, Applied, Types, TypeOK, Document
    <3>. QED BY <3>2, <3>3
  <2>3. CASE Merge(t)
    <3>1. \A d \in Docs : doc[d] # None => doc[d] \in Document
      BY DEF Types, TypeOK
    <3>2. \A d \in Docs : doc'[d] # None => /\ doc[d] # None
                                            /\ doc'[d] = doc[d] \/ \E c : doc'[d] = [doc[d] EXCEPT !.cust = c]
      BY <2>3 DEF Merge, DocsOf, Types, TypeOK
    <3>. QED BY <3>1, <3>2 DEF SaysTheSame, Applied, Document
  <2>. QED BY <2>1, <2>2, <2>3, <2>4 DEF Head, Queue, Return, Shred, Edit, Anonymize, Move, UploadFails, ShredFails, RequestDies, Dies
<1>3. CASE Queue(t)
  <2>1. PICK d \in Docs : d = req[t].doc
    BY <1>3 DEF Queue, At, Types, Shaped, OnDocument
  <2>2. PICK p : Go(t, p) /\ p.doc = d /\ (p.at = "return" \/ (p.at = "pend" /\ ~Applied(d)))
    BY <1>0, <1>3, <2>1 DEF Queue, Applied, Request
  <2>3. doc' = doc
    BY <1>3 DEF Queue
  <2>4. NoLateReader
    BY <1>1, <2>2, <2>3 DEF Go, NoLateReader, Writing, CronHolds, Applied, Types, TypeOK
  <2>. QED BY <1>1, <1>2, <2>4, ApplyKept
<1>4. CASE ~Queue(t)
  <2>1. CASE Finish(t)
    BY <1>1, <1>2, <2>1, FinishGoesOn, GoesOnLate, ApplyKept
  <2>2. CASE ~Finish(t)
    <3>1. \/ \E step \in {"queue", "complete", "shred", "drop"} : Go(t, [req[t] EXCEPT !.at = step])
          \/ Go(t, [req[t] EXCEPT !.at = "merge", !.moved = DocsOf(req[t].cust)])
      BY <1>4, <2>2 DEF Insert, Head, Complete, Return, Shred, Drop, Edit, Anonymize, Move, Merge, UploadFails, ShredFails,
         RequestDies, Finish
    <3>2. \E p : Go(t, p) /\ p.at \in {"queue", "complete", "shred", "drop", "merge"}
      <4>1. CASE Go(t, [req[t] EXCEPT !.at = "merge", !.moved = DocsOf(req[t].cust)])
        <5>1. PICK p : p = [req[t] EXCEPT !.at = "merge", !.moved = DocsOf(req[t].cust)]
          OBVIOUS
        <5>2. p.at = "merge" /\ Go(t, p)
          BY <1>0, <4>1, <5>1 DEF Request
        <5>. QED BY <5>2
      <4>2. CASE \E step \in {"queue", "complete", "shred", "drop"} : Go(t, [req[t] EXCEPT !.at = step])
        <5>1. PICK step \in {"queue", "complete", "shred", "drop"} : Go(t, [req[t] EXCEPT !.at = step])
          BY <4>2
        <5>2. PICK p : p = [req[t] EXCEPT !.at = step]
          OBVIOUS
        <5>3. p.at = step /\ Go(t, p)
          BY <1>0, <5>1, <5>2 DEF Request
        <5>. QED BY <5>3
      <4>. QED BY <3>1, <4>1, <4>2
    <3>3. GoesOn(t)
      BY <3>2, ElsewhereGoesOn
    <3>. QED BY <1>1, <1>2, <3>3, GoesOnLate, ApplyKept
  <2>. QED BY <2>1, <2>2
<1>. QED BY <1>3, <1>4

\* A result is written by one who had read the document: if it was applied
\* since, it is known to race.
LEMMA ResultApply ==
  ASSUME Types, ApplyInv, NEW t \in Requests, Pend(t) \/ Mock(t) \/ Dismiss(t) \/ Callback(t)
  PROVE  ApplyInv'
<1>1. UNCHANGED <<used, raced, cron>>
  BY DEF Pend, Mock, Dismiss, Callback, history, batches
<1>2. PICK d \in Docs : d = req[t].doc /\ Writing(req[t], d)
  BY DEF Pend, Mock, Dismiss, Callback, At, Types, Shaped, OnDocument, Writing
<1>3. Applied(d) => d \in raced
  BY <1>2, RacesAre DEF ApplyInv
<1>4. SaysTheSame
  <2>1. CASE doc' = doc
    BY <2>1, SameDocs
  <2>2. CASE doc' # doc
    <3>1. doc[d] # None /\ \E o, s : doc' = [doc EXCEPT ![d].ocr = o, ![d].sug = s]
      BY <1>2, <2>2 DEF Pend, Mock, Dismiss, Callback, Ready, Failed
    <3>2. doc[d] \in Document
      BY <3>1 DEF Types, TypeOK
    <3>. QED BY <1>3, <3>1, <3>2 DEF SaysTheSame, Applied, Types, TypeOK, Document
  <2>. QED BY <2>1, <2>2
<1>5. GoesOn(t)
  <2>1. CASE Finish(t)
    BY <2>1, FinishGoesOn
  <2>2. CASE ~Finish(t)
    <3>1. Go(t, [req[t] EXCEPT !.at = "return"]) /\ req[t] \in Request
      BY <2>2 DEF Pend, Mock, Dismiss, Callback, Types, TypeOK
    <3>. QED BY <3>1 DEF GoesOn, Request
  <2>. QED BY <2>1, <2>2
<1>. QED BY <1>1, <1>4, <1>5, GoesOnLate, ApplyKept

LEMMA ApplyApply == ASSUME Types, ApplyInv, NEW t \in Requests, Apply(t) PROVE ApplyInv'
<1>1. PICK d \in Docs, c \in Customers : d = req[t].doc /\ c = req[t].cust /\ req[t].at = "apply"
  BY DEF Apply, Types, Shaped, At, OnDocument, OnCustomer
<1>2. GoesOn(t) /\ cron' = cron
  BY FinishGoesOn DEF Apply, batches
<1>3. NoLateReader
  BY <1>2, GoesOnLate
<1>4. CASE customer[c] = None \/ doc[d] = None
  <2>1. UNCHANGED <<doc, used, raced>>
    BY <1>1, <1>4 DEF Apply
  <2>. QED BY <1>3, <2>1, SameDocs, ApplyKept
<1>5. CASE customer[c] # None /\ doc[d] # None
  <2>1. /\ doc' = [doc EXCEPT ![d].applied = TRUE]
        /\ used' = [used EXCEPT ![d] = req[t].sug]
        /\ raced' = IF doc[d].sug # req[t].sug \/ Writers(d) # {t} \/ CronHolds(d) THEN raced \cup {d} ELSE raced
    BY <1>1, <1>5 DEF Apply
  <2>2. doc[d] \in Document
    BY <1>5 DEF Types, TypeOK
  <2>3. /\ \A x \in Docs : x # d => doc'[x] = doc[x] /\ used'[x] = used[x] /\ (x \in raced' <=> x \in raced)
        /\ doc'[d].sug = doc[d].sug /\ used'[d] = req[t].sug /\ raced \subseteq raced'
    BY <2>1, <2>2 DEF Types, TypeOK, Document
  <2>4. AppliedIsShown'
    BY <2>1, <2>3 DEF ApplyInv, AppliedIsShown
  <2>5. ASSUME NEW x \in Docs, Applied(x)', (\E u \in Requests : Writing(req'[u], x)) \/ CronHolds(x)' PROVE x \in raced'
    <3>1. CASE x # d
      BY <2>3, <2>5, <3>1, <1>3, RacesAre DEF ApplyInv, NoLateReader, Applied
    <3>2. CASE x = d
      <4>1. CASE CronHolds(d)'
        BY <1>2, <2>1, <3>2, <4>1 DEF CronHolds
      <4>2. CASE \E u \in Requests : Writing(req'[u], d)
        <5>1. PICK u \in Requests : Writing(req'[u], d)
          BY <4>2
        <5>2. u # t
          BY <5>1 DEF Apply, Finish, Go, Idle, Writing, Types, TypeOK
        <5>3. u \in Writers(d)
          BY <5>1, <5>2 DEF Apply, Finish, Go, Writing, Writers, Types, TypeOK
        <5>. QED BY <2>1, <3>2, <5>2, <5>3
      <4>. QED BY <2>5, <3>2, <4>1, <4>2
    <3>. QED BY <3>1, <3>2
  <2>6. RacesSeen'
    BY <2>5, RacesWere
  <2>. QED BY <2>4, <2>6 DEF ApplyInv
<1>. QED BY <1>4, <1>5

LEMMA CronApply == ASSUME Types, ApplyInv, CronStep \/ AuditFails PROVE ApplyInv'
<1>1. UNCHANGED <<used, raced, req>>
  BY DEF CronStep, CronFinds, CronPicks, CronWrites, CronAudits, AuditFails, history
<1>2. SaysTheSame
  <2>1. CASE doc' = doc
    BY <2>1, SameDocs
  <2>2. CASE doc' # doc
    <3>1. PICK d \in Docs : d = cron.doc /\ doc[d] # None /\ \E o, s : doc' = [doc EXCEPT ![d].ocr = o, ![d].sug = s]
      BY <2>2 DEF CronStep, CronFinds, CronPicks, CronWrites, CronAudits, AuditFails, Ready, Failed, Types, Shaped
    <3>2. doc[d] \in Document
      BY <3>1 DEF Types, TypeOK
    <3>3. Applied(d) => d \in raced
      BY <3>1, RacesAre DEF ApplyInv, CronHolds
    <3>. QED BY <3>1, <3>2, <3>3 DEF SaysTheSame, Applied, Types, TypeOK, Document
  <2>. QED BY <2>1, <2>2
<1>3. ASSUME NEW d \in Docs, Applied(d)', CronHolds(d)' PROVE CronHolds(d)
  <2>1. CASE CronFinds
    <3>1. doc' = doc /\ cron' = [NoBatch EXCEPT !.at = "pick", !.found = {<<x, doc[x].cust>> :
            x \in {x \in Docs : doc[x] # None /\ doc[x].done /\ ~doc[x].applied /\ doc[x].ocr = "PENDING"}}]
      BY <2>1 DEF CronFinds
    <3>2. cron'.doc = None /\ \A f \in cron'.found : \E x \in Docs : f[1] = x /\ ~doc[x].applied
      BY <3>1 DEF NoBatch
    <3>. QED BY <1>3, <3>1, <3>2, DocumentsAssumption DEF CronHolds, Applied
  <2>2. CASE CronPicks
    <3>1. CASE cron.found = {}
      BY <1>3, <2>2, <3>1, DocumentsAssumption DEF CronPicks, CronHolds, NoBatch
    <3>2. CASE cron.found # {}
      BY <1>3, <2>2, <3>2 DEF CronPicks, CronHolds
    <3>. QED BY <3>1, <3>2
  <2>3. CASE CronWrites
    <3>1. CASE cron' = NoBatch
      BY <1>3, <3>1, DocumentsAssumption DEF CronHolds, NoBatch
    <3>2. CASE NextRow
      BY <1>3, <3>2, DocumentsAssumption DEF NextRow, CronHolds, Types, TypeOK, CronBatch
    <3>3. CASE cron' = [cron EXCEPT !.at = "audit"]
      BY <1>3, <3>3 DEF CronHolds, Types, TypeOK, CronBatch
    <3>. QED BY <2>3, <3>1, <3>2, <3>3 DEF CronWrites
  <2>4. CASE CronAudits
    BY <1>3, <2>4, DocumentsAssumption DEF CronAudits, NextRow, CronHolds, Types, TypeOK, CronBatch
  <2>5. CASE AuditFails
    BY <1>3, <2>5 DEF AuditFails, CronHolds, Types, TypeOK, CronBatch
  <2>. QED BY <2>1, <2>2, <2>3, <2>4, <2>5 DEF CronStep
<1>4. NoLateReader
  BY <1>1, <1>3 DEF NoLateReader
<1>. QED BY <1>1, <1>2, <1>4, ApplyKept

LEMMA OtherApply ==
  ASSUME Types, ApplyInv,
         \/ \E d \in Docs : ClientPuts(d) \/ UrlLapses(d) \/ Expire(d)
         \/ CronDies \/ PurgeStep \/ PurgeShredFails \/ PurgeDies \/ UNCHANGED vars
  PROVE  ApplyInv'
<1>1. UNCHANGED <<used, raced, req>>
  BY DEF ClientPuts, UrlLapses, Expire, CronDies, PurgeStep, PurgeFinds, PurgeShreds, PurgeDrops, PurgeShredFails, PurgeDies,
         Dies, history, vars
<1>2. SaysTheSame
  <2>1. CASE doc' = doc
    BY <2>1, SameDocs
  <2>2. CASE doc' # doc
    <3>1. \/ \E d \in Docs : doc[d] # None /\ doc' = [doc EXCEPT ![d].expired = TRUE]
          \/ \E d \in Docs : doc' = [doc EXCEPT ![d] = None]
      BY <2>2 DEF ClientPuts, UrlLapses, Expire, CronDies, PurgeStep, PurgeFinds, PurgeShreds, PurgeDrops, DropRow,
         PurgeShredFails, PurgeDies, Dies, vars, Types, Shaped
    <3>2. \A d \in Docs : doc[d] # None => doc[d] \in Document
      BY DEF Types, TypeOK
    <3>. QED BY <3>1, <3>2 DEF SaysTheSame, Applied, Types, TypeOK, Document
  <2>. QED BY <2>1, <2>2
<1>3. cron' \in {cron, NoBatch}
  BY DEF ClientPuts, UrlLapses, Expire, CronDies, PurgeStep, PurgeFinds, PurgeShreds, PurgeDrops, PurgeShredFails, PurgeDies,
         batches, vars
<1>4. NoLateReader
  BY <1>1, <1>3, DocumentsAssumption DEF NoLateReader, CronHolds, NoBatch
<1>. QED BY <1>1, <1>2, <1>4, ApplyKept

LEMMA NextApply == ASSUME Types, ApplyInv, [Next]_vars PROVE ApplyInv'
<1>1. ASSUME NEW t \in Requests, RequestStep(t) PROVE ApplyInv'
  BY <1>1, StepApply, ResultApply, ApplyApply DEF RequestStep
<1>. QED BY <1>1, BeginApply, StepApply, CronApply, OtherApply DEF Next

-----------------------------------------------------------------------------
(***************************************************************************)
(* Objects and rows.                                                       *)
(***************************************************************************)

Present(d) == doc[d] # None
Listed(d) == doc[d] # None /\ doc[d].done
Inserting(d) == \E t \in Requests : req[t].at = "insert" /\ req[t].doc = d
CompletesKept == \A t \in Requests, d \in Docs : req[t].at = "complete" /\ req[t].doc = d /\ Present(d) => Kept(d)
ListedKept == \A d \in Docs : Listed(d) => Kept(d)
StoredLed == \A d \in blob : Present(d) \/ d \in orphaned \/ Inserting(d)

LEMMA StorageParts ==
  Types => (StorageInv <=> IdsGivenOut /\ InsertsAlone /\ CompletesKept /\ ListedKept /\ StoredLed)
BY DEF StorageInv, CompletesKept, ListedKept, StoredLed, ListedIsStored, StoredIsListed, Kept, Listed, Present, Inserting, At,
       Types, Shaped, OnDocument

\* No id is given out, and nobody comes to work on a document without a row.
WorkAsBefore ==
  /\ spent' = spent
  /\ \A d \in Docs : Present(d)' => Present(d)
  /\ \A u \in Requests : req'[u].at \in OnDocument =>
       \/ req[u].at \in OnDocument /\ req'[u].doc = req[u].doc /\ (req'[u].at = "insert" => req[u].at = "insert")
       \/ req'[u].at # "insert" /\ req'[u].doc \in Docs /\ Present(req'[u].doc)
  /\ \A d \in purge'.found : d \in purge.found \/ (d \in Docs /\ Present(d))
  /\ \A d \in blob \ blob' :
       d \in purge.found \/ \E u \in Requests : req[u].at \in OnDocument \ {"insert"} /\ req[u].doc = d

LEMMA WorkKept ==
  ASSUME Types, IdsGivenOut, InsertsAlone, WorkAsBefore
  PROVE  IdsGivenOut' /\ InsertsAlone'
<1>1. IdsGivenOut'
  BY DEF IdsGivenOut, WorkAsBefore, Present
<1>2. ASSUME NEW t \in Requests, req'[t].at = "insert"
      PROVE  /\ req'[t].doc \in blob' /\ doc'[req'[t].doc] = None /\ req'[t].doc \notin purge'.found
             /\ \A u \in Requests : req'[u].at \in OnDocument /\ req'[u].doc = req'[t].doc => u = t
  <2>1. req[t].at = "insert" /\ req'[t].doc = req[t].doc /\ req[t].doc \in Docs
    BY <1>2 DEF WorkAsBefore, OnDocument, Types, Shaped
  <2>2. /\ req[t].doc \in blob /\ ~Present(req[t].doc) /\ req[t].doc \notin purge.found
        /\ \A u \in Requests : req[u].at \in OnDocument /\ req[u].doc = req[t].doc => u = t
    BY <2>1 DEF InsertsAlone, At, Present
  <2>. QED BY <2>1, <2>2 DEF WorkAsBefore, Present
<1>. QED BY <1>1, <1>2 DEF InsertsAlone, At

\* No object loses what leads to it.
StoredAsBefore ==
  /\ \A d \in blob' : d \in blob \/ Present(d)' \/ d \in orphaned' \/ Inserting(d)'
  /\ \A d \in blob' : Present(d) => Present(d)' \/ d \in orphaned'
  /\ orphaned \subseteq orphaned'
  /\ \A d \in blob' : Inserting(d) => Inserting(d)' \/ Present(d)' \/ d \in orphaned'

\* No row that stays loses its object without a reason.
KeptAsBefore ==
  /\ \A d \in Docs : Present(d)' /\ Kept(d) => Kept(d)'
  /\ \A d \in Docs : Listed(d)' => Listed(d) \/ Kept(d)'
  /\ \A t \in Requests, d \in Docs : req'[t].at = "complete" /\ req'[t].doc = d /\ Present(d)' =>
       \/ req[t].at = "complete" /\ req[t].doc = d /\ Present(d)
       \/ Kept(d)'

LEMMA StorageKept ==
  ASSUME Types, Types', StorageInv, IdsGivenOut', InsertsAlone', StoredAsBefore, KeptAsBefore
  PROVE  StorageInv'
<1>1. CompletesKept /\ ListedKept /\ StoredLed
  BY StorageParts
<1>2. CompletesKept'
  BY <1>1 DEF CompletesKept, KeptAsBefore
<1>3. ListedKept'
  BY <1>1 DEF ListedKept, KeptAsBefore, Listed, Present
<1>4. StoredLed'
  BY <1>1 DEF StoredLed, StoredAsBefore
<1>. QED BY <1>2, <1>3, <1>4, StorageParts, PTL

\* A step of request t that takes no row away, and no object without saying so.
Steady(t) ==
  /\ UNCHANGED <<spent, purge>>
  /\ \A u \in Requests \ {t} : req'[u] = req[u]
  /\ req[t].at \notin {"insert", "drop"} /\ req'[t].at # "insert"
  /\ req'[t].at \in OnDocument => \/ req[t].at \in OnDocument /\ req'[t].doc = req[t].doc
                                  \/ doc[req'[t].doc] # None
  /\ req'[t].at = "complete" => req'[t].doc \in blob'
  /\ \A d \in Docs : doc'[d] # None <=> doc[d] # None
  /\ \A d \in Docs : doc'[d] # None /\ doc'[d].done => doc[d].done \/ (req[t].at = "complete" /\ req[t].doc = d)
  /\ orphaned \subseteq orphaned' /\ broken \subseteq broken' /\ blob' \subseteq blob
  /\ \A d \in blob \ blob' :
       /\ req[t].at \in OnDocument /\ req[t].doc = d
       /\ doc[d] = None \/ d \in broken' \/ (req'[t].at = "drop" /\ req'[t].doc = d)

LEMMA SteadyStorage ==
  ASSUME Types, Types', StorageInv, NEW t \in Requests, Steady(t)
  PROVE  StorageInv'
<1>1. IdsGivenOut /\ InsertsAlone /\ CompletesKept /\ ListedKept /\ StoredLed
  BY StorageParts
<1>2. WorkAsBefore
  <2>1. req'[t].at \in OnDocument => req'[t].doc \in Docs
    BY DEF Types, Shaped
  <2>2. ASSUME NEW u \in Requests, req'[u].at \in OnDocument
        PROVE  \/ req[u].at \in OnDocument /\ req'[u].doc = req[u].doc /\ (req'[u].at = "insert" => req[u].at = "insert")
               \/ req'[u].at # "insert" /\ req'[u].doc \in Docs /\ Present(req'[u].doc)
    BY <2>1, <2>2 DEF Steady, Present
  <2>3. \A d \in blob \ blob' : \E u \in Requests : req[u].at \in OnDocument \ {"insert"} /\ req[u].doc = d
    BY DEF Steady
  <2>4. spent' = spent /\ purge' = purge /\ \A d \in Docs : Present(d)' => Present(d)
    BY DEF Steady, Present
  <2>. QED BY <2>2, <2>3, <2>4 DEF WorkAsBefore
<1>3. IdsGivenOut' /\ InsertsAlone'
  BY <1>1, <1>2, WorkKept
<1>4. StoredAsBefore
  <2>1. \A d \in Docs : Inserting(d) => Inserting(d)'
    BY DEF Steady, Inserting
  <2>2. blob' \subseteq Docs
    BY DEF Types, TypeOK
  <2>. QED BY <2>1, <2>2 DEF Steady, StoredAsBefore, Present
<1>5. KeptAsBefore
  <2>1. ASSUME NEW d \in Docs, Present(d)', Kept(d) PROVE Kept(d)'
    <3>1. CASE d \in blob
      BY <2>1, <3>1 DEF Steady, Present, Kept, At
    <3>2. CASE d \notin blob
      BY <2>1, <3>2 DEF Steady, Kept, At
    <3>. QED BY <3>1, <3>2
  <2>2. ASSUME NEW d \in Docs, Listed(d)', ~Listed(d) PROVE Kept(d)'
    <3>1. Present(d) /\ Present(d)' /\ req[t].at = "complete" /\ req[t].doc = d
      BY <2>2 DEF Steady, Listed, Present
    <3>2. Kept(d)
      BY <1>1, <3>1 DEF CompletesKept
    <3>. QED BY <2>1, <3>1, <3>2
  <2>3. ASSUME NEW u \in Requests, NEW d \in Docs, req'[u].at = "complete", req'[u].doc = d, Present(d)'
        PROVE  (req[u].at = "complete" /\ req[u].doc = d /\ Present(d)) \/ Kept(d)'
    <3>1. CASE u = t
      BY <2>3, <3>1 DEF Steady, Kept
    <3>2. CASE u # t
      BY <2>3, <3>2 DEF Steady, Present
    <3>. QED BY <3>1, <3>2
  <2>. QED BY <2>1, <2>2, <2>3 DEF KeptAsBefore
<1>. QED BY <1>3, <1>4, <1>5, StorageKept

\* A request that only asks.
LEMMA AskStorage ==
  ASSUME Types, Types', StorageInv, NEW t \in Requests,
         \/ AskComplete(t) \/ AskRemove(t) \/ AskMock(t) \/ AskDismiss(t) \/ AskCallback(t)
         \/ AskApply(t) \/ AskEdit(t) \/ AskAnonymize(t) \/ AskMerge(t)
  PROVE  StorageInv'
<1>1. UNCHANGED <<doc, blob, spent, purge, orphaned, broken>>
  BY DEF AskComplete, AskRemove, AskMock, AskDismiss, AskCallback, AskApply, AskEdit, AskAnonymize, AskMerge, store, batches,
         history
<1>2. req[t].at = "idle" /\ \A u \in Requests \ {t} : req'[u] = req[u]
  BY DEF AskComplete, AskRemove, AskMock, AskDismiss, AskCallback, AskApply, AskEdit, AskAnonymize, AskMerge, Ask, At, Go,
         Types, TypeOK
<1>3. req'[t].at \notin {"insert", "complete"} /\ (req'[t].at \in OnDocument => doc[req'[t].doc] # None)
  <2>1. CASE AskComplete(t) \/ AskRemove(t) \/ AskMock(t) \/ AskDismiss(t) \/ AskCallback(t)
    <3>1. PICK d \in Docs, step \in {"head", "shred", "mock", "dismiss", "callback"} :
            doc[d] # None /\ Go(t, [Idle EXCEPT !.at = step, !.doc = d])
      BY <2>1 DEF AskComplete, AskRemove, AskMock, AskDismiss, AskCallback, Ask
    <3>2. req'[t].at = step /\ req'[t].doc = d
      BY <3>1 DEF Go, Idle, Types, TypeOK
    <3>. QED BY <3>1, <3>2
  <2>2. CASE AskApply(t)
    BY <2>2 DEF AskApply, Ask, Go, Idle, Types, TypeOK
  <2>3. CASE AskEdit(t)
    <3>1. PICK c \in Customers : Go(t, [Idle EXCEPT !.at = "edit", !.cust = c, !.known = customer[c].anonymized])
      BY <2>3 DEF AskEdit, Ask
    <3>2. req'[t].at = "edit"
      BY <3>1 DEF Go, Idle, Types, TypeOK
    <3>. QED BY <3>2 DEF OnDocument
  <2>4. CASE AskAnonymize(t)
    <3>1. PICK c \in Customers : Go(t, [Idle EXCEPT !.at = "anonymize", !.cust = c])
      BY <2>4 DEF AskAnonymize, Ask
    <3>2. req'[t].at = "anonymize"
      BY <3>1 DEF Go, Idle, Types, TypeOK
    <3>. QED BY <3>2 DEF OnDocument
  <2>5. CASE AskMerge(t)
    <3>1. PICK c, i \in Customers : Go(t, [Idle EXCEPT !.at = "move", !.cust = c, !.into = i])
      BY <2>5 DEF AskMerge, Ask
    <3>2. req'[t].at = "move"
      BY <3>1 DEF Go, Idle, Types, TypeOK
    <3>. QED BY <3>2 DEF OnDocument
  <2>. QED BY <2>1, <2>2, <2>3, <2>4, <2>5
<1>4. Steady(t)
  BY <1>1, <1>2, <1>3 DEF Steady
<1>. QED BY <1>4, SteadyStorage

LEMMA FinishFields ==
  ASSUME Types, NEW t \in Requests, Finish(t)
  PROVE  req'[t].at = "idle" /\ \A u \in Requests \ {t} : req'[u] = req[u]
BY DEF Finish, Go, Idle, Types, TypeOK

LEMMA StepFields ==
  ASSUME Types, NEW t \in Requests, NEW step, Go(t, [req[t] EXCEPT !.at = step])
  PROVE  req'[t].at = step /\ req'[t].doc = req[t].doc /\ \A u \in Requests \ {t} : req'[u] = req[u]
<1>1. req[t] \in Request
  BY DEF Types, TypeOK
<1>. QED BY <1>1 DEF Go, Types, TypeOK, Request

\* Steps that take no row and no object away.
LEMMA QuietStorage ==
  ASSUME Types, Types', StorageInv, NEW t \in Requests,
         \/ Head(t) \/ Queue(t) \/ Move(t) \/ Mock(t) \/ Dismiss(t) \/ Callback(t) \/ Apply(t) \/ Edit(t) \/ Anonymize(t)
         \/ Complete(t) \/ ShredFails(t)
  PROVE  StorageInv'
<1>1. UNCHANGED <<blob, spent, purge, broken>> /\ orphaned \subseteq orphaned'
  BY DEF Head, Queue, Move, Mock, Dismiss, Callback, Apply, Edit, Anonymize, Complete, ShredFails, store, batches, history
<1>2. req[t].at \notin {"insert", "drop"}
  BY DEF Head, Queue, Move, Mock, Dismiss, Callback, Apply, Edit, Anonymize, Complete, ShredFails, At
<1>3. /\ req'[t].at # "insert" /\ \A u \in Requests \ {t} : req'[u] = req[u]
      /\ req'[t].at \in OnDocument => req[t].at \in OnDocument /\ req'[t].doc = req[t].doc
      /\ req'[t].at = "complete" => req'[t].doc \in blob
  <2>1. CASE Finish(t)
    BY <2>1, FinishFields DEF OnDocument
  <2>2. CASE Queue(t) \/ Complete(t) \/ ShredFails(t)
    <3>1. CASE ~Finish(t)
      <4>1. PICK step \in {"return", "pend", "queue", "drop"} : Go(t, [req[t] EXCEPT !.at = step])
        BY <2>2, <3>1 DEF Queue, Complete, ShredFails
      <4>2. req[t].at \in OnDocument
        BY <2>2 DEF Queue, Complete, ShredFails, At, OnDocument
      <4>. QED BY <4>1, <4>2, StepFields
    <3>. QED BY <2>1, <3>1
  <2>3. CASE Head(t)
    <3>1. CASE ~Finish(t)
      <4>1. req[t].doc \in blob /\ \E step \in {"complete", "shred"} : Go(t, [req[t] EXCEPT !.at = step])
        BY <2>3, <3>1 DEF Head
      <4>2. req[t].at \in OnDocument
        BY <2>3 DEF Head, At, OnDocument
      <4>. QED BY <4>1, <4>2, StepFields
    <3>. QED BY <2>1, <3>1
  <2>4. CASE Move(t)
    <3>1. CASE Go(t, Idle)
      BY <3>1, FinishFields DEF Finish, OnDocument
    <3>2. CASE Go(t, [req[t] EXCEPT !.at = "merge", !.moved = DocsOf(req[t].cust)])
      <4>1. req[t] \in Request
        BY DEF Types, TypeOK
      <4>2. req'[t].at = "merge" /\ \A u \in Requests \ {t} : req'[u] = req[u]
        BY <3>2, <4>1 DEF Go, Types, TypeOK, Request
      <4>. QED BY <4>2 DEF OnDocument
    <3>. QED BY <2>4, <3>1, <3>2 DEF Move
  <2>. QED BY <2>1, <2>2, <2>3, <2>4 DEF Mock, Dismiss, Callback, Apply, Edit, Anonymize
<1>4. /\ \A d \in Docs : doc'[d] # None <=> doc[d] # None
      /\ \A d \in Docs : doc'[d] # None /\ doc'[d].done => doc[d].done \/ (req[t].at = "complete" /\ req[t].doc = d)
  <2>0. \A d \in Docs : doc[d] # None => doc[d] \in Document
    BY DEF Types, TypeOK
  <2>1. CASE doc' = doc
    BY <2>1
  <2>2. CASE doc' # doc
    <3>1. PICK d \in Docs :
            /\ doc[d] # None
            /\ \/ \E o \in {"NONE", "PENDING", "READY", "FAILED"}, s \in Suggestions \cup {0} :
                    doc' = [doc EXCEPT ![d].ocr = o, ![d].sug = s]
               \/ doc' = [doc EXCEPT ![d].applied = TRUE]
               \/ req[t].at = "complete" /\ req[t].doc = d /\ doc' = [doc EXCEPT ![d].done = TRUE]
      <4>1. req[t].at \in OnDocument => req[t].doc \in Docs
        BY DEF Types, Shaped
      <4>. QED BY <2>2, <4>1 DEF Head, Queue, Move, Mock, Dismiss, Callback, Apply, Edit, Anonymize, Complete, ShredFails,
                Ready, Failed, At, OnDocument
    <3>2. \A x \in Docs : x # d => doc'[x] = doc[x]
      BY <3>1 DEF Types, TypeOK
    <3>3. doc[d] \in Document
      BY <2>0, <3>1
    <3>4. PICK v \in Document : /\ doc' = [doc EXCEPT ![d] = v]
                                /\ v.done = doc[d].done \/ (req[t].at = "complete" /\ req[t].doc = d)
      <4>1. CASE \E o \in {"NONE", "PENDING", "READY", "FAILED"}, s \in Suggestions \cup {0} :
                    doc' = [doc EXCEPT ![d].ocr = o, ![d].sug = s]
        <5>1. PICK o \in {"NONE", "PENDING", "READY", "FAILED"}, s \in Suggestions \cup {0} :
                doc' = [doc EXCEPT ![d].ocr = o, ![d].sug = s]
          BY <4>1
        <5>2. PICK v : v = [doc[d] EXCEPT !.ocr = o, !.sug = s]
          OBVIOUS
        <5>3. doc' = [doc EXCEPT ![d] = v]
          BY <5>1, <5>2 DEF Types, TypeOK
        <5>4. v \in Document /\ v.done = doc[d].done
          BY <3>3, <5>2 DEF Document
        <5>. QED BY <5>3, <5>4
      <4>2. CASE doc' = [doc EXCEPT ![d].applied = TRUE]
        <5>1. PICK v : v = [doc[d] EXCEPT !.applied = TRUE]
          OBVIOUS
        <5>2. v \in Document
          BY <3>3, <5>1, FlagIsDocument
        <5>3. v.done = doc[d].done
          BY <3>3, <5>1 DEF Document
        <5>4. doc' = [doc EXCEPT ![d] = v]
          BY <4>2, <5>1
        <5>. QED BY <5>2, <5>3, <5>4
      <4>3. CASE req[t].at = "complete" /\ req[t].doc = d /\ doc' = [doc EXCEPT ![d].done = TRUE]
        <5>1. PICK v : v = [doc[d] EXCEPT !.done = TRUE]
          OBVIOUS
        <5>2. v \in Document
          BY <3>3, <5>1, FlagIsDocument
        <5>3. doc' = [doc EXCEPT ![d] = v]
          BY <4>3, <5>1
        <5>. QED BY <4>3, <5>2, <5>3
      <4>. QED BY <3>1, <4>1, <4>2, <4>3
    <3>. QED BY <3>1, <3>2, <3>4, NoneAssumption DEF Types, TypeOK
  <2>. QED BY <2>1, <2>2
<1>5. Steady(t)
  BY <1>1, <1>2, <1>3, <1>4 DEF Steady
<1>. QED BY <1>5, SteadyStorage

\* What is written of a suggestion leaves a row where it is, and listed or not.
LEMMA SuggestionStays ==
  ASSUME Types, NEW d \in Docs, doc[d] # None, NEW o \in {"NONE", "PENDING", "READY", "FAILED"}, NEW s \in Suggestions \cup {0},
         doc' = [doc EXCEPT ![d].ocr = o, ![d].sug = s]
  PROVE  \A x \in Docs : (doc'[x] # None <=> doc[x] # None) /\ (doc[x] # None => doc'[x].done = doc[x].done)
<1>1. doc[d] \in Document
  BY DEF Types, TypeOK
<1>2. PICK v : v = [doc[d] EXCEPT !.ocr = o, !.sug = s]
  OBVIOUS
<1>3. v \in Document /\ v.done = doc[d].done
  BY <1>1, <1>2 DEF Document
<1>4. doc' = [doc EXCEPT ![d] = v]
  BY <1>2 DEF Types, TypeOK
<1>. QED BY <1>3, <1>4, NoneAssumption DEF Types, TypeOK

\* Steps that may remove the object of their own document.
LEMMA RemovingStorage ==
  ASSUME Types, Types', StorageInv, NEW t \in Requests, Pend(t) \/ Return(t) \/ UploadFails(t) \/ Shred(t)
  PROVE  StorageInv'
<1>1. UNCHANGED <<spent, purge, orphaned>> /\ broken \subseteq broken'
  BY DEF Pend, Return, UploadFails, Shred, batches, history
<1>2. req[t].at \in OnDocument /\ req[t].at \notin {"insert", "drop", "complete"} /\ req[t].doc \in Docs
  BY DEF Pend, Return, UploadFails, Shred, At, OnDocument, Types, Shaped
<1>3. /\ req'[t].at \in {"idle", "return", "drop"} /\ \A u \in Requests \ {t} : req'[u] = req[u]
      /\ req'[t].at \in OnDocument => req'[t].doc = req[t].doc
      /\ Shred(t) => req'[t].at = "drop"
  <2>1. CASE Finish(t) /\ ~Shred(t)
    BY <2>1, FinishFields DEF OnDocument
  <2>2. CASE ~Finish(t) \/ Shred(t)
    <3>1. PICK step \in {"return", "drop"} : Go(t, [req[t] EXCEPT !.at = step]) /\ (Shred(t) => step = "drop")
      BY <2>2 DEF Pend, Return, UploadFails, Shred, At
    <3>. QED BY <3>1, StepFields
  <2>. QED BY <2>1, <2>2
<1>4. /\ \A d \in Docs : doc'[d] # None <=> doc[d] # None
      /\ \A d \in Docs : doc'[d] # None /\ doc'[d].done => doc[d].done
  <2>1. CASE doc' = doc
    BY <2>1
  <2>2. CASE doc' # doc
    <3>1. doc[req[t].doc] # None /\ doc' = [doc EXCEPT ![req[t].doc].ocr = "PENDING", ![req[t].doc].sug = 0]
      BY <2>2 DEF Pend, Return, UploadFails, Shred
    <3>. QED BY <1>2, <3>1, SuggestionStays
  <2>. QED BY <2>1, <2>2
<1>5. /\ blob' \subseteq blob
      /\ \A d \in blob \ blob' : d = req[t].doc /\ (doc[d] = None \/ d \in broken' \/ (req'[t].at = "drop" /\ req'[t].doc = d))
  <2>1. CASE Shred(t)
    BY <1>3, <2>1 DEF Shred, OnDocument
  <2>2. CASE Pend(t) \/ Return(t) \/ UploadFails(t)
    BY <2>2 DEF Pend, Return, UploadFails
  <2>. QED BY <2>1, <2>2
<1>6. Steady(t)
  BY <1>1, <1>2, <1>3, <1>4, <1>5 DEF Steady
<1>. QED BY <1>6, SteadyStorage

\* A step of request t that takes rows away, and says which objects stay.
Losing(t) ==
  /\ UNCHANGED <<spent, blob, broken>> /\ purge' = purge
  /\ req[t].at # "insert" /\ req'[t].at = "idle" /\ \A u \in Requests \ {t} : req'[u] = req[u]
  /\ \A d \in Docs : doc'[d] # None => doc[d] # None /\ doc'[d].done = doc[d].done
  /\ \A d \in Docs : doc[d] # None /\ doc'[d] = None => d \notin blob \/ d \in orphaned'
  /\ orphaned \subseteq orphaned'
  /\ req[t].at = "drop" => doc'[req[t].doc] = None

LEMMA LosingStorage ==
  ASSUME Types, Types', StorageInv, NEW t \in Requests, Losing(t)
  PROVE  StorageInv'
<1>1. IdsGivenOut /\ InsertsAlone
  BY StorageParts
<1>2. WorkAsBefore
  BY DEF Losing, WorkAsBefore, Present, OnDocument
<1>3. IdsGivenOut' /\ InsertsAlone'
  BY <1>1, <1>2, WorkKept
<1>4. StoredAsBefore
  <2>1. \A d \in Docs : Inserting(d) => Inserting(d)'
    BY DEF Losing, Inserting
  <2>2. blob' \subseteq Docs
    BY DEF Types, TypeOK
  <2>. QED BY <2>1, <2>2 DEF Losing, StoredAsBefore, Present
<1>5. KeptAsBefore
  <2>1. \A d \in Docs : Present(d)' /\ Kept(d) => Kept(d)'
    BY DEF Losing, Present, Kept, At
  <2>2. \A d \in Docs : Listed(d)' => Listed(d)
    BY DEF Losing, Listed
  <2>3. \A u \in Requests, d \in Docs : req'[u].at = "complete" /\ req'[u].doc = d /\ Present(d)' =>
          req[u].at = "complete" /\ req[u].doc = d /\ Present(d)
    BY DEF Losing, Present
  <2>. QED BY <2>1, <2>2, <2>3 DEF KeptAsBefore
<1>. QED BY <1>3, <1>4, <1>5, StorageKept

LEMMA LossStorage ==
  ASSUME Types, Types', StorageInv, NEW t \in Requests, Drop(t) \/ DeleteCustomer(t) \/ Merge(t)
  PROVE  StorageInv'
<1>1. UNCHANGED <<spent, blob, broken>> /\ purge' = purge /\ orphaned \subseteq orphaned'
  BY DEF Drop, DropRow, DeleteCustomer, Cascade, Merge, store, batches
<1>2. req'[t].at = "idle" /\ \A u \in Requests \ {t} : req'[u] = req[u]
  BY FinishFields DEF Drop, DeleteCustomer, Merge, Ask, Finish
<1>3. req[t].at # "insert" /\ (req[t].at = "drop" => Drop(t))
  BY DEF Drop, DeleteCustomer, Merge, Ask, At
<1>4. /\ \A d \in Docs : doc'[d] # None => doc[d] # None /\ doc'[d].done = doc[d].done
      /\ \A d \in Docs : doc[d] # None /\ doc'[d] = None => d \notin blob \/ d \in orphaned'
      /\ req[t].at = "drop" => doc'[req[t].doc] = None
  <2>1. CASE Drop(t)
    <3>1. PICK d \in Docs : d = req[t].doc
      BY <2>1 DEF Drop, At, Types, Shaped, OnDocument
    <3>. QED BY <2>1, <3>1 DEF Drop, DropRow, Types, TypeOK
  <2>2. CASE DeleteCustomer(t)
    BY <1>3, <2>2 DEF DeleteCustomer, Ask, At, Cascade, DocsOf
  <2>3. CASE Merge(t)
    <3>1. ASSUME NEW d \in Docs
          PROVE  /\ doc'[d] # None => doc[d] # None /\ doc'[d].done = doc[d].done
                 /\ doc[d] # None /\ doc'[d] = None => d \notin blob \/ d \in orphaned'
      <4>1. \/ doc'[d] = doc[d]
            \/ doc'[d] = None /\ (d \notin blob \/ d \in orphaned')
            \/ doc[d] # None /\ doc'[d] = [doc[d] EXCEPT !.cust = req[t].into]
        BY <2>3 DEF Merge, DocsOf
      <4>2. CASE doc[d] # None /\ doc'[d] = [doc[d] EXCEPT !.cust = req[t].into]
        <5>1. PICK v : v = [doc[d] EXCEPT !.cust = req[t].into]
          OBVIOUS
        <5>2. doc[d] \in Document /\ req[t].into \in Customers
          BY <2>3, <4>2 DEF Merge, At, Types, TypeOK, Shaped
        <5>3. v \in Document /\ v.done = doc[d].done
          BY <5>1, <5>2 DEF Document
        <5>. QED BY <4>2, <5>1, <5>3, NoneAssumption
      <4>. QED BY <4>1, <4>2
    <3>. QED BY <1>3, <2>3, <3>1 DEF Merge, At
  <2>. QED BY <2>1, <2>2, <2>3
<1>5. Losing(t)
  BY <1>1, <1>2, <1>3, <1>4 DEF Losing
<1>. QED BY <1>5, LosingStorage

LEMMA UploadStorage ==
  ASSUME Types, Types', StorageInv, NEW t \in Requests, Upload(t)
  PROVE  StorageInv'
<1>1. PICK c \in Customers, d \in Docs \ spent :
        /\ req[t].at = "idle" /\ Go(t, [Idle EXCEPT !.at = "insert", !.doc = d, !.cust = c])
        /\ spent' = spent \cup {d} /\ blob' = blob \cup {d}
        /\ UNCHANGED <<doc, purge, orphaned, broken>>
  BY DEF Upload, Ask, At, batches, history
<1>2. req'[t].at = "insert" /\ req'[t].doc = d /\ \A u \in Requests \ {t} : req'[u] = req[u]
  BY <1>1 DEF Go, Idle, Types, TypeOK
<1>3. IdsGivenOut /\ InsertsAlone
  BY StorageParts
<1>4. doc[d] = None /\ d \notin purge.found /\ \A u \in Requests : req[u].at \in OnDocument => req[u].doc # d
  BY <1>1, <1>3 DEF IdsGivenOut
<1>5. IdsGivenOut'
  BY <1>1, <1>2, <1>3 DEF IdsGivenOut
<1>6. InsertsAlone'
  <2>1. ASSUME NEW u \in Requests, req'[u].at = "insert"
        PROVE  /\ req'[u].doc \in blob' /\ doc'[req'[u].doc] = None /\ req'[u].doc \notin purge'.found
               /\ \A v \in Requests : req'[v].at \in OnDocument /\ req'[v].doc = req'[u].doc => v = u
    <3>1. CASE u = t
      BY <1>1, <1>2, <1>4, <3>1
    <3>2. CASE u # t
      <4>1. req[u].at = "insert" /\ req'[u] = req[u] /\ req[u].at \in OnDocument /\ req[u].doc # d
        BY <1>2, <1>4, <2>1, <3>2 DEF OnDocument
      <4>. QED BY <1>1, <1>2, <1>3, <4>1 DEF InsertsAlone, At
    <3>. QED BY <3>1, <3>2
  <2>. QED BY <2>1 DEF InsertsAlone, At
<1>7. StoredAsBefore
  <2>1. \A x \in Docs : Inserting(x) => Inserting(x)'
    BY <1>1, <1>2 DEF Inserting
  <2>2. Inserting(d)'
    BY <1>2 DEF Inserting
  <2>3. blob' \subseteq Docs
    BY DEF Types, TypeOK
  <2>. QED BY <1>1, <2>1, <2>2, <2>3 DEF StoredAsBefore, Present
<1>8. KeptAsBefore
  <2>1. \A x \in Docs : Kept(x) => Kept(x)'
    BY <1>1, <1>2 DEF Kept, At
  <2>. QED BY <1>1, <1>2, <2>1 DEF KeptAsBefore, Listed, Present
<1>. QED BY <1>5, <1>6, <1>7, <1>8, StorageKept

LEMMA PresignStorage ==
  ASSUME Types, Types', StorageInv, NEW t \in Requests, Presign(t)
  PROVE  StorageInv'
<1>1. PICK d \in Docs \ spent, c \in Customers :
        /\ req[t].at = "idle" /\ Finish(t)
        /\ spent' = spent \cup {d} /\ doc' = [doc EXCEPT ![d] = New(c, FALSE)]
        /\ UNCHANGED <<blob, purge, orphaned, broken>>
  BY DEF Presign, Ask, At, Finish, batches, history
<1>2. req'[t].at = "idle" /\ \A u \in Requests \ {t} : req'[u] = req[u]
  BY <1>1, FinishFields
<1>3. IdsGivenOut /\ InsertsAlone
  BY StorageParts
<1>4. doc[d] = None /\ d \notin purge.found /\ \A u \in Requests : req[u].at \in OnDocument => req[u].doc # d
  BY <1>1, <1>3 DEF IdsGivenOut
<1>5. doc'[d] # None /\ doc'[d].done = FALSE /\ \A x \in Docs : x # d => doc'[x] = doc[x]
  <2>1. PICK v : v = New(c, FALSE)
    OBVIOUS
  <2>2. v \in Document
    BY <2>1, NewIsDocument
  <2>3. v.done = FALSE
    BY <2>1 DEF New
  <2>. QED BY <1>1, <2>1, <2>2, <2>3, NoneAssumption DEF Types, TypeOK
<1>6. IdsGivenOut'
  BY <1>1, <1>2, <1>3, <1>5 DEF IdsGivenOut, OnDocument
<1>7. InsertsAlone'
  <2>1. ASSUME NEW u \in Requests, req'[u].at = "insert"
        PROVE  /\ req'[u].doc \in blob' /\ doc'[req'[u].doc] = None /\ req'[u].doc \notin purge'.found
               /\ \A v \in Requests : req'[v].at \in OnDocument /\ req'[v].doc = req'[u].doc => v = u
    <3>1. u # t /\ req'[u] = req[u] /\ req[u].at = "insert" /\ req[u].doc # d /\ req[u].doc \in Docs
      BY <1>2, <1>4, <2>1 DEF OnDocument, Types, Shaped
    <3>2. /\ req[u].doc \in blob /\ doc[req[u].doc] = None /\ req[u].doc \notin purge.found
          /\ \A v \in Requests : req[v].at \in OnDocument /\ req[v].doc = req[u].doc => v = u
      BY <1>3, <3>1 DEF InsertsAlone, At
    <3>. QED BY <1>1, <1>2, <1>5, <3>1, <3>2 DEF OnDocument
  <2>. QED BY <2>1 DEF InsertsAlone, At
<1>8. StoredAsBefore
  <2>1. \A x \in Docs : Inserting(x) => Inserting(x)'
    BY <1>1, <1>2 DEF Inserting
  <2>2. blob' \subseteq Docs
    BY DEF Types, TypeOK
  <2>. QED BY <1>1, <1>5, <2>1, <2>2 DEF StoredAsBefore, Present
<1>9. KeptAsBefore
  <2>1. \A x \in Docs : Kept(x) => Kept(x)'
    BY <1>1, <1>2 DEF Kept, At
  <2>2. \A u \in Requests, x \in Docs : req'[u].at = "complete" /\ req'[u].doc = x =>
          req[u].at = "complete" /\ req[u].doc = x /\ x # d
    BY <1>2, <1>4 DEF OnDocument
  <2>. QED BY <1>1, <1>5, <2>1, <2>2 DEF KeptAsBefore, Listed, Present
<1>. QED BY <1>6, <1>7, <1>8, <1>9, StorageKept

LEMMA InsertStorage ==
  ASSUME Types, Types', StorageInv, NEW t \in Requests, Insert(t)
  PROVE  StorageInv'
<1>1. PICK d \in Docs, c \in Customers : d = req[t].doc /\ c = req[t].cust /\ req[t].at = "insert"
  BY DEF Insert, At, Types, Shaped, OnDocument, OnCustomer
<1>2. UNCHANGED <<spent, purge, orphaned, broken>>
  BY DEF Insert, batches, history
<1>3. IdsGivenOut /\ InsertsAlone
  BY StorageParts
<1>4. /\ d \in blob /\ doc[d] = None /\ d \notin purge.found /\ d \in spent
      /\ \A u \in Requests \ {t} : req[u].at \in OnDocument => req[u].doc # d
  BY <1>1, <1>3 DEF InsertsAlone, IdsGivenOut, At, OnDocument
<1>5. /\ req'[t].at \in {"idle", "queue"} /\ (req'[t].at = "queue" => req'[t].doc = d)
      /\ \A u \in Requests \ {t} : req'[u] = req[u]
  <2>1. CASE Finish(t)
    BY <2>1, FinishFields
  <2>2. CASE ~Finish(t)
    <3>1. Go(t, [req[t] EXCEPT !.at = "queue"])
      BY <2>2 DEF Insert
    <3>. QED BY <1>1, <3>1, StepFields
  <2>. QED BY <2>1, <2>2
<1>6. /\ \A x \in Docs : x # d => doc'[x] = doc[x] /\ (x \in blob' <=> x \in blob)
      /\ (doc'[d] = None /\ d \notin blob') \/ (doc'[d] # None /\ d \in blob')
  <2>1. CASE customer[c] = None
    <3>1. doc' = doc /\ blob' = blob \ {d}
      BY <1>1, <2>1 DEF Insert
    <3>. QED BY <1>4, <3>1
  <2>2. CASE customer[c] # None
    <3>1. doc' = [doc EXCEPT ![d] = New(c, TRUE)] /\ blob' = blob
      BY <1>1, <2>2 DEF Insert
    <3>2. New(c, TRUE) \in Document
      BY NewIsDocument
    <3>. QED BY <1>4, <3>1, <3>2, NoneAssumption DEF Types, TypeOK
  <2>. QED BY <2>1, <2>2
<1>7. IdsGivenOut'
  <2>1. \A x \in Docs : doc'[x] # None => x \in spent
    BY <1>3, <1>4, <1>6 DEF IdsGivenOut
  <2>2. \A u \in Requests : req'[u].at \in OnDocument => req'[u].doc \in spent
    BY <1>3, <1>4, <1>5 DEF IdsGivenOut, OnDocument
  <2>. QED BY <1>2, <1>3, <2>1, <2>2 DEF IdsGivenOut
<1>8. InsertsAlone'
  <2>1. ASSUME NEW u \in Requests, req'[u].at = "insert"
        PROVE  /\ req'[u].doc \in blob' /\ doc'[req'[u].doc] = None /\ req'[u].doc \notin purge'.found
               /\ \A v \in Requests : req'[v].at \in OnDocument /\ req'[v].doc = req'[u].doc => v = u
    <3>1. u # t /\ req'[u] = req[u] /\ req[u].at = "insert" /\ req[u].doc # d /\ req[u].doc \in Docs
      BY <1>4, <1>5, <2>1 DEF OnDocument, Types, Shaped
    <3>2. /\ req[u].doc \in blob /\ doc[req[u].doc] = None /\ req[u].doc \notin purge.found
          /\ \A v \in Requests : req[v].at \in OnDocument /\ req[v].doc = req[u].doc => v = u
      BY <1>3, <3>1 DEF InsertsAlone, At
    <3>. QED BY <1>2, <1>5, <1>6, <3>1, <3>2 DEF OnDocument
  <2>. QED BY <2>1 DEF InsertsAlone, At
<1>9. StoredAsBefore
  <2>1. \A x \in Docs : x # d /\ Inserting(x) => Inserting(x)'
    BY <1>1, <1>5 DEF Inserting
  <2>2. blob' \subseteq Docs
    BY DEF Types, TypeOK
  <2>. QED BY <1>2, <1>6, <2>1, <2>2 DEF StoredAsBefore, Present
<1>10. KeptAsBefore
  <2>1. \A x \in Docs : Present(x)' /\ Kept(x) => Kept(x)'
    BY <1>1, <1>2, <1>5, <1>6 DEF Kept, At, Present
  <2>2. \A x \in Docs : Listed(x)' => Listed(x) \/ Kept(x)'
    BY <1>6 DEF Listed, Kept
  <2>3. \A u \in Requests, x \in Docs : req'[u].at = "complete" /\ req'[u].doc = x =>
          req[u].at = "complete" /\ req[u].doc = x /\ x # d
    BY <1>4, <1>5 DEF OnDocument
  <2>. QED BY <1>6, <2>1, <2>2, <2>3 DEF KeptAsBefore, Present
<1>. QED BY <1>7, <1>8, <1>9, <1>10, StorageKept

LEMMA DeathStorage ==
  ASSUME Types, Types', StorageInv, NEW t \in Requests, RequestDies(t)
  PROVE  StorageInv'
<1>1. /\ UNCHANGED <<doc, blob, spent>> /\ purge' = purge
      /\ orphaned \subseteq orphaned' /\ broken \subseteq broken'
      /\ req[t].at = "insert" => req[t].doc \in orphaned'
      /\ req[t].at = "drop" => req[t].doc \in broken'
  BY DEF RequestDies, Dies, store, batches
<1>2. req'[t].at = "idle" /\ \A u \in Requests \ {t} : req'[u] = req[u]
  BY FinishFields DEF RequestDies
<1>3. WorkAsBefore
  BY <1>1, <1>2 DEF WorkAsBefore, Present, OnDocument
<1>4. IdsGivenOut' /\ InsertsAlone'
  BY <1>3, StorageParts, WorkKept
<1>5. StoredAsBefore
  BY <1>1, <1>2 DEF StoredAsBefore, Inserting, Present
<1>6. KeptAsBefore
  BY <1>1, <1>2 DEF KeptAsBefore, Kept, Listed, Present, At
<1>. QED BY <1>4, <1>5, <1>6, StorageKept

LEMMA OutsideStorage ==
  ASSUME Types, Types', StorageInv,
         \/ \E d \in Docs : ClientPuts(d) \/ UrlLapses(d) \/ Expire(d)
         \/ CronStep \/ AuditFails \/ CronDies \/ UNCHANGED vars
  PROVE  StorageInv'
<1>1. UNCHANGED <<spent, req, broken>> /\ purge' = purge /\ blob \subseteq blob' /\ orphaned \subseteq orphaned'
      /\ \A d \in blob' : d \in blob \/ doc'[d] # None \/ d \in orphaned'
  BY DEF ClientPuts, UrlLapses, Expire, CronStep, CronFinds, CronPicks, CronWrites, CronAudits, AuditFails, CronDies, Dies,
     store, batches, history, vars
<1>2. \A x \in Docs : (doc'[x] # None <=> doc[x] # None) /\ (doc[x] # None => doc'[x].done = doc[x].done)
  <2>1. CASE doc' = doc
    BY <2>1
  <2>2. CASE \E d \in Docs : Expire(d)
    <3>1. PICK d \in Docs : doc[d] # None /\ doc' = [doc EXCEPT ![d].expired = TRUE]
      BY <2>2 DEF Expire
    <3>2. PICK v : v = [doc[d] EXCEPT !.expired = TRUE]
      OBVIOUS
    <3>3. doc[d] \in Document
      BY <3>1 DEF Types, TypeOK
    <3>4. v \in Document
      BY <3>2, <3>3, FlagIsDocument
    <3>5. v.done = doc[d].done
      BY <3>2, <3>3 DEF Document
    <3>6. doc' = [doc EXCEPT ![d] = v]
      BY <3>1, <3>2
    <3>. QED BY <3>1, <3>4, <3>5, <3>6, NoneAssumption DEF Types, TypeOK
  <2>3. CASE CronWrites
    <3>1. CASE doc[cron.doc] = None
      BY <2>3, <3>1 DEF CronWrites
    <3>2. CASE doc[cron.doc] # None
      <4>1. PICK d \in Docs : d = cron.doc
        BY <2>3 DEF CronWrites, Types, Shaped
      <4>2. \E o \in {"NONE", "PENDING", "READY", "FAILED"}, s \in Suggestions \cup {0} :
              doc' = [doc EXCEPT ![d].ocr = o, ![d].sug = s]
        BY <2>3, <3>2, <4>1 DEF CronWrites, Ready, Failed
      <4>. QED BY <3>2, <4>1, <4>2, SuggestionStays
    <3>. QED BY <3>1, <3>2
  <2>. QED BY <2>1, <2>2, <2>3 DEF ClientPuts, UrlLapses, CronStep, CronFinds, CronPicks, CronAudits, AuditFails, CronDies, Dies, vars
<1>3. WorkAsBefore
  BY <1>1, <1>2 DEF WorkAsBefore, Present
<1>4. IdsGivenOut' /\ InsertsAlone'
  BY <1>3, StorageParts, WorkKept
<1>5. StoredAsBefore
  <2>1. blob' \subseteq Docs
    BY DEF Types, TypeOK
  <2>. QED BY <1>1, <1>2, <2>1 DEF StoredAsBefore, Inserting, Present
<1>6. KeptAsBefore
  BY <1>1, <1>2 DEF KeptAsBefore, Kept, Listed, Present, At
<1>. QED BY <1>4, <1>5, <1>6, StorageKept

LEMMA PurgeStorage ==
  ASSUME Types, Types', StorageInv, PurgeStep \/ PurgeShredFails \/ PurgeDies
  PROVE  StorageInv'
<1>1. UNCHANGED <<spent, req>> /\ broken \subseteq broken' /\ orphaned \subseteq orphaned' /\ blob' \subseteq blob
  BY DEF PurgeStep, PurgeFinds, PurgeShreds, PurgeDrops, DropRow, PurgeShredFails, PurgeDies, Dies, store, history
<1>2. /\ \A d \in Docs : doc'[d] # None => doc'[d] = doc[d]
      /\ \A d \in blob' : doc[d] # None => doc'[d] # None \/ d \in orphaned'
  <2>1. CASE doc' = doc
    BY <2>1
  <2>2. CASE PurgeDrops
    <3>1. PICK d \in Docs : d = purge.doc
      BY <2>2 DEF PurgeDrops, Types, Shaped
    <3>. QED BY <2>2, <3>1 DEF PurgeDrops, DropRow, Types, TypeOK, store
  <2>. QED BY <2>1, <2>2 DEF PurgeStep, PurgeFinds, PurgeShreds, PurgeShredFails, PurgeDies, Dies, history
<1>3. \A d \in blob \ blob' : d \in purge.found /\ purge'.at = "drop" /\ purge'.doc = d
  BY DEF PurgeStep, PurgeFinds, PurgeShreds, PurgeDrops, PurgeShredFails, PurgeDies, Dies, store
<1>4. purge.at = "drop" => doc'[purge.doc] = None \/ purge.doc \in broken'
  <2>1. CASE PurgeDrops
    BY <2>1 DEF PurgeDrops, DropRow, Types, TypeOK, Shaped
  <2>2. CASE PurgeDies
    BY <2>2 DEF PurgeDies, Dies
  <2>. QED BY <2>1, <2>2 DEF PurgeStep, PurgeFinds, PurgeShreds, PurgeShredFails
<1>5. \A d \in purge'.found : d \in purge.found \/ (d \in Docs /\ doc[d] # None)
  <2>1. CASE PurgeFinds
    BY <2>1 DEF PurgeFinds, NoBatch
  <2>2. CASE PurgeShreds
    <3>1. CASE purge.found = {}
      BY <2>2, <3>1 DEF PurgeShreds, NoBatch
    <3>2. CASE purge.found # {}
      BY <2>2, <3>2 DEF PurgeShreds
    <3>. QED BY <3>1, <3>2
  <2>3. CASE PurgeDrops
    <3>1. purge \in PurgeBatch
      BY DEF Types, TypeOK
    <3>2. purge' = NoBatch \/ purge' = [purge EXCEPT !.at = "pick", !.doc = None]
      BY <2>3 DEF PurgeDrops
    <3>3. NoBatch.found = {}
      BY DEF NoBatch
    <3>4. [purge EXCEPT !.at = "pick", !.doc = None].found = purge.found
      BY <3>1 DEF PurgeBatch
    <3>5. purge'.found = {} \/ purge'.found = purge.found
      BY <3>2, <3>3, <3>4
    <3>. QED BY <3>5
  <2>5. CASE PurgeDies
    BY <2>5 DEF PurgeDies, NoBatch
  <2>4. CASE PurgeShredFails
    BY <2>4 DEF PurgeShredFails, Types, TypeOK, PurgeBatch
  <2>. QED BY <2>1, <2>2, <2>3, <2>4, <2>5 DEF PurgeStep
<1>6. WorkAsBefore
  BY <1>1, <1>2, <1>3, <1>5 DEF WorkAsBefore, Present
<1>7. IdsGivenOut' /\ InsertsAlone'
  BY <1>6, StorageParts, WorkKept
<1>8. StoredAsBefore
  <2>1. blob' \subseteq Docs
    BY DEF Types, TypeOK
  <2>. QED BY <1>1, <1>2, <2>1 DEF StoredAsBefore, Inserting, Present
<1>9. KeptAsBefore
  <2>1. \A d \in Docs : Present(d)' /\ Kept(d) => Kept(d)'
    BY <1>1, <1>3, <1>4 DEF Kept, Present, At
  <2>2. \A d \in Docs : (Present(d)' => Present(d)) /\ (Listed(d)' => Listed(d))
    BY <1>2 DEF Listed, Present
  <2>. QED BY <1>1, <2>1, <2>2 DEF KeptAsBefore
<1>. QED BY <1>7, <1>8, <1>9, StorageKept

LEMMA NextStorage == ASSUME Types, Types', StorageInv, [Next]_vars PROVE StorageInv'
<1>1. ASSUME NEW t \in Requests, RequestBegins(t) PROVE StorageInv'
  BY <1>1, UploadStorage, PresignStorage, AskStorage, LossStorage DEF RequestBegins
<1>2. ASSUME NEW t \in Requests, RequestStep(t) \/ UploadFails(t) \/ ShredFails(t) PROVE StorageInv'
  BY <1>2, InsertStorage, QuietStorage, RemovingStorage, LossStorage DEF RequestStep
<1>. QED BY <1>1, <1>2, DeathStorage, OutsideStorage, PurgeStorage DEF Next

-----------------------------------------------------------------------------
(***************************************************************************)
(* The results.                                                            *)
(***************************************************************************)

\* Whatever requests, batches, customers and faults do in whatever order, the
\* inductive invariant holds: types, objects and rows, suggestions, names.
THEOREM DocumentsInvariant == Spec => []DocumentsInv
<1>1. Init => DocumentsInv
  <2>. SUFFICES ASSUME Init PROVE DocumentsInv
    OBVIOUS
  <2>1. Types
    <3>1. RequestsFit
      <4>1. Idle \in Request /\ Fits(Idle)
        BY IdleFits DEF Fits
      <4>2. req = [t \in Requests |-> Idle]
        BY DEF Init
      <4>. QED BY <4>1, <4>2 DEF RequestsFit
    <3>2. \A c \in Customers : customer[c] \in Customer
      <4>1. PICK b \in BOOLEAN : b = FALSE
        OBVIOUS
      <4>2. [name |-> "personal", anonymized |-> b] \in Customer
        BY DEF Customer
      <4>. QED BY <4>1, <4>2 DEF Init
    <3>3. NoBatch \in CronBatch /\ NoBatch \in PurgeBatch
      BY DEF NoBatch, CronBatch, PurgeBatch
    <3>4. TypeOK
      BY <3>1, <3>2, <3>3, DocumentsAssumption DEF Init, RequestsFit, TypeOK
    <3>5. BatchesFit
      BY DEF Init, NoBatch, BatchesFit
    <3>. QED BY <3>1, <3>4, <3>5, TypesAreFits
  <2>2. StorageInv
    BY DEF Init, StorageInv, IdsGivenOut, InsertsAlone, ListedIsStored, StoredIsListed, Idle, NoBatch, OnDocument, At
  <2>3. ApplyInv
    BY DEF Init, ApplyInv, RacesSeen, AppliedIsShown
  <2>4. EditInv
    BY DEF Init, EditInv, RedactionHolds, Idle, At
  <2>. QED BY <2>1, <2>2, <2>3, <2>4 DEF DocumentsInv, Types
<1>2. DocumentsInv /\ [Next]_vars => DocumentsInv'
  BY NextTypes, NextStorage, NextApply, NextEdit DEF DocumentsInv, Types
<1>. QED BY <1>1, <1>2, PTL DEF Spec

\* applyOcrSuggestion marks a document applied with what went into the customer:
\* only one who had read the document before can write something else over it.
THEOREM AppliedAreShown == Spec => []AppliedIsShown
<1>1. DocumentsInv => AppliedIsShown
  BY DEF DocumentsInv, ApplyInv
<1>. QED BY <1>1, DocumentsInvariant, PTL

\* A listed document can be downloaded, however uploads, removals and the purge
\* overlap, fail and die, but for the cases the history collects.
THEOREM ListedAreStored == Spec => []ListedIsStored
<1>1. DocumentsInv => ListedIsStored
  BY DEF DocumentsInv, StorageInv
<1>. QED BY <1>1, DocumentsInvariant, PTL

\* No object is left in storage without a row, however they overlap, fail and
\* die, but for the cases the history collects.
THEOREM StoredAreListed == Spec => []StoredIsListed
<1>1. DocumentsInv => StoredIsListed
  BY DEF DocumentsInv, StorageInv
<1>. QED BY <1>1, DocumentsInvariant, PTL

\* The name of an anonymised customer comes back only by an apply, or by an
\* edit that had read the customer before (applyOcrSuggestion, update).
THEOREM RedactionsHold == Spec => []RedactionHolds
<1>1. DocumentsInv => RedactionHolds
  BY DEF DocumentsInv, EditInv
<1>. QED BY <1>1, DocumentsInvariant, PTL

-----------------------------------------------------------------------------
(***************************************************************************)
(* One writer at a time.                                                   *)
(***************************************************************************)

\* A step writes no suggestion to document d.
Says(d) == doc'[d] = None \/ (doc[d] # None /\ doc'[d].sug = doc[d].sug)

\* No request begins an apply, and nobody writes under one.
AppliesGoOn == \A t \in Requests : req'[t].at = "apply" => req'[t] = req[t]
ReadsStand == \A t \in Requests : req[t].at = "apply" => Says(req[t].doc)

LEMMA SerialKept ==
  ASSUME SerialInv, raced' = raced, AppliesGoOn, ReadsStand
  PROVE  SerialInv'
BY DEF SerialInv, AppliesGoOn, ReadsStand, Says, At

LEMMA ApplyOnDocument ==
  ASSUME Types, NEW t \in Requests, req[t].at = "apply"
  PROVE  req[t].doc \in Docs /\ t \in Writers(req[t].doc)
BY DEF Types, Shaped, OnDocument, Writers

LEMMA SameSays == ASSUME doc' = doc PROVE ReadsStand
BY DEF ReadsStand, Says

LEMMA AllSays == ASSUME Types, \A d \in Docs : Says(d) PROVE ReadsStand
BY ApplyOnDocument DEF ReadsStand

\* A document that is written to by one who is no apply is under no apply.
LEMMA WriterAlone ==
  ASSUME Types, OneWriter, NEW d \in Docs,
         CronHolds(d) \/ \E t \in Writers(d) : req[t].at # "apply",
         \A x \in Docs : x # d => doc'[x] = doc[x]
  PROVE  ReadsStand
<1>. SUFFICES ASSUME NEW u \in Requests, req[u].at = "apply" PROVE Says(req[u].doc)
  BY DEF ReadsStand
<1>1. req[u].doc \in Docs /\ u \in Writers(req[u].doc)
  BY ApplyOnDocument
<1>2. req[u].doc # d
  BY <1>1 DEF OneWriter
<1>. QED BY <1>1, <1>2 DEF Says

LEMMA BeginSerial ==
  ASSUME Types, IdsGivenOut, SerialInv, NEW t \in Requests, RequestBegins(t), ~AskApply(t)
  PROVE  SerialInv'
<1>1. raced' = raced
  BY DEF RequestBegins, Upload, Presign, AskComplete, AskRemove, AskMock, AskDismiss, AskCallback, AskEdit,
         AskAnonymize, DeleteCustomer, AskMerge, history
<1>2. req'[t].at # "apply" /\ \A u \in Requests \ {t} : req'[u] = req[u]
  <2>1. CASE AskComplete(t)
    BY <2>1 DEF AskComplete, Ask, Go, Idle, Types, TypeOK
  <2>2. CASE AskRemove(t)
    BY <2>2 DEF AskRemove, Ask, Go, Idle, Types, TypeOK
  <2>3. CASE Upload(t)
    BY <2>3 DEF Upload, Ask, Go, Idle, Types, TypeOK
  <2>4. CASE AskEdit(t)
    BY <2>4 DEF AskEdit, Ask, Go, Idle, Types, TypeOK
  <2>5. CASE AskAnonymize(t)
    BY <2>5 DEF AskAnonymize, Ask, Go, Idle, Types, TypeOK
  <2>6. CASE AskMerge(t)
    BY <2>6 DEF AskMerge, Ask, Go, Idle, Types, TypeOK
  <2>7. CASE AskMock(t)
    BY <2>7 DEF AskMock, Ask, Go, Idle, Types, TypeOK
  <2>8. CASE AskDismiss(t)
    BY <2>8 DEF AskDismiss, Ask, Go, Idle, Types, TypeOK
  <2>9. CASE AskCallback(t)
    BY <2>9 DEF AskCallback, Ask, Go, Idle, Types, TypeOK
  <2>10. CASE Presign(t) \/ DeleteCustomer(t)
    BY <2>10, FinishFields DEF Presign, DeleteCustomer, Ask, Finish
  <2>. QED BY <2>1, <2>2, <2>3, <2>4, <2>5, <2>6, <2>7, <2>8, <2>9, <2>10 DEF RequestBegins
<1>3. AppliesGoOn
  BY <1>2 DEF AppliesGoOn
<1>4. ReadsStand
  <2>1. CASE Presign(t)
    <3>1. PICK d \in Docs \ spent, c \in Customers : doc' = [doc EXCEPT ![d] = New(c, FALSE)]
      BY <2>1 DEF Presign
    <3>2. \A x \in Docs : x # d => doc'[x] = doc[x]
      BY <3>1 DEF Types, TypeOK
    <3>3. \A u \in Requests : req[u].at = "apply" => req[u].doc # d /\ req[u].doc \in Docs
      BY ApplyOnDocument DEF IdsGivenOut, OnDocument
    <3>. QED BY <3>2, <3>3 DEF ReadsStand, Says
  <2>2. CASE DeleteCustomer(t)
    <3>1. \A d \in Docs : doc'[d] = None \/ doc'[d] = doc[d]
      BY <2>2 DEF DeleteCustomer, Cascade
    <3>2. \A d \in Docs : Says(d)
      BY <3>1 DEF Says
    <3>. QED BY <3>2, AllSays
  <2>3. CASE ~Presign(t) /\ ~DeleteCustomer(t)
    BY <2>3, SameSays DEF RequestBegins, Upload, AskComplete, AskRemove, AskMock, AskDismiss, AskCallback, AskEdit,
       AskAnonymize, AskMerge
  <2>. QED BY <2>1, <2>2, <2>3
<1>. QED BY <1>1, <1>3, <1>4, SerialKept

\* An apply reads what the document says.
LEMMA AskApplySerial ==
  ASSUME Types, SerialInv, NEW t \in Requests, AskApply(t)
  PROVE  SerialInv'
<1>1. PICK d \in Docs :
        /\ Ask(t, [Idle EXCEPT !.at = "apply", !.doc = d, !.cust = doc[d].cust, !.sug = doc[d].sug])
        /\ UNCHANGED <<mode, customer, doc, store, batches, history, faults>>
  BY DEF AskApply
<1>2. req'[t].doc = d /\ req'[t].sug = doc[d].sug /\ \A u \in Requests \ {t} : req'[u] = req[u]
  BY <1>1 DEF Ask, Go, Idle, Types, TypeOK
<1>. QED BY <1>1, <1>2 DEF SerialInv, At, history

\* Every other step of a request ends, or goes on to something else.
LEMMA StepGoesOn ==
  ASSUME Types, NEW t \in Requests,
         RequestStep(t) \/ UploadFails(t) \/ ShredFails(t) \/ RequestDies(t)
  PROVE  AppliesGoOn
<1>1. req[t] \in Request
  BY DEF Types, TypeOK
<1>2. \/ Finish(t)
      \/ \E step \in {"queue", "complete", "shred", "drop", "return", "pend"} : Go(t, [req[t] EXCEPT !.at = step])
      \/ Go(t, [req[t] EXCEPT !.at = "merge", !.moved = DocsOf(req[t].cust)])
  <2>1. CASE Move(t)
    BY <2>1 DEF Move, Finish
  <2>2. CASE ~Move(t)
    BY <2>2 DEF RequestStep, Insert, Head, Complete, Queue, Pend, Return, Shred, Drop, Mock, Dismiss, Callback, Apply, Edit,
       Anonymize, Merge, UploadFails, ShredFails, RequestDies
  <2>. QED BY <2>1, <2>2
<1>3. req'[t].at # "apply" /\ \A u \in Requests \ {t} : req'[u] = req[u]
  <2>1. CASE Finish(t)
    BY <2>1, FinishFields
  <2>2. CASE \E step \in {"queue", "complete", "shred", "drop", "return", "pend"} : Go(t, [req[t] EXCEPT !.at = step])
    BY <2>2, StepFields
  <2>3. CASE Go(t, [req[t] EXCEPT !.at = "merge", !.moved = DocsOf(req[t].cust)])
    BY <1>1, <2>3 DEF Go, Types, TypeOK, Request
  <2>. QED BY <1>2, <2>1, <2>2, <2>3
<1>. QED BY <1>3 DEF AppliesGoOn

\* Steps that write no suggestion, but for a row that is inserted.
LEMMA QuietSerial ==
  ASSUME Types, InsertsAlone, SerialInv, NEW t \in Requests,
         \/ Insert(t) \/ Head(t) \/ Complete(t) \/ Queue(t) \/ Return(t) \/ Shred(t) \/ Drop(t)
         \/ Edit(t) \/ Anonymize(t) \/ Move(t) \/ Merge(t) \/ UploadFails(t) \/ ShredFails(t) \/ RequestDies(t)
  PROVE  SerialInv'
<1>1. raced' = raced
  BY DEF Insert, Head, Complete, Queue, Return, Shred, Drop, Edit, Anonymize, Move, Merge, UploadFails, ShredFails,
         RequestDies, Dies, history
<1>2. AppliesGoOn
  BY StepGoesOn DEF RequestStep
<1>3. ReadsStand
  <2>1. CASE Insert(t)
    <3>1. PICK d \in Docs : d = req[t].doc
      BY <2>1 DEF Insert, At, Types, Shaped, OnDocument
    <3>2. \A x \in Docs : x # d => doc'[x] = doc[x]
      BY <2>1, <3>1 DEF Insert, Types, TypeOK
    <3>3. \A u \in Requests : req[u].at = "apply" => req[u].doc # d /\ req[u].doc \in Docs
      BY <2>1, <3>1, ApplyOnDocument DEF Insert, At, InsertsAlone, OnDocument
    <3>. QED BY <3>2, <3>3 DEF ReadsStand, Says
  <2>2. CASE Complete(t)
    <3>1. PICK d \in Docs : d = req[t].doc
      BY <2>2 DEF Complete, Types, Shaped, At, OnDocument
    <3>2. CASE doc[d] = None
      BY <2>2, <3>1, <3>2, SameSays DEF Complete
    <3>3. CASE doc[d] # None
      <4>1. doc' = [doc EXCEPT ![d].done = TRUE]
        BY <2>2, <3>1, <3>3 DEF Complete
      <4>2. doc[d] \in Document
        BY <3>3 DEF Types, TypeOK
      <4>3. \A x \in Docs : Says(x)
        BY <3>3, <4>1, <4>2 DEF Says, Types, TypeOK, Document
      <4>. QED BY <4>3, AllSays
    <3>. QED BY <3>2, <3>3
  <2>3. CASE Drop(t)
    <3>1. \A d \in Docs : Says(d)
      BY <2>3 DEF Drop, DropRow, Says, Types, TypeOK
    <3>. QED BY <3>1, AllSays
  <2>4. CASE Merge(t)
    <3>1. \A d \in Docs : doc[d] # None => doc[d] \in Document
      BY DEF Types, TypeOK
    <3>2. \A d \in Docs : doc'[d] # None => /\ doc[d] # None
                                            /\ doc'[d] = doc[d] \/ \E c : doc'[d] = [doc[d] EXCEPT !.cust = c]
      BY <2>4 DEF Merge, DocsOf, Types, TypeOK
    <3>3. \A d \in Docs : Says(d)
      BY <3>1, <3>2 DEF Says, Document
    <3>. QED BY <3>3, AllSays
  <2>5. CASE doc' = doc
    BY <2>5, SameSays
  <2>. QED BY <2>1, <2>2, <2>3, <2>4, <2>5
         DEF Head, Queue, Return, Shred, Edit, Anonymize, Move, UploadFails, ShredFails, RequestDies, Dies
<1>. QED BY <1>1, <1>2, <1>3, SerialKept

\* A result, a dismissal: nobody applies the document meanwhile.
LEMMA ResultSerial ==
  ASSUME Types, SerialInv, OneWriter, NEW t \in Requests, Pend(t) \/ Mock(t) \/ Dismiss(t) \/ Callback(t)
  PROVE  SerialInv'
<1>1. raced' = raced
  BY DEF Pend, Mock, Dismiss, Callback, history
<1>2. AppliesGoOn
  BY StepGoesOn DEF RequestStep
<1>3. PICK d \in Docs : d = req[t].doc /\ t \in Writers(d) /\ req[t].at # "apply"
  BY DEF Pend, Mock, Dismiss, Callback, At, Types, Shaped, OnDocument, Writers
<1>4. \A x \in Docs : x # d => doc'[x] = doc[x]
  BY <1>3 DEF Pend, Mock, Dismiss, Callback, Ready, Failed, Types, TypeOK
<1>5. ReadsStand
  BY <1>3, <1>4, WriterAlone
<1>. QED BY <1>1, <1>2, <1>5, SerialKept

\* An apply finds what it read, alone.
LEMMA ApplySerial ==
  ASSUME Types, SerialInv, OneWriter, NEW t \in Requests, Apply(t)
  PROVE  SerialInv'
<1>1. PICK d \in Docs : d = req[t].doc /\ req[t].at = "apply" /\ t \in Writers(d)
  BY ApplyOnDocument DEF Apply, At
<1>2. AppliesGoOn
  BY StepGoesOn DEF RequestStep
<1>3. CASE customer[req[t].cust] = None \/ doc[d] = None
  <2>1. UNCHANGED <<doc, raced>>
    BY <1>1, <1>3 DEF Apply
  <2>. QED BY <1>2, <2>1, SameSays, SerialKept
<1>4. CASE customer[req[t].cust] # None /\ doc[d] # None
  <2>1. /\ doc' = [doc EXCEPT ![d].applied = TRUE]
        /\ raced' = IF doc[d].sug # req[t].sug \/ Writers(d) # {t} \/ CronHolds(d) THEN raced \cup {d} ELSE raced
    BY <1>1, <1>4 DEF Apply
  <2>2. Writers(d) = {t} /\ ~CronHolds(d)
    BY <1>1 DEF OneWriter
  <2>3. doc[d].sug = req[t].sug
    BY <1>1, <1>4 DEF SerialInv, At
  <2>4. doc[d] \in Document
    BY <1>4 DEF Types, TypeOK
  <2>5. \A x \in Docs : Says(x)
    BY <1>4, <2>1, <2>4 DEF Says, Types, TypeOK, Document
  <2>6. ReadsStand
    BY <2>5, AllSays
  <2>7. raced' = raced
    BY <2>1, <2>2, <2>3
  <2>. QED BY <1>2, <2>6, <2>7, SerialKept
<1>. QED BY <1>3, <1>4

\* The cron writes to what it holds, the purge drops rows, time passes.
LEMMA OtherSerial ==
  ASSUME Types, SerialInv, OneWriter,
         \/ \E d \in Docs : ClientPuts(d) \/ UrlLapses(d) \/ Expire(d)
         \/ CronStep \/ AuditFails \/ CronDies \/ PurgeStep \/ PurgeShredFails \/ PurgeDies \/ UNCHANGED vars
  PROVE  SerialInv'
<1>1. UNCHANGED <<raced, req>>
  BY DEF ClientPuts, UrlLapses, Expire, CronStep, CronFinds, CronPicks, CronWrites, CronAudits, AuditFails, CronDies, PurgeStep, PurgeFinds,
     PurgeShreds, PurgeDrops, PurgeShredFails, PurgeDies, Dies, history, batches, vars
<1>2. AppliesGoOn
  BY <1>1 DEF AppliesGoOn
<1>3. ReadsStand
  <2>1. CASE CronWrites
    <3>1. PICK d \in Docs : d = cron.doc
      BY <2>1 DEF CronWrites, Types, Shaped
    <3>2. \A x \in Docs : x # d => doc'[x] = doc[x]
      BY <2>1, <3>1 DEF CronWrites, Ready, Failed, Types, TypeOK
    <3>3. CronHolds(d)
      BY <3>1 DEF CronHolds
    <3>. QED BY <3>2, <3>3, WriterAlone
  <2>2. CASE \E d \in Docs : Expire(d)
    <3>1. PICK d \in Docs : doc[d] # None /\ doc' = [doc EXCEPT ![d].expired = TRUE]
      BY <2>2 DEF Expire
    <3>2. doc[d] \in Document
      BY <3>1 DEF Types, TypeOK
    <3>3. \A x \in Docs : Says(x)
      BY <3>1, <3>2 DEF Says, Types, TypeOK, Document
    <3>. QED BY <3>3, AllSays
  <2>3. CASE PurgeDrops
    <3>1. \A d \in Docs : Says(d)
      BY <2>3 DEF PurgeDrops, DropRow, Says, Types, TypeOK
    <3>. QED BY <3>1, AllSays
  <2>4. CASE doc' = doc
    BY <2>4, SameSays
  <2>. QED BY <2>1, <2>2, <2>3, <2>4 DEF ClientPuts, UrlLapses, CronStep, CronFinds, CronPicks, CronAudits, AuditFails, CronDies, PurgeStep,
         PurgeFinds,
         PurgeShreds, PurgeShredFails, PurgeDies, Dies, history, vars
<1>. QED BY <1>1, <1>2, <1>3, SerialKept

LEMMA SerialNext == DocumentsInv /\ SerialInv /\ OneWriter /\ [Next]_vars => SerialInv'
<1>. SUFFICES ASSUME DocumentsInv, SerialInv, OneWriter, [Next]_vars PROVE SerialInv'
  OBVIOUS
<1>1. Types /\ IdsGivenOut /\ InsertsAlone
  BY DEF DocumentsInv, Types, StorageInv
<1>2. ASSUME NEW t \in Requests, RequestBegins(t) PROVE SerialInv'
  BY <1>1, <1>2, BeginSerial, AskApplySerial
<1>3. ASSUME NEW t \in Requests, RequestStep(t) \/ UploadFails(t) \/ ShredFails(t) \/ RequestDies(t) PROVE SerialInv'
  BY <1>1, <1>3, QuietSerial, ResultSerial, ApplySerial DEF RequestStep
<1>. QED BY <1>1, <1>2, <1>3, OtherSerial DEF Next

\* While no two writers of a document's suggestion overlap, an applied document
\* shows what went into the customer: the apply needs no look of its own at the
\* row, whatever uploads, merges, deletions, purges and crashes come between.
THEOREM SerialApply == Spec /\ []OneWriter => []AppliedShows
<1>1. Init => SerialInv
  BY DEF Init, SerialInv, Idle, At
<1>2. DocumentsInv /\ SerialInv => AppliedShows
  BY DEF DocumentsInv, ApplyInv, AppliedIsShown, AppliedShows, SerialInv
<1>. QED BY <1>1, <1>2, SerialNext, DocumentsInvariant, PTL DEF Spec
=============================================================================
