-------------------------------- MODULE Invoices --------------------------------
(***************************************************************************)
(* The invoices and credit notes of one company.  Issuing is one           *)
(* serialisable transaction, which numbers the document; everything else   *)
(* reads in one statement and writes, without asking again, in another.    *)
(***************************************************************************)
EXTENDS Integers, FiniteSets, FiniteSetsExt

CONSTANTS
  Requests,        \* requests in flight at the same time
  Subtotals,       \* in cents, without VAT
  Rates,           \* of VAT, in basis points
  MaxDocs,         \* bound: documents ever created
  MaxYear,         \* bound: the last year, from 1
  MaxCalls,        \* bound: requests
  None             \* null

ASSUME InvoicesAssumption ==
  /\ Subtotals \subseteq Nat /\ Rates \subseteq Nat
  /\ MaxDocs \in Nat \ {0} /\ MaxYear \in Nat \ {0} /\ MaxCalls \in Nat

VARIABLES
  doc,        \* Invoice: the document of each id, or None
  made,       \* documents created so far
  sequence,   \* InvoiceFiscalSequence: lastIssued of each year
  year,       \* of the clock
  req,        \* what each request is doing
  ledger,     \* history: every number given: its year, the number and the document
  late,       \* history: documents edited or deleted when they were no longer drafts
  crossed,    \* history: documents whose amounts were computed from outdated ones
  calls       \* requests so far

vars == <<doc, made, sequence, year, req, ledger, late, crossed, calls>>

Docs == 1..MaxDocs
Years == 1..MaxYear
Kinds == {"INVOICE", "CREDIT_NOTE"}
Doc == [kind : Kinds, status : {"DRAFT", "ISSUED", "VOID"}, credits : Docs \cup {0},
        subtotal : Subtotals, rate : Rates, total : Nat, year : Years \cup {0}, number : Nat]

\* A request: what it is at, its document, the amounts of that document when it
\* was read, the ones it is given, the year it has read from the clock, and
\* whether its transaction can no longer be serialised.
Idle == [at |-> "idle", doc |-> 0, old |-> None, new |-> None, year |-> 0, conflict |-> FALSE]

\* Null is not a document.
ASSUME NoneAssumption == None \notin Doc

\* computeInvoiceAmounts: VAT is rounded half up to a cent.
Gross(subtotal, rate) == subtotal + (2 * subtotal * rate + 10000) \div 20000

Exists(i) == doc[i] # None
Is(i, status) == Exists(i) /\ doc[i].status = status
IsInvoice(i) == Exists(i) /\ doc[i].kind = "INVOICE"
NotesOf(i) == {n \in Docs : Exists(n) /\ doc[n].credits = i}
IssuedNotesOf(i) == {n \in NotesOf(i) : Is(n, "ISSUED")}
Credited(i) == MapThenSumSet(LAMBDA n : doc[n].total, IssuedNotesOf(i))
New(kind, credits, subtotal, rate) ==
  [kind |-> kind, status |-> "DRAFT", credits |-> credits, subtotal |-> subtotal, rate |-> rate,
   total |-> Gross(subtotal, rate), year |-> 0, number |-> 0]

\* The register is empty, or holds one invoice that was issued before.
Init ==
  /\ \E issued \in BOOLEAN, subtotal \in Subtotals, rate \in Rates :
       /\ doc = [i \in Docs |-> IF issued /\ i = 1
                                THEN [New("INVOICE", 0, subtotal, rate) EXCEPT !.status = "ISSUED", !.year = 1, !.number = 1]
                                ELSE None]
       /\ made = IF issued THEN 1 ELSE 0
       /\ sequence = [y \in Years |-> IF issued /\ y = 1 THEN 1 ELSE 0]
       /\ ledger = IF issued THEN {[year |-> 1, number |-> 1, doc |-> 1]} ELSE {}
  /\ year = 1
  /\ req = [t \in Requests |-> Idle]
  /\ late = {} /\ crossed = {} /\ calls = 0

history == <<ledger, late, crossed>>
register == <<doc, made, sequence, ledger, late, crossed>>

Go(t, next) == req' = [req EXCEPT ![t] = next]
Finish(t) == Go(t, Idle)
Asked(t) == req[t].at = "idle" /\ calls < MaxCalls /\ calls' = calls + 1

\* A write to document i, outside a transaction that has read it, spoils that transaction.
Spoil(i, then) ==
  [u \in Requests |-> IF then[u].at = "issue" /\ then[u].doc = i THEN [then[u] EXCEPT !.conflict = TRUE] ELSE then[u]]

NewYear ==
  /\ year < MaxYear /\ year' = year + 1
  /\ UNCHANGED <<register, req, calls>>

(***************************************************************************)
(* create                                                                  *)
(***************************************************************************)

Insert(d) == made < MaxDocs /\ made' = made + 1 /\ doc' = [doc EXCEPT ![made + 1] = d]

CreateInvoice(t) ==
  \E subtotal \in Subtotals, rate \in Rates :
    /\ Asked(t) /\ Insert(New("INVOICE", 0, subtotal, rate))
    /\ UNCHANGED <<sequence, year, req, history>>

\* The invoice a credit note is for is read, and must be issued.
AskNote(t) ==
  \E i \in Docs :
    /\ Asked(t) /\ IsInvoice(i) /\ Is(i, "ISSUED")
    /\ Go(t, [Idle EXCEPT !.at = "note", !.doc = i])
    /\ UNCHANGED <<register, year>>

\* The foreign key refuses a note to a document that has gone.
CreateNote(t) ==
  LET i == req[t].doc IN
  /\ req[t].at = "note" /\ Finish(t)
  /\ IF Exists(i)
     THEN \E subtotal \in Subtotals, rate \in Rates : Insert(New("CREDIT_NOTE", i, subtotal, rate))
     ELSE UNCHANGED <<doc, made>>
  /\ UNCHANGED <<sequence, year, history, calls>>

(***************************************************************************)
(* update, void and remove: findOne, then a write by id.                   *)
(***************************************************************************)

Amounts(i) == [subtotal |-> doc[i].subtotal, rate |-> doc[i].rate]

\* The body gives the subtotal, the rate, both, or neither of them.
AskUpdate(t) ==
  \E i \in Docs, s \in Subtotals \cup {None}, r \in Rates \cup {None} :
    /\ Asked(t) /\ Is(i, "DRAFT")
    /\ Go(t, [Idle EXCEPT !.at = "update", !.doc = i, !.old = Amounts(i), !.new = [subtotal |-> s, rate |-> r]])
    /\ UNCHANGED <<register, year>>

Given(new, old) == IF new = None THEN old ELSE new

\* Mutant: the total follows the subtotal alone.
UpdatedAtOldRate(p, d) ==
  [d EXCEPT !.subtotal = Given(p.new.subtotal, @), !.rate = Given(p.new.rate, @),
            !.total = Gross(Given(p.new.subtotal, p.old.subtotal), p.old.rate)]

\* Mutant: the document is written back as it was read.
UpdatedWhole(p, d) ==
  [d EXCEPT !.subtotal = Given(p.new.subtotal, p.old.subtotal), !.rate = Given(p.new.rate, p.old.rate), !.status = "DRAFT",
            !.total = Gross(Given(p.new.subtotal, p.old.subtotal), Given(p.new.rate, p.old.rate))]

\* The total is computed from the document as it was read; of the subtotal and
\* the rate only what the body gives is written.
Updated(p, d) ==
  [d EXCEPT !.subtotal = Given(p.new.subtotal, @), !.rate = Given(p.new.rate, @),
            !.total = Gross(Given(p.new.subtotal, p.old.subtotal), Given(p.new.rate, p.old.rate))]

Update(t) ==
  LET i == req[t].doc IN
  /\ req[t].at = "update"
  /\ IF Exists(i)
     THEN /\ doc' = [doc EXCEPT ![i] = Updated(req[t], @)]
          /\ req' = Spoil(i, [req EXCEPT ![t] = Idle])
          /\ late' = IF Is(i, "DRAFT") THEN late ELSE late \cup {i}
          /\ crossed' = IF Amounts(i) = req[t].old THEN crossed ELSE crossed \cup {i}
     ELSE Finish(t) /\ UNCHANGED <<doc, late, crossed>>
  /\ UNCHANGED <<made, sequence, year, ledger, calls>>

AskVoid(t) ==
  \E i \in Docs :
    /\ Asked(t) /\ Is(i, "ISSUED")
    /\ Go(t, [Idle EXCEPT !.at = "void", !.doc = i])
    /\ UNCHANGED <<register, year>>

Void(t) ==
  LET i == req[t].doc IN
  /\ req[t].at = "void"
  /\ IF Exists(i)
     THEN doc' = [doc EXCEPT ![i].status = "VOID"] /\ req' = Spoil(i, [req EXCEPT ![t] = Idle])
     ELSE Finish(t) /\ UNCHANGED doc
  /\ UNCHANGED <<made, sequence, year, history, calls>>

AskRemove(t) ==
  \E i \in Docs :
    /\ Asked(t) /\ Is(i, "DRAFT")
    /\ Go(t, [Idle EXCEPT !.at = "remove", !.doc = i])
    /\ UNCHANGED <<register, year>>

\* Mutant: the notes of a deleted document keep pointing at it.
RemoveReferenced(t) ==
  LET i == req[t].doc IN
  /\ req[t].at = "remove"
  /\ IF Exists(i)
     THEN /\ doc' = [doc EXCEPT ![i] = None] /\ req' = Spoil(i, [req EXCEPT ![t] = Idle])
          /\ late' = IF Is(i, "DRAFT") THEN late ELSE late \cup {i}
     ELSE Finish(t) /\ UNCHANGED <<doc, late>>
  /\ UNCHANGED <<made, sequence, year, ledger, crossed, calls>>

\* The foreign key keeps a document that a note refers to.
Remove(t) ==
  LET i == req[t].doc IN
  /\ req[t].at = "remove"
  /\ IF Exists(i) /\ NotesOf(i) = {}
     THEN /\ doc' = [doc EXCEPT ![i] = None] /\ req' = Spoil(i, [req EXCEPT ![t] = Idle])
          /\ late' = IF Is(i, "DRAFT") THEN late ELSE late \cup {i}
     ELSE Finish(t) /\ UNCHANGED <<doc, late>>
  /\ UNCHANGED <<made, sequence, year, ledger, crossed, calls>>

(***************************************************************************)
(* issue: one serialisable transaction.  It reads and checks on a snapshot *)
(* and writes at its end, unless by then another transaction has written   *)
(* what it writes, or has read and written so that no order of the two     *)
(* explains both.                                                          *)
(***************************************************************************)

\* The year is taken from the clock before the transaction begins.
AskIssue(t) ==
  \E i \in Docs :
    /\ Asked(t) /\ Go(t, [Idle EXCEPT !.at = "begin", !.doc = i, !.year = year])
    /\ UNCHANGED <<register, year>>

\* Mutant: a note is checked against the invoice alone.
WithinInvoice(i) == doc[i].total <= doc[doc[i].credits].total

\* A note must leave the issued notes of its invoice within the invoice.
WithinRemaining(i) == doc[i].total <= doc[doc[i].credits].total - Credited(doc[i].credits)

Issuable(i) ==
  /\ Is(i, "DRAFT")
  /\ doc[i].kind = "CREDIT_NOTE" =>
       LET o == doc[i].credits IN IsInvoice(o) /\ Is(o, "ISSUED") /\ WithinRemaining(i)

BeginIssue(t) ==
  /\ req[t].at = "begin"
  /\ IF Issuable(req[t].doc) THEN Go(t, [req[t] EXCEPT !.at = "issue"]) ELSE Finish(t)
  /\ UNCHANGED <<register, year, calls>>

\* Mutant: the transaction reads what is committed.
NoClash(i, y, p) == FALSE

\* Of two transactions that issue at the same time, one fails if they count in
\* the same year, issue the same document or add up the same notes.
Clash(i, y, p) ==
  /\ p.at = "issue"
  /\ \/ p.year = y \/ p.doc = i
     \/ doc[i].kind = "CREDIT_NOTE" /\ Exists(p.doc) /\ doc[p.doc].kind = "CREDIT_NOTE" /\ doc[p.doc].credits = doc[i].credits

CommitIssue(t) ==
  LET i == req[t].doc  y == req[t].year  n == sequence[y] + 1 IN
  /\ req[t].at = "issue" /\ ~req[t].conflict
  /\ sequence' = [sequence EXCEPT ![y] = n]
  /\ doc' = [doc EXCEPT ![i] = [@ EXCEPT !.status = "ISSUED", !.year = y, !.number = n]]
  /\ ledger' = ledger \cup {[year |-> y, number |-> n, doc |-> i]}
  /\ req' = [u \in Requests |-> IF u = t THEN Idle
                                ELSE IF Clash(i, y, req[u]) THEN [req[u] EXCEPT !.conflict = TRUE] ELSE req[u]]
  /\ UNCHANGED <<made, year, late, crossed, calls>>

\* The transaction fails, because it must or because the database is careful.
AbortIssue(t) ==
  /\ req[t].at = "issue" /\ Finish(t)
  /\ UNCHANGED <<register, year, calls>>

Next ==
  \/ NewYear
  \/ \E t \in Requests :
       \/ CreateInvoice(t) \/ AskNote(t) \/ CreateNote(t)
       \/ AskUpdate(t) \/ Update(t) \/ AskVoid(t) \/ Void(t) \/ AskRemove(t) \/ Remove(t)
       \/ AskIssue(t) \/ BeginIssue(t) \/ CommitIssue(t) \/ AbortIssue(t)

Spec == Init /\ [][Next]_vars

-----------------------------------------------------------------------------
(***************************************************************************)
(* Properties.                                                             *)
(***************************************************************************)

Seen == [subtotal : Subtotals, rate : Rates]
Body == [subtotal : Subtotals \cup {None}, rate : Rates \cup {None}]
Pending == [at : {"idle", "note", "update", "void", "remove", "begin", "issue"}, doc : Docs \cup {0},
            old : Seen \cup {None}, new : Body \cup {None},
            year : Years \cup {0}, conflict : BOOLEAN]

\* Every variable keeps its shape.
TypeOK ==
  /\ doc \in [Docs -> Doc \cup {None}]
  /\ made \in 0..MaxDocs
  /\ sequence \in [Years -> Nat]
  /\ year \in Years
  /\ req \in [Requests -> Pending]
  /\ ledger \subseteq [year : Years, number : Nat, doc : Docs]
  /\ late \subseteq Docs /\ crossed \subseteq Docs
  /\ calls \in 0..MaxCalls

NumbersOf(y) == {e.number : e \in {e \in ledger : e.year = y}}

\* Every number is given to one document, every document gets one number, and
\* the numbers of a year have no gap, however many requests issue at once.
NumbersGapless ==
  /\ \A e, f \in ledger : (e.year = f.year /\ e.number = f.number) \/ e.doc = f.doc => e = f
  /\ \A y \in Years : NumbersOf(y) = 1..sequence[y]

\* The register shows those numbers: a document that was numbered is there,
\* issued or void, under its number, unless it was deleted in spite of it.
RegisterComplete ==
  \A e \in ledger :
    \/ Exists(e.doc) /\ doc[e.doc].status # "DRAFT" /\ doc[e.doc].year = e.year /\ doc[e.doc].number = e.number
    \/ ~Exists(e.doc) /\ e.doc \in late

\* The issued notes of an invoice never exceed it, unless one of them was edited
\* after it was issued.
CreditsWithinTotal ==
  \A i \in Docs : IsInvoice(i) /\ (IssuedNotesOf(i) \cup {i}) \cap late = {} => Credited(i) <= doc[i].total

\* A note refers to an invoice that was issued.
NotesReferToIssued ==
  \A n \in Docs : Exists(n) /\ doc[n].kind = "CREDIT_NOTE" => IsInvoice(doc[n].credits) /\ ~Is(doc[n].credits, "DRAFT")

\* The total of a document is that of its subtotal and rate, unless two edits
\* of it overlapped.
AmountsAgree ==
  \A i \in Docs : Exists(i) /\ i \notin crossed => doc[i].total = Gross(doc[i].subtotal, doc[i].rate)

\* What is issued stays as it is but for becoming void, unless an edit or a
\* deletion was under way while it was issued.
IssuedIsFinal ==
  [][\A i \in Docs : Exists(i) /\ ~Is(i, "DRAFT") /\ i \notin late' =>
       doc'[i] \in {doc[i], [doc[i] EXCEPT !.status = "VOID"]}]_vars

\* No request begins while another is under way.
OneAtATime == \A t, u \in Requests : req[t].at # "idle" /\ req[u].at # "idle" => t = u

\* What the register shows: the documents that were issued, and their numbers.
Entry(i) == IF Exists(i) /\ ~Is(i, "DRAFT") THEN doc[i] ELSE None
Shown == [i \in Docs |-> Entry(i)]
Register == INSTANCE FiscalRegister WITH Entries <- Doc, entry <- Shown, last <- sequence

\* As long as no edit and no deletion reaches a document that has been issued,
\* the handlers keep a fiscal register.
RegisterStep == [][late' = {} => Register!Next \/ UNCHANGED <<Shown, sequence>>]_vars

-----------------------------------------------------------------------------
(***************************************************************************)
(* The inductive invariant.                                                *)
(***************************************************************************)

\* What a request is at determines which of its fields are filled.  The
\* document a note is asked for was an issued invoice, the one to be voided was
\* issued, and neither is ever anything else again.
Shaped(p) ==
  /\ p.at # "idle" => p.doc \in Docs
  /\ p.at = "update" => p.old \in Seen /\ p.new \in Body
  /\ p.at \in {"begin", "issue"} => p.year \in Years
  /\ p.at \in {"note", "void"} => p.doc <= made /\ (Exists(p.doc) => ~Is(p.doc, "DRAFT"))
  /\ p.at = "note" /\ Exists(p.doc) => IsInvoice(p.doc)

\* A transaction that can still commit sees its document as it is.
SnapshotHolds(p) == p.at = "issue" /\ ~p.conflict => Is(p.doc, "DRAFT")

\* Ids are given in order, a draft has no number, and a note is for a document.
Numbered ==
  /\ \A i \in Docs : i > made => doc[i] = None /\ \A e \in ledger : e.doc # i
  /\ \A i \in Docs : Is(i, "DRAFT") => \A e \in ledger : e.doc # i
  /\ \A i \in Docs : Exists(i) /\ doc[i].kind = "CREDIT_NOTE" => doc[i].credits # 0

InvoicesInv ==
  /\ TypeOK /\ Numbered
  /\ \A t \in Requests : Shaped(req[t]) /\ SnapshotHolds(req[t])
  /\ NumbersGapless /\ RegisterComplete /\ NotesReferToIssued /\ AmountsAgree

\* The issued notes of an invoice that still say what they said when issued.
KeptNotesOf(i) == IssuedNotesOf(i) \ late
Kept(i) == MapThenSumSet(LAMBDA n : doc[n].total, KeptNotesOf(i))

\* A transaction that can still commit a note leaves the invoice room for it.
RoomHolds(p) ==
  p.at = "issue" /\ ~p.conflict /\ doc[p.doc].kind = "CREDIT_NOTE" =>
    LET o == doc[p.doc].credits IN o \in late \/ Kept(o) + doc[p.doc].total <= doc[o].total

\* Relative to InvoicesInv.  Unlike CreditsWithinTotal it goes on counting the
\* other notes of an invoice when one of them is edited.
CreditsInv ==
  /\ \A i \in Docs : IsInvoice(i) => doc[i].credits = 0
  /\ \A i \in Docs : IsInvoice(i) /\ i \notin late => Kept(i) <= doc[i].total
  /\ \A t \in Requests : RoomHolds(req[t])

\* Relative to InvoicesInv, while requests come one at a time: what a request
\* has read is what is there when it writes.
SerialInv ==
  /\ late = {} /\ crossed = {}
  /\ \A t \in Requests :
       /\ req[t].at \in {"update", "remove"} => Is(req[t].doc, "DRAFT")
       /\ req[t].at = "update" => Amounts(req[t].doc) = req[t].old
=============================================================================
