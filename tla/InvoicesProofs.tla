----------------------------- MODULE InvoicesProofs -----------------------------
(***************************************************************************)
(* Proofs about Invoices: the inductive invariant, and what it says of the *)
(* numbers given, of the notes and of the amounts; then the sum of the     *)
(* notes of an invoice, and that it stays within the invoice.              *)
(***************************************************************************)
EXTENDS Invoices, TLAPS, FiniteSetTheorems, WellFoundedInduction

LEMMA GrossNat == ASSUME NEW s \in Nat, NEW r \in Nat PROVE Gross(s, r) \in Nat
<1>. PICK p : p = s * r
  OBVIOUS
<1>1. p \in Nat /\ 2 * s * r = 2 * p
  OBVIOUS
<1>. QED BY <1>1 DEF Gross

LEMMA NewDoc ==
  ASSUME NEW kind \in Kinds, NEW credits \in Docs \cup {0}, NEW s \in Subtotals, NEW r \in Rates
  PROVE  /\ New(kind, credits, s, r) \in Doc
         /\ New(kind, credits, s, r) = [kind |-> kind, status |-> "DRAFT", credits |-> credits, subtotal |-> s,
                                        rate |-> r, total |-> Gross(s, r), year |-> 0, number |-> 0]
<1>1. Gross(s, r) \in Nat
  BY GrossNat, InvoicesAssumption
<1>. QED BY <1>1 DEF New, Doc

LEMMA IdleSound == Idle \in Pending /\ Idle.at = "idle" /\ Idle.conflict = FALSE
BY DEF Idle, Pending

LEMMA IdleOk == Shaped(Idle) /\ SnapshotHolds(Idle) /\ (Shaped(Idle) /\ SnapshotHolds(Idle))'
BY DEF Idle, Shaped, SnapshotHolds

LEMMA InitInv == Init => InvoicesInv
<1>. SUFFICES ASSUME Init PROVE InvoicesInv
  OBVIOUS
<1>1. PICK issued \in BOOLEAN, subtotal \in Subtotals, rate \in Rates :
        /\ doc = [i \in Docs |-> IF issued /\ i = 1
                                 THEN [New("INVOICE", 0, subtotal, rate) EXCEPT !.status = "ISSUED", !.year = 1, !.number = 1]
                                 ELSE None]
        /\ made = IF issued THEN 1 ELSE 0
        /\ sequence = [y \in Years |-> IF issued /\ y = 1 THEN 1 ELSE 0]
        /\ ledger = IF issued THEN {[year |-> 1, number |-> 1, doc |-> 1]} ELSE {}
  BY DEF Init
<1>. PICK d : d = [New("INVOICE", 0, subtotal, rate) EXCEPT !.status = "ISSUED", !.year = 1, !.number = 1]
  OBVIOUS
<1>2. 1 \in Docs /\ 1 \in Years /\ made \in 0..MaxDocs /\ MaxCalls \in Nat
  BY <1>1, InvoicesAssumption DEF Docs, Years
<1>3. /\ New("INVOICE", 0, subtotal, rate) \in Doc
      /\ New("INVOICE", 0, subtotal, rate).kind = "INVOICE"
      /\ New("INVOICE", 0, subtotal, rate).subtotal = subtotal /\ New("INVOICE", 0, subtotal, rate).rate = rate
      /\ New("INVOICE", 0, subtotal, rate).total = Gross(subtotal, rate)
  BY NewDoc DEF Kinds
<1>4. /\ d \in Doc /\ d.kind = "INVOICE" /\ d.status = "ISSUED" /\ d.year = 1 /\ d.number = 1
      /\ d.total = Gross(d.subtotal, d.rate)
  BY <1>2, <1>3 DEF Doc
<1>5. \A i \in Docs : doc[i] = IF issued /\ i = 1 THEN d ELSE None
  BY <1>1
<1>6. \A e \in ledger : issued /\ e.year = 1 /\ e.number = 1 /\ e.doc = 1
  BY <1>1
<1>7. TypeOK
  <2>1. ledger \subseteq [year : Years, number : Nat, doc : Docs]
    BY <1>1, <1>2
  <2>. QED BY <1>1, <1>2, <1>4, <1>5, <2>1, IdleSound DEF Init, TypeOK
<1>8. Numbered
  BY <1>1, <1>2, <1>4, <1>5, <1>6 DEF Numbered, Is, Exists, Docs
<1>9. \A t \in Requests : Shaped(req[t]) /\ SnapshotHolds(req[t])
  BY IdleOk DEF Init
<1>10. NumbersGapless
  <2>1. \A e, f \in ledger : e = f
    BY <1>1
  <2>2. ASSUME NEW y \in Years PROVE NumbersOf(y) = 1..sequence[y]
    <3>1. CASE issued /\ y = 1
      <4>. PICK g : g = [year |-> 1, number |-> 1, doc |-> 1]
        OBVIOUS
      <4>1. ledger = {g} /\ g.year = 1 /\ g.number = 1
        BY <1>1, <3>1
      <4>2. {e \in ledger : e.year = y} = {g}
        BY <3>1, <4>1
      <4>3. NumbersOf(y) = {1}
        BY <4>1, <4>2 DEF NumbersOf
      <4>. QED BY <1>1, <3>1, <4>3
    <3>2. CASE ~(issued /\ y = 1)
      <4>1. NumbersOf(y) = {}
        BY <1>6, <3>2 DEF NumbersOf
      <4>. QED BY <1>1, <3>2, <4>1
    <3>. QED BY <3>1, <3>2
  <2>. QED BY <2>1, <2>2 DEF NumbersGapless
<1>11. RegisterComplete
  BY <1>2, <1>4, <1>5, <1>6, NoneAssumption DEF RegisterComplete, Exists
<1>12. NotesReferToIssued /\ AmountsAgree
  BY <1>4, <1>5 DEF NotesReferToIssued, AmountsAgree, Exists
<1>. QED BY <1>7, <1>8, <1>9, <1>10, <1>11, <1>12 DEF InvoicesInv

-----------------------------------------------------------------------------
(***************************************************************************)
(* Steps that leave the register alone.                                    *)
(***************************************************************************)

LEMMA RegisterSame ==
  ASSUME InvoicesInv, UNCHANGED <<doc, made, sequence, ledger, late, crossed>>
  PROVE  (Numbered /\ NumbersGapless /\ RegisterComplete /\ NotesReferToIssued /\ AmountsAgree)'
BY DEF InvoicesInv, Numbered, NumbersGapless, NumbersOf, RegisterComplete, NotesReferToIssued, AmountsAgree, Is, IsInvoice,
       Exists

LEMMA ReqInv ==
  ASSUME InvoicesInv, NEW t \in Requests, NEW p \in Pending, Shaped(p), SnapshotHolds(p), Go(t, p),
         UNCHANGED <<doc, made, sequence, ledger, late, crossed, year>>, calls' \in 0..MaxCalls
  PROVE  InvoicesInv'
<1>1. req' = [req EXCEPT ![t] = p] /\ req \in [Requests -> Pending]
  BY DEF Go, InvoicesInv, TypeOK
<1>2. TypeOK'
  BY <1>1 DEF InvoicesInv, TypeOK
<1>3. (\A u \in Requests : Shaped(req[u]) /\ SnapshotHolds(req[u]))'
  BY <1>1 DEF InvoicesInv, Shaped, SnapshotHolds, Is, IsInvoice, Exists
<1>. QED BY <1>2, <1>3, RegisterSame DEF InvoicesInv

LEMMA FinishInv ==
  ASSUME InvoicesInv, NEW t \in Requests, Finish(t),
         UNCHANGED <<doc, made, sequence, ledger, late, crossed, year>>, calls' \in 0..MaxCalls
  PROVE  InvoicesInv'
BY IdleSound, IdleOk, ReqInv DEF Finish

LEMMA AskedInv ==
  ASSUME InvoicesInv, NEW t \in Requests, Asked(t) PROVE calls' \in 0..MaxCalls
BY InvoicesAssumption DEF Asked, InvoicesInv, TypeOK

LEMMA OtherInv == ASSUME InvoicesInv, NewYear \/ UNCHANGED vars PROVE InvoicesInv'
<1>1. UNCHANGED <<doc, made, sequence, ledger, late, crossed, req, calls>> /\ year' \in Years
  BY InvoicesAssumption DEF NewYear, vars, register, InvoicesInv, TypeOK, Years
<1>2. TypeOK'
  BY <1>1 DEF InvoicesInv, TypeOK
<1>3. (\A u \in Requests : Shaped(req[u]) /\ SnapshotHolds(req[u]))'
  BY <1>1 DEF InvoicesInv, Shaped, SnapshotHolds, Is, IsInvoice, Exists
<1>. QED BY <1>1, <1>2, <1>3, RegisterSame DEF InvoicesInv

\* The requests that read and check, before they write.
LEMMA AskInv ==
  ASSUME InvoicesInv, NEW t \in Requests, AskNote(t) \/ AskUpdate(t) \/ AskVoid(t) \/ AskRemove(t) \/ AskIssue(t)
  PROVE  InvoicesInv'
<1>1. Asked(t) /\ UNCHANGED <<doc, made, sequence, ledger, late, crossed, year>>
  BY DEF AskNote, AskUpdate, AskVoid, AskRemove, AskIssue, register
<1>2. CASE AskNote(t)
  <2>. PICK i \in Docs : IsInvoice(i) /\ Is(i, "ISSUED") /\ Go(t, [Idle EXCEPT !.at = "note", !.doc = i])
    BY <1>2 DEF AskNote
  <2>. PICK p : p = [Idle EXCEPT !.at = "note", !.doc = i]
    OBVIOUS
  <2>1. p \in Pending /\ p.at = "note" /\ p.doc = i
    BY DEF Idle, Pending
  <2>2. i <= made /\ ~Is(i, "DRAFT")
    BY InvoicesAssumption DEF InvoicesInv, TypeOK, Numbered, Is, Exists, Docs
  <2>. QED BY <1>1, <2>1, <2>2, AskedInv, ReqInv DEF Shaped, SnapshotHolds
<1>3. CASE AskUpdate(t)
  <2>. PICK i \in Docs, s \in Subtotals \cup {None}, r \in Rates \cup {None} :
         /\ Is(i, "DRAFT")
         /\ Go(t, [Idle EXCEPT !.at = "update", !.doc = i, !.old = Amounts(i), !.new = [subtotal |-> s, rate |-> r]])
    BY <1>3 DEF AskUpdate
  <2>. PICK old, new : old = Amounts(i) /\ new = [subtotal |-> s, rate |-> r]
    OBVIOUS
  <2>. PICK p : p = [Idle EXCEPT !.at = "update", !.doc = i, !.old = old, !.new = new]
    OBVIOUS
  <2>1. old \in Seen /\ new \in Body
    BY DEF Seen, Body, Amounts, Is, Exists, InvoicesInv, TypeOK, Doc
  <2>2. p \in Pending /\ p.at = "update" /\ p.doc = i /\ p.old = old /\ p.new = new
    BY <2>1 DEF Idle, Pending
  <2>. QED BY <1>1, <2>1, <2>2, AskedInv, ReqInv DEF Shaped, SnapshotHolds
<1>4. CASE AskVoid(t) \/ AskRemove(t)
  <2>. PICK i \in Docs, at \in {"void", "remove"} : Go(t, [Idle EXCEPT !.at = at, !.doc = i]) /\ (at = "void" => Is(i, "ISSUED"))
    BY <1>4 DEF AskVoid, AskRemove
  <2>. PICK p : p = [Idle EXCEPT !.at = at, !.doc = i]
    OBVIOUS
  <2>1. p \in Pending /\ p.at = at /\ p.doc = i
    BY DEF Idle, Pending
  <2>2. at = "void" => i <= made /\ ~Is(i, "DRAFT")
    BY InvoicesAssumption DEF InvoicesInv, TypeOK, Numbered, Is, Exists, Docs
  <2>. QED BY <1>1, <2>1, <2>2, AskedInv, ReqInv DEF Shaped, SnapshotHolds
<1>5. CASE AskIssue(t)
  <2>. PICK i \in Docs : Go(t, [Idle EXCEPT !.at = "begin", !.doc = i, !.year = year])
    BY <1>5 DEF AskIssue
  <2>. PICK p : p = [Idle EXCEPT !.at = "begin", !.doc = i, !.year = year]
    OBVIOUS
  <2>1. p \in Pending /\ p.at = "begin" /\ p.doc = i /\ p.year \in Years
    BY DEF Idle, Pending, InvoicesInv, TypeOK
  <2>. QED BY <1>1, <2>1, AskedInv, ReqInv DEF Shaped, SnapshotHolds
<1>. QED BY <1>2, <1>3, <1>4, <1>5

LEMMA BeginIssueInv == ASSUME InvoicesInv, NEW t \in Requests, BeginIssue(t) PROVE InvoicesInv'
<1>1. UNCHANGED <<doc, made, sequence, ledger, late, crossed, year>> /\ calls' \in 0..MaxCalls
  BY DEF BeginIssue, register, InvoicesInv, TypeOK
<1>2. CASE Finish(t)
  BY <1>1, <1>2, FinishInv
<1>3. CASE Issuable(req[t].doc) /\ Go(t, [req[t] EXCEPT !.at = "issue"])
  <2>. PICK p : p = [req[t] EXCEPT !.at = "issue"]
    OBVIOUS
  <2>1. req[t] \in Pending /\ req[t].at = "begin" /\ Shaped(req[t])
    BY DEF BeginIssue, InvoicesInv, TypeOK
  <2>2. p \in Pending /\ p.at = "issue" /\ p.doc = req[t].doc /\ p.year = req[t].year
    BY <2>1 DEF Pending
  <2>3. Is(p.doc, "DRAFT")
    BY <1>3, <2>2 DEF Issuable
  <2>. QED BY <1>1, <1>3, <2>1, <2>2, <2>3, ReqInv DEF Shaped, SnapshotHolds
<1>. QED BY <1>2, <1>3 DEF BeginIssue

LEMMA AbortIssueInv == ASSUME InvoicesInv, NEW t \in Requests, AbortIssue(t) PROVE InvoicesInv'
<1>1. UNCHANGED <<doc, made, sequence, ledger, late, crossed, year>> /\ calls' \in 0..MaxCalls /\ Finish(t)
  BY DEF AbortIssue, register, InvoicesInv, TypeOK
<1>. QED BY <1>1, FinishInv

-----------------------------------------------------------------------------
(***************************************************************************)
(* Steps that create or write a document.                                  *)
(***************************************************************************)

\* A draft gets the next id.
LEMMA InsertInv ==
  ASSUME InvoicesInv, NEW d \in Doc, Insert(d), d.status = "DRAFT", d.total = Gross(d.subtotal, d.rate),
         d.kind = "CREDIT_NOTE" => d.credits <= made /\ d.credits \in Docs /\ IsInvoice(d.credits) /\ ~Is(d.credits, "DRAFT"),
         req' \in [Requests -> Pending], \A t \in Requests : req'[t] \in {req[t], Idle},
         UNCHANGED <<sequence, year, ledger, late, crossed>>, calls' \in 0..MaxCalls
  PROVE  InvoicesInv'
<1>. PICK i : i = made + 1
  OBVIOUS
<1>1. /\ doc' = [doc EXCEPT ![i] = d] /\ made' = i /\ i \in Docs /\ made' \in 0..MaxDocs /\ made \in Nat /\ i > made
      /\ \A j \in Docs : j > i => j > made /\ j # i
  BY InvoicesAssumption DEF Insert, InvoicesInv, TypeOK, Docs
<1>2. doc'[i] = d /\ (\A j \in Docs : j # i => doc'[j] = doc[j]) /\ d # None /\ doc[i] = None
      /\ \A e \in ledger : e.doc # i /\ e.doc \in Docs
  BY <1>1, NoneAssumption DEF InvoicesInv, TypeOK, Numbered
<1>3. TypeOK'
  BY <1>1 DEF InvoicesInv, TypeOK
<1>4. Numbered'
  <2>1. d.kind = "CREDIT_NOTE" => d.credits # 0
    BY DEF Docs
  <2>. QED BY <1>1, <1>2, <2>1 DEF InvoicesInv, Numbered, Is, Exists
<1>5. (\A t \in Requests : Shaped(req[t]) /\ SnapshotHolds(req[t]))'
  <2>. SUFFICES ASSUME NEW t \in Requests, req'[t] = req[t] PROVE (Shaped(req[t]) /\ SnapshotHolds(req[t]))'
    BY IdleOk
  <2>1. Shaped(req[t]) /\ SnapshotHolds(req[t]) /\ req[t] \in Pending
    BY DEF InvoicesInv, TypeOK
  <2>2. req[t].at \in {"note", "void"} => req[t].doc # i /\ req[t].doc \in Docs /\ req[t].doc <= i
    BY <1>1, <2>1 DEF Shaped, Docs
  <2>3. req[t].at = "issue" /\ ~req[t].conflict => req[t].doc # i /\ req[t].doc \in Docs
    BY <1>2, <2>1 DEF Shaped, SnapshotHolds, Is, Exists
  <2>. QED BY <1>1, <1>2, <2>1, <2>2, <2>3 DEF Shaped, SnapshotHolds, Is, IsInvoice, Exists
<1>6. NumbersGapless'
  BY DEF InvoicesInv, NumbersGapless, NumbersOf
<1>7. RegisterComplete'
  BY <1>2 DEF InvoicesInv, RegisterComplete, Exists
<1>8. NotesReferToIssued'
  <2>. SUFFICES ASSUME NEW n \in Docs, doc'[n] # None, doc'[n].kind = "CREDIT_NOTE"
                PROVE  (IsInvoice(doc[n].credits) /\ ~Is(doc[n].credits, "DRAFT"))'
    BY DEF NotesReferToIssued, Exists
  <2>1. IsInvoice(doc'[n].credits) /\ ~Is(doc'[n].credits, "DRAFT") /\ doc'[n].credits \in Docs /\ doc'[n].credits # i
    <3>1. CASE n = i
      BY <1>1, <1>2, <3>1
    <3>2. CASE n # i
      <4>1. doc'[n] = doc[n] /\ doc[n] \in Doc /\ IsInvoice(doc[n].credits) /\ ~Is(doc[n].credits, "DRAFT")
        BY <1>2, <3>2 DEF InvoicesInv, TypeOK, NotesReferToIssued, Exists
      <4>2. doc[n].credits # 0
        BY <4>1 DEF InvoicesInv, Numbered, Exists
      <4>. QED BY <1>2, <4>1, <4>2 DEF Doc, IsInvoice, Exists
    <3>. QED BY <3>1, <3>2
  <2>. QED BY <1>2, <2>1 DEF IsInvoice, Is, Exists
<1>9. AmountsAgree'
  BY <1>2 DEF InvoicesInv, AmountsAgree, Exists
<1>. QED BY <1>3, <1>4, <1>5, <1>6, <1>7, <1>8, <1>9 DEF InvoicesInv

LEMMA CreateInvoiceInv == ASSUME InvoicesInv, NEW t \in Requests, CreateInvoice(t) PROVE InvoicesInv'
<1>1. PICK s \in Subtotals, r \in Rates : Asked(t) /\ Insert(New("INVOICE", 0, s, r))
  BY DEF CreateInvoice
<1>. PICK d : d = New("INVOICE", 0, s, r)
  OBVIOUS
<1>2. d \in Doc /\ d.status = "DRAFT" /\ d.kind = "INVOICE" /\ d.total = Gross(d.subtotal, d.rate)
  BY NewDoc DEF Kinds
<1>3. UNCHANGED <<sequence, year, ledger, late, crossed, req>>
  BY DEF CreateInvoice, history
<1>4. req' \in [Requests -> Pending] /\ \A u \in Requests : req'[u] \in {req[u], Idle}
  BY <1>3 DEF InvoicesInv, TypeOK
<1>. QED BY <1>1, <1>2, <1>3, <1>4, AskedInv, InsertInv

LEMMA CreateNoteInv == ASSUME InvoicesInv, NEW t \in Requests, CreateNote(t) PROVE InvoicesInv'
<1>. PICK i : i = req[t].doc
  OBVIOUS
<1>1. /\ UNCHANGED <<sequence, year, ledger, late, crossed, calls>> /\ Finish(t) /\ req[t].at = "note"
      /\ Shaped(req[t]) /\ calls' \in 0..MaxCalls
  BY DEF CreateNote, history, InvoicesInv, TypeOK
<1>2. CASE Exists(i)
  <2>1. PICK s \in Subtotals, r \in Rates : Insert(New("CREDIT_NOTE", i, s, r))
    BY <1>2 DEF CreateNote
  <2>. PICK d : d = New("CREDIT_NOTE", i, s, r)
    OBVIOUS
  <2>2. i \in Docs /\ i <= made /\ IsInvoice(i) /\ ~Is(i, "DRAFT")
    BY <1>1, <1>2 DEF Shaped
  <2>3. d \in Doc /\ d.status = "DRAFT" /\ d.credits = i /\ d.total = Gross(d.subtotal, d.rate)
    BY <2>2, NewDoc DEF Kinds
  <2>4. req' \in [Requests -> Pending] /\ \A u \in Requests : req'[u] \in {req[u], Idle}
    BY <1>1, IdleSound DEF Finish, Go, InvoicesInv, TypeOK
  <2>. QED BY <1>1, <2>1, <2>2, <2>3, <2>4, InsertInv
<1>3. CASE ~Exists(i)
  BY <1>1, <1>3, FinishInv DEF CreateNote
<1>. QED BY <1>2, <1>3

\* What Spoil does to the other requests.
LEMMA Spoiled ==
  ASSUME InvoicesInv, NEW t \in Requests, NEW i \in Docs, req' = Spoil(i, [req EXCEPT ![t] = Idle])
  PROVE  /\ req' \in [Requests -> Pending]
         /\ \A u \in Requests :
              \/ req'[u] = Idle
              \/ req'[u] = req[u] /\ ~(req[u].at = "issue" /\ req[u].doc = i)
              \/ /\ req'[u].at = req[u].at /\ req'[u].doc = req[u].doc /\ req'[u].old = req[u].old
                 /\ req'[u].new = req[u].new /\ req'[u].year = req[u].year
                 /\ req[u].at = "issue" /\ req'[u].conflict = TRUE
<1>. PICK then : then = [req EXCEPT ![t] = Idle]
  OBVIOUS
<1>1. then \in [Requests -> Pending] /\ \A u \in Requests : then[u] \in {req[u], Idle}
  BY IdleSound DEF InvoicesInv, TypeOK
<1>2. req' = [u \in Requests |-> IF then[u].at = "issue" /\ then[u].doc = i THEN [then[u] EXCEPT !.conflict = TRUE] ELSE then[u]]
  BY DEF Spoil
<1>3. \A p \in Pending : /\ [p EXCEPT !.conflict = TRUE] \in Pending
                         /\ [p EXCEPT !.conflict = TRUE].at = p.at /\ [p EXCEPT !.conflict = TRUE].doc = p.doc
                         /\ [p EXCEPT !.conflict = TRUE].old = p.old /\ [p EXCEPT !.conflict = TRUE].new = p.new
                         /\ [p EXCEPT !.conflict = TRUE].year = p.year /\ [p EXCEPT !.conflict = TRUE].conflict = TRUE
  BY DEF Pending
<1>4. req' \in [Requests -> Pending]
  <2>1. \A u \in Requests : then[u] \in Pending
    BY <1>1
  <2>2. \A u \in Requests : [then[u] EXCEPT !.conflict = TRUE] \in Pending
    BY <1>3, <2>1
  <2>. QED BY <1>2, <2>1, <2>2
<1>5. ASSUME NEW u \in Requests, then[u] = req[u]
      PROVE  \/ req'[u] = req[u] /\ ~(req[u].at = "issue" /\ req[u].doc = i)
             \/ /\ req'[u].at = req[u].at /\ req'[u].doc = req[u].doc /\ req'[u].old = req[u].old
                /\ req'[u].new = req[u].new /\ req'[u].year = req[u].year
                /\ req[u].at = "issue" /\ req'[u].conflict = TRUE
  <2>1. req[u] \in Pending
    BY DEF InvoicesInv, TypeOK
  <2>2. CASE req[u].at = "issue" /\ req[u].doc = i
    <3>1. req'[u] = [req[u] EXCEPT !.conflict = TRUE]
      BY <1>2, <1>5, <2>2
    <3>. QED BY <1>3, <2>1, <2>2, <3>1
  <2>3. CASE ~(req[u].at = "issue" /\ req[u].doc = i)
    BY <1>2, <1>5, <2>3
  <2>. QED BY <2>2, <2>3
<1>6. \A u \in Requests : then[u] = Idle => req'[u] = Idle
  BY <1>2, IdleSound
<1>. QED BY <1>1, <1>4, <1>5, <1>6

\* A document is written by id, or deleted.
LEMMA WriteDocInv ==
  ASSUME InvoicesInv, NEW t \in Requests, NEW i \in Docs, Exists(i), NEW d \in Doc \cup {None},
         doc' = [doc EXCEPT ![i] = d], req' = Spoil(i, [req EXCEPT ![t] = Idle]),
         UNCHANGED <<made, sequence, year, ledger, calls>>,
         late \subseteq late', late' \subseteq Docs, crossed \subseteq crossed', crossed' \subseteq Docs,
         d # None => /\ d.kind = doc[i].kind /\ d.credits = doc[i].credits /\ d.year = doc[i].year /\ d.number = doc[i].number
                     /\ d.status \in {doc[i].status, "VOID"}
                     /\ i \in crossed' \/ d.total = Gross(d.subtotal, d.rate),
         d = None => NotesOf(i) = {} /\ (Is(i, "DRAFT") \/ i \in late')
  PROVE  InvoicesInv'
<1>1. /\ doc'[i] = d /\ (\A j \in Docs : j # i => doc'[j] = doc[j]) /\ doc[i] # None /\ i <= made
      /\ doc' \in [Docs -> Doc \cup {None}]
  BY InvoicesAssumption DEF InvoicesInv, TypeOK, Exists, Numbered, Docs
<1>2. TypeOK'
  BY <1>1, Spoiled DEF InvoicesInv, TypeOK
<1>3. Numbered'
  <2>1. \A j \in Docs : j > made => j # i
    BY <1>1, InvoicesAssumption DEF InvoicesInv, TypeOK, Docs
  <2>. QED BY <1>1, <2>1 DEF InvoicesInv, Numbered, Is, Exists
<1>4. (\A u \in Requests : Shaped(req[u]) /\ SnapshotHolds(req[u]))'
  <2>. SUFFICES ASSUME NEW u \in Requests PROVE (Shaped(req[u]) /\ SnapshotHolds(req[u]))'
    OBVIOUS
  <2>1. Shaped(req[u]) /\ SnapshotHolds(req[u])
    BY DEF InvoicesInv
  <2>2. ASSUME NEW j \in Docs, Exists(j) => IsInvoice(j) /\ ~Is(j, "DRAFT")
        PROVE  Exists(j)' => IsInvoice(j)' /\ ~Is(j, "DRAFT")'
    BY <1>1, <2>2 DEF Exists, Is, IsInvoice
  <2>3. CASE req'[u] = Idle
    BY <2>3, IdleOk
  <2>4. CASE req'[u] = req[u] /\ ~(req[u].at = "issue" /\ req[u].doc = i)
    BY <1>1, <2>1, <2>2, <2>4 DEF Shaped, SnapshotHolds, Is, Exists
  <2>5. CASE /\ req'[u].at = req[u].at /\ req'[u].doc = req[u].doc /\ req'[u].old = req[u].old
             /\ req'[u].new = req[u].new /\ req'[u].year = req[u].year
             /\ req[u].at = "issue" /\ req'[u].conflict = TRUE
    BY <2>1, <2>5 DEF Shaped, SnapshotHolds
  <2>. QED BY <2>3, <2>4, <2>5, Spoiled
<1>5. NumbersGapless'
  BY DEF InvoicesInv, NumbersGapless, NumbersOf
<1>6. RegisterComplete'
  <2>. SUFFICES ASSUME NEW e \in ledger
                PROVE  \/ /\ Exists(e.doc)' /\ doc'[e.doc].status # "DRAFT"
                          /\ doc'[e.doc].year = e.year /\ doc'[e.doc].number = e.number
                       \/ ~Exists(e.doc)' /\ e.doc \in late'
    BY DEF RegisterComplete
  <2>1. /\ e.doc \in Docs
        /\ \/ Exists(e.doc) /\ doc[e.doc].status # "DRAFT" /\ doc[e.doc].year = e.year /\ doc[e.doc].number = e.number
           \/ ~Exists(e.doc) /\ e.doc \in late
    BY DEF InvoicesInv, TypeOK, RegisterComplete
  <2>. QED BY <1>1, <2>1 DEF Exists, Is
<1>7. NotesReferToIssued'
  <2>. SUFFICES ASSUME NEW n \in Docs, Exists(n)', doc'[n].kind = "CREDIT_NOTE"
                PROVE  (IsInvoice(doc[n].credits) /\ ~Is(doc[n].credits, "DRAFT"))'
    BY DEF NotesReferToIssued
  <2>. PICK o : o = doc[n].credits
    OBVIOUS
  <2>1. Exists(n) /\ doc[n].kind = "CREDIT_NOTE" /\ doc'[n].credits = o
    BY <1>1 DEF Exists
  <2>2. IsInvoice(o) /\ ~Is(o, "DRAFT") /\ o \in Docs
    BY <2>1 DEF InvoicesInv, TypeOK, NotesReferToIssued, Numbered, Doc, Exists
  <2>3. o = i => d # None
    BY <2>1 DEF NotesOf
  <2>. QED BY <1>1, <2>1, <2>2, <2>3 DEF IsInvoice, Is, Exists
<1>8. AmountsAgree'
  BY <1>1 DEF InvoicesInv, AmountsAgree, Exists
<1>. QED BY <1>2, <1>3, <1>4, <1>5, <1>6, <1>7, <1>8 DEF InvoicesInv

LEMMA UpdateInv == ASSUME InvoicesInv, NEW t \in Requests, Update(t) PROVE InvoicesInv'
<1>. PICK i, p : i = req[t].doc /\ p = req[t]
  OBVIOUS
<1>1. /\ UNCHANGED <<made, sequence, year, ledger, calls>> /\ p.at = "update" /\ Shaped(p) /\ i \in Docs
      /\ calls' \in 0..MaxCalls
  BY DEF Update, InvoicesInv, TypeOK, Shaped
<1>2. CASE ~Exists(i)
  BY <1>1, <1>2, FinishInv DEF Update
<1>3. CASE Exists(i)
  <2>. PICK d : d = Updated(p, doc[i])
    OBVIOUS
  <2>1. /\ doc' = [doc EXCEPT ![i] = d] /\ req' = Spoil(i, [req EXCEPT ![t] = Idle])
        /\ late' = IF Is(i, "DRAFT") THEN late ELSE late \cup {i}
        /\ crossed' = IF Amounts(i) = p.old THEN crossed ELSE crossed \cup {i}
    BY <1>1, <1>3 DEF Update, InvoicesInv, TypeOK
  <2>2. /\ late \subseteq late' /\ late' \subseteq Docs /\ crossed \subseteq crossed' /\ crossed' \subseteq Docs
    BY <1>1, <2>1 DEF InvoicesInv, TypeOK
  <2>. PICK sub, rate, total :
         /\ sub = Given(p.new.subtotal, doc[i].subtotal) /\ rate = Given(p.new.rate, doc[i].rate)
         /\ total = Gross(Given(p.new.subtotal, p.old.subtotal), Given(p.new.rate, p.old.rate))
    OBVIOUS
  <2>3. d = [doc[i] EXCEPT !.subtotal = sub, !.rate = rate, !.total = total]
    BY DEF Updated
  <2>4. doc[i] \in Doc /\ p.old \in Seen /\ p.new \in Body
    BY <1>1, <1>3 DEF Shaped, InvoicesInv, TypeOK, Exists
  <2>5. sub \in Subtotals /\ rate \in Rates
    BY <2>4 DEF Given, Body, Doc
  <2>6. Given(p.new.subtotal, p.old.subtotal) \in Nat /\ Given(p.new.rate, p.old.rate) \in Nat
    BY <2>4, InvoicesAssumption DEF Given, Body, Seen
  <2>7. total \in Nat
    BY <2>6, GrossNat
  <2>8. /\ d \in Doc /\ d.kind = doc[i].kind /\ d.credits = doc[i].credits /\ d.year = doc[i].year
        /\ d.number = doc[i].number /\ d.status = doc[i].status /\ d.subtotal = sub /\ d.rate = rate /\ d.total = total
    BY <2>3, <2>4, <2>5, <2>7 DEF Doc
  <2>9. i \in crossed' \/ d.total = Gross(d.subtotal, d.rate)
    <3>1. CASE Amounts(i) = p.old
      <4>1. p.old.subtotal = doc[i].subtotal /\ p.old.rate = doc[i].rate
        BY <3>1 DEF Amounts
      <4>. QED BY <2>8, <4>1
    <3>2. CASE Amounts(i) # p.old
      BY <2>1, <3>2
    <3>. QED BY <3>1, <3>2
  <2>10. d # None
    BY <2>8, NoneAssumption
  <2>. QED BY <1>1, <1>3, <2>1, <2>2, <2>8, <2>9, <2>10, WriteDocInv
<1>. QED BY <1>2, <1>3

LEMMA VoidInv == ASSUME InvoicesInv, NEW t \in Requests, Void(t) PROVE InvoicesInv'
<1>. PICK i : i = req[t].doc
  OBVIOUS
<1>1. /\ UNCHANGED <<made, sequence, year, ledger, late, crossed, calls>> /\ req[t].at = "void" /\ i \in Docs
      /\ calls' \in 0..MaxCalls /\ late \subseteq Docs /\ crossed \subseteq Docs
  BY DEF Void, history, InvoicesInv, TypeOK, Shaped
<1>2. CASE ~Exists(i)
  BY <1>1, <1>2, FinishInv DEF Void
<1>3. CASE Exists(i)
  <2>. PICK d : d = [doc[i] EXCEPT !.status = "VOID"]
    OBVIOUS
  <2>1. doc' = [doc EXCEPT ![i] = d] /\ req' = Spoil(i, [req EXCEPT ![t] = Idle])
    BY <1>3 DEF Void
  <2>2. doc[i] \in Doc
    BY <1>1, <1>3 DEF InvoicesInv, TypeOK, Exists
  <2>3. /\ d \in Doc /\ d.kind = doc[i].kind /\ d.credits = doc[i].credits /\ d.year = doc[i].year
        /\ d.number = doc[i].number /\ d.status = "VOID" /\ d.total = doc[i].total
        /\ d.subtotal = doc[i].subtotal /\ d.rate = doc[i].rate
    BY <2>2 DEF Doc
  <2>4. i \in crossed' \/ d.total = Gross(d.subtotal, d.rate)
    BY <1>1, <1>3, <2>3 DEF InvoicesInv, AmountsAgree
  <2>5. d # None
    BY <2>3, NoneAssumption
  <2>. QED BY <1>1, <1>3, <2>1, <2>3, <2>4, <2>5, WriteDocInv
<1>. QED BY <1>2, <1>3

LEMMA RemoveInv == ASSUME InvoicesInv, NEW t \in Requests, Remove(t) PROVE InvoicesInv'
<1>. PICK i : i = req[t].doc
  OBVIOUS
<1>1. /\ UNCHANGED <<made, sequence, year, ledger, crossed, calls>> /\ req[t].at = "remove" /\ i \in Docs
      /\ calls' \in 0..MaxCalls /\ late \subseteq Docs /\ crossed \subseteq Docs
  BY DEF Remove, InvoicesInv, TypeOK, Shaped
<1>2. CASE ~(Exists(i) /\ NotesOf(i) = {})
  BY <1>1, <1>2, FinishInv DEF Remove
<1>3. CASE Exists(i) /\ NotesOf(i) = {}
  <2>1. /\ doc' = [doc EXCEPT ![i] = None] /\ req' = Spoil(i, [req EXCEPT ![t] = Idle])
        /\ late' = IF Is(i, "DRAFT") THEN late ELSE late \cup {i}
    BY <1>3 DEF Remove
  <2>2. late \subseteq late' /\ late' \subseteq Docs /\ (Is(i, "DRAFT") \/ i \in late')
    BY <1>1, <2>1
  <2>. QED BY <1>1, <1>3, <2>1, <2>2, WriteDocInv
<1>. QED BY <1>2, <1>3

LEMMA CommitIssueInv == ASSUME InvoicesInv, NEW t \in Requests, CommitIssue(t) PROVE InvoicesInv'
<1>. PICK i, y, n : i = req[t].doc /\ y = req[t].year /\ n = sequence[req[t].year] + 1
  OBVIOUS
<1>. PICK d, g : /\ d = [doc[i] EXCEPT !.status = "ISSUED", !.year = y, !.number = n]
                 /\ g = [year |-> y, number |-> n, doc |-> i]
  OBVIOUS
<1>1. /\ req[t].at = "issue" /\ ~req[t].conflict
      /\ sequence' = [sequence EXCEPT ![y] = n] /\ doc' = [doc EXCEPT ![i] = d] /\ ledger' = ledger \cup {g}
      /\ req' = [u \in Requests |-> IF u = t THEN Idle
                                    ELSE IF Clash(i, y, req[u]) THEN [req[u] EXCEPT !.conflict = TRUE] ELSE req[u]]
      /\ UNCHANGED <<made, year, late, crossed, calls>>
  BY DEF CommitIssue, InvoicesInv, TypeOK
<1>2. /\ i \in Docs /\ y \in Years /\ Is(i, "DRAFT") /\ doc[i] # None /\ doc[i] \in Doc /\ sequence[y] \in Nat /\ n \in Nat
      /\ doc[i].status = "DRAFT"
  BY <1>1 DEF InvoicesInv, TypeOK, Shaped, SnapshotHolds, Is, Exists
<1>3. /\ d \in Doc /\ d.kind = doc[i].kind /\ d.credits = doc[i].credits /\ d.total = doc[i].total
      /\ d.subtotal = doc[i].subtotal /\ d.rate = doc[i].rate /\ d.status = "ISSUED" /\ d.year = y /\ d.number = n
  BY <1>2 DEF Doc
<1>4. /\ g.year = y /\ g.number = n /\ g.doc = i /\ g \in [year : Years, number : Nat, doc : Docs]
      /\ \A e \in ledger : e.doc # i /\ e.doc \in Docs /\ e.year \in Years
  BY <1>2 DEF InvoicesInv, TypeOK, Numbered
<1>5. doc'[i] = d /\ (\A j \in Docs : j # i => doc'[j] = doc[j]) /\ d # None /\ i <= made
  <2>1. d # None
    BY <1>3, NoneAssumption
  <2>2. i <= made
    BY <1>2, InvoicesAssumption DEF InvoicesInv, TypeOK, Numbered, Docs
  <2>. QED BY <1>1, <1>2, <2>1, <2>2 DEF InvoicesInv, TypeOK
<1>6. \A j \in Docs : /\ doc'[j] # None <=> doc[j] # None
                      /\ doc'[j].kind = doc[j].kind /\ doc'[j].credits = doc[j].credits
                      /\ doc'[j].status = "DRAFT" <=> j # i /\ doc[j].status = "DRAFT"
  <2>. SUFFICES ASSUME NEW j \in Docs
                PROVE  /\ doc'[j] # None <=> doc[j] # None
                       /\ doc'[j].kind = doc[j].kind /\ doc'[j].credits = doc[j].credits
                       /\ doc'[j].status = "DRAFT" <=> j # i /\ doc[j].status = "DRAFT"
    OBVIOUS
  <2>1. CASE j = i
    BY <1>2, <1>3, <1>5, <2>1
  <2>2. CASE j # i
    <3>1. doc'[j] = doc[j]
      BY <1>5, <2>2
    <3>. QED BY <2>2, <3>1
  <2>. QED BY <2>1, <2>2
<1>7. /\ req' \in [Requests -> Pending]
      /\ \A u \in Requests :
           \/ req'[u] = Idle
           \/ req'[u] = req[u] /\ ~(req[u].at = "issue" /\ req[u].doc = i)
           \/ req'[u] = [req[u] EXCEPT !.conflict = TRUE] /\ req[u].at = "issue"
  <2>1. \A u \in Requests : req[u] \in Pending /\ [req[u] EXCEPT !.conflict = TRUE] \in Pending
    BY DEF InvoicesInv, TypeOK, Pending
  <2>2. req' \in [Requests -> Pending]
    BY <1>1, <2>1, IdleSound
  <2>3. \A u \in Requests : Clash(i, y, req[u]) => req[u].at = "issue"
    BY DEF Clash
  <2>4. \A u \in Requests : req[u].at = "issue" /\ req[u].doc = i => Clash(i, y, req[u])
    BY DEF Clash
  <2>. QED BY <1>1, <2>2, <2>3, <2>4
<1>8. TypeOK'
  <2>1. sequence' \in [Years -> Nat] /\ doc' \in [Docs -> Doc \cup {None}]
    BY <1>1, <1>2, <1>3 DEF InvoicesInv, TypeOK
  <2>. QED BY <1>1, <1>4, <1>7, <2>1 DEF InvoicesInv, TypeOK
<1>9. Numbered'
  <2>1. \A j \in Docs : j > made => j # i
    BY <1>5, InvoicesAssumption DEF InvoicesInv, TypeOK, Docs
  <2>2. \A j \in Docs : j > made' => doc'[j] = None /\ \A e \in ledger' : e.doc # j
    BY <1>1, <1>4, <1>5, <2>1 DEF InvoicesInv, Numbered
  <2>3. \A j \in Docs : Is(j, "DRAFT")' => \A e \in ledger' : e.doc # j
    BY <1>1, <1>4, <1>6 DEF InvoicesInv, Numbered, Is, Exists
  <2>4. \A j \in Docs : Exists(j)' /\ doc'[j].kind = "CREDIT_NOTE" => doc'[j].credits # 0
    BY <1>6 DEF InvoicesInv, Numbered, Exists
  <2>. QED BY <2>2, <2>3, <2>4 DEF Numbered
<1>10. (\A u \in Requests : Shaped(req[u]) /\ SnapshotHolds(req[u]))'
  <2>. SUFFICES ASSUME NEW u \in Requests PROVE (Shaped(req[u]) /\ SnapshotHolds(req[u]))'
    OBVIOUS
  <2>1. Shaped(req[u]) /\ SnapshotHolds(req[u]) /\ req[u] \in Pending
    BY DEF InvoicesInv, TypeOK
  <2>2. CASE req'[u] = Idle
    BY <2>2, IdleOk
  <2>3. CASE req'[u] = req[u] /\ ~(req[u].at = "issue" /\ req[u].doc = i)
    BY <1>1, <1>6, <2>1, <2>3 DEF Shaped, SnapshotHolds, Is, IsInvoice, Exists
  <2>4. CASE req'[u] = [req[u] EXCEPT !.conflict = TRUE] /\ req[u].at = "issue"
    <3>1. req'[u].at = "issue" /\ req'[u].doc = req[u].doc /\ req'[u].year = req[u].year /\ req'[u].conflict = TRUE
      BY <2>1, <2>4 DEF Pending
    <3>. QED BY <2>1, <2>4, <3>1 DEF Shaped, SnapshotHolds
  <2>. QED BY <1>7, <2>2, <2>3, <2>4
<1>11. NumbersGapless'
  <2>1. \A e \in ledger : e.year = y => e.number # n
    <3>. SUFFICES ASSUME NEW e \in ledger, e.year = y PROVE e.number # n
      OBVIOUS
    <3>1. e.number \in NumbersOf(y) /\ NumbersOf(y) = 1..sequence[y]
      BY <1>2 DEF NumbersOf, InvoicesInv, NumbersGapless
    <3>. QED BY <1>2, <3>1
  <2>2. \A e, f \in ledger' : (e.year = f.year /\ e.number = f.number) \/ e.doc = f.doc => e = f
    BY <1>1, <1>4, <2>1 DEF InvoicesInv, NumbersGapless
  <2>3. ASSUME NEW z \in Years PROVE NumbersOf(z)' = 1..sequence'[z]
    <3>1. NumbersOf(z) = 1..sequence[z] /\ sequence[z] \in Nat
      BY DEF InvoicesInv, NumbersGapless, TypeOK
    <3>2. CASE z = y
      <4>1. NumbersOf(z)' = NumbersOf(z) \cup {n}
        BY <1>1, <1>4, <3>2 DEF NumbersOf
      <4>2. sequence'[z] = n
        BY <1>1, <1>2, <3>2 DEF InvoicesInv, TypeOK
      <4>3. 1..n = 1..sequence[z] \cup {n}
        BY <1>2, <3>2
      <4>. QED BY <3>1, <4>1, <4>2, <4>3
    <3>3. CASE z # y
      <4>1. NumbersOf(z)' = NumbersOf(z)
        BY <1>1, <1>4, <3>3 DEF NumbersOf
      <4>2. sequence'[z] = sequence[z]
        BY <1>1, <3>3 DEF InvoicesInv, TypeOK
      <4>. QED BY <3>1, <4>1, <4>2
    <3>. QED BY <3>2, <3>3
  <2>. QED BY <2>2, <2>3 DEF NumbersGapless
<1>12. RegisterComplete'
  <2>. SUFFICES ASSUME NEW e \in ledger'
                PROVE  \/ /\ Exists(e.doc)' /\ doc'[e.doc].status # "DRAFT"
                          /\ doc'[e.doc].year = e.year /\ doc'[e.doc].number = e.number
                       \/ ~Exists(e.doc)' /\ e.doc \in late'
    BY DEF RegisterComplete
  <2>1. CASE e = g
    BY <1>3, <1>4, <1>5, <2>1 DEF Exists
  <2>2. CASE e \in ledger
    <3>1. e.doc # i /\ e.doc \in Docs
      BY <1>4, <2>2
    <3>. QED BY <1>1, <1>5, <2>2, <3>1 DEF InvoicesInv, RegisterComplete, Exists
  <2>. QED BY <1>1, <2>1, <2>2
<1>13. NotesReferToIssued'
  <2>. SUFFICES ASSUME NEW m \in Docs, Exists(m)', doc'[m].kind = "CREDIT_NOTE"
                PROVE  (IsInvoice(doc[m].credits) /\ ~Is(doc[m].credits, "DRAFT"))'
    BY DEF NotesReferToIssued
  <2>. PICK o : o = doc[m].credits
    OBVIOUS
  <2>1. Exists(m) /\ doc[m].kind = "CREDIT_NOTE" /\ doc'[m].credits = o
    BY <1>6 DEF Exists
  <2>2. IsInvoice(o) /\ ~Is(o, "DRAFT") /\ o \in Docs
    BY <2>1 DEF InvoicesInv, TypeOK, NotesReferToIssued, Numbered, Doc, Exists
  <2>. QED BY <1>6, <2>1, <2>2 DEF IsInvoice, Is, Exists
<1>14. AmountsAgree'
  BY <1>1, <1>2, <1>3, <1>5 DEF InvoicesInv, AmountsAgree, Exists
<1>. QED BY <1>8, <1>9, <1>10, <1>11, <1>12, <1>13, <1>14 DEF InvoicesInv

LEMMA NextInv == ASSUME InvoicesInv, [Next]_vars PROVE InvoicesInv'
BY OtherInv, AskInv, CreateInvoiceInv, CreateNoteInv, UpdateInv, VoidInv, RemoveInv, BeginIssueInv, CommitIssueInv,
   AbortIssueInv DEF Next

\* create, update, void, remove and issue keep the inductive invariant, for any
\* number of requests, documents and years.
THEOREM InvoicesInvariant == Spec => []InvoicesInv
<1>1. Init => InvoicesInv
  BY InitInv
<1>2. InvoicesInv /\ [Next]_vars => InvoicesInv'
  BY NextInv
<1>. QED BY <1>1, <1>2, PTL DEF Spec

\* issue numbers without gap or repetition, however many transactions overlap.
THEOREM NumbersAreGapless == Spec => []NumbersGapless
<1>1. InvoicesInv => NumbersGapless
  BY DEF InvoicesInv
<1>. QED BY <1>1, InvoicesInvariant, PTL

\* What issue has numbered stays on file under its number, but for late deletions.
THEOREM RegisterIsComplete == Spec => []RegisterComplete
<1>1. InvoicesInv => RegisterComplete
  BY DEF InvoicesInv
<1>. QED BY <1>1, InvoicesInvariant, PTL

\* create and remove keep every credit note at an invoice that was issued.
THEOREM NotesReferWell == Spec => []NotesReferToIssued
<1>1. InvoicesInv => NotesReferToIssued
  BY DEF InvoicesInv
<1>. QED BY <1>1, InvoicesInvariant, PTL

\* update keeps the total that of the subtotal and the rate, but for crossed edits.
THEOREM TotalsAgree == Spec => []AmountsAgree
<1>1. InvoicesInv => AmountsAgree
  BY DEF InvoicesInv
<1>. QED BY <1>1, InvoicesInvariant, PTL

\* What one step may do to an issued or void document.
LEMMA KeptStep ==
  ASSUME InvoicesInv, Next
  PROVE  \A i \in Docs : Exists(i) /\ ~Is(i, "DRAFT") /\ i \notin late' =>
           doc'[i] \in {doc[i], [doc[i] EXCEPT !.status = "VOID"]}
<1>. SUFFICES ASSUME NEW i \in Docs, doc[i] # None, doc[i].status # "DRAFT", i \notin late'
              PROVE  doc'[i] \in {doc[i], [doc[i] EXCEPT !.status = "VOID"]}
  BY DEF Is, Exists
<1>0. doc \in [Docs -> Doc \cup {None}] /\ made \in Nat
  BY InvoicesAssumption DEF InvoicesInv, TypeOK
<1>1. CASE doc' = doc
  BY <1>1
<1>2. ASSUME NEW t \in Requests, CreateInvoice(t) \/ CreateNote(t) PROVE doc'[i] = doc[i]
  <2>1. CASE UNCHANGED doc
    BY <2>1
  <2>2. ASSUME NEW d, Insert(d) PROVE doc'[i] = doc[i]
    <3>1. i # made + 1
      BY <1>0 DEF InvoicesInv, Numbered
    <3>. QED BY <1>0, <2>2, <3>1 DEF Insert
  <2>. QED BY <1>2, <2>1, <2>2 DEF CreateInvoice, CreateNote
<1>3. ASSUME NEW t \in Requests, Update(t) \/ Remove(t) PROVE doc'[i] = doc[i]
  BY <1>0, <1>3 DEF Update, Remove, Is, Exists
<1>4. ASSUME NEW t \in Requests, Void(t) PROVE doc'[i] \in {doc[i], [doc[i] EXCEPT !.status = "VOID"]}
  BY <1>0, <1>4 DEF Void
<1>5. ASSUME NEW t \in Requests, CommitIssue(t) PROVE doc'[i] = doc[i]
  <2>1. req[t].doc # i
    BY <1>5 DEF CommitIssue, InvoicesInv, SnapshotHolds, Is
  <2>. QED BY <1>0, <1>5, <2>1 DEF CommitIssue
<1>6. ASSUME NEW t \in Requests,
             \/ AskNote(t) \/ AskUpdate(t) \/ AskVoid(t) \/ AskRemove(t) \/ AskIssue(t) \/ BeginIssue(t) \/ AbortIssue(t)
      PROVE  doc' = doc
  BY <1>6 DEF AskNote, AskUpdate, AskVoid, AskRemove, AskIssue, BeginIssue, AbortIssue, register
<1>7. NewYear => doc' = doc
  BY DEF NewYear, register
<1>. QED BY <1>1, <1>2, <1>3, <1>4, <1>5, <1>6, <1>7 DEF Next

\* Nothing but void, and the edits and deletions that were under way, changes a
\* document once issue has numbered it.
THEOREM IssuedStaysIssued == Spec => IssuedIsFinal
<1>1. InvoicesInv /\ [Next]_vars =>
        [\A i \in Docs : Exists(i) /\ ~Is(i, "DRAFT") /\ i \notin late' =>
           doc'[i] \in {doc[i], [doc[i] EXCEPT !.status = "VOID"]}]_vars
  BY KeptStep
<1>. QED BY <1>1, InvoicesInvariant, PTL DEF Spec, IssuedIsFinal

-----------------------------------------------------------------------------
(***************************************************************************)
(* The sum of the totals of some documents is the number of their cents:   *)
(* what the recursive definition of the sum computes is found by induction *)
(* over the set, as the absence of a smallest counterexample.              *)
(***************************************************************************)

TotalOf(d, S) == MapThenSumSet(LAMBDA n : d[n].total, S)
Cents(d, S) == {c \in S \X Nat : c[2] \in 1..d[c[1]].total}
Pick(s) == CHOOSE x \in s : TRUE

LEMMA MinimalSet ==
  ASSUME NEW S, IsFiniteSet(S), NEW C, C \subseteq SUBSET S, C # {}
  PROVE  \E T \in C : \A U \in C : ~(U \subseteq T /\ U # T)
<1>1. IsWellFoundedOn(StrictSubsetOrdering(S), FiniteSubsetsOf(S))
  BY FS_StrictSubsetOrderingWellFounded
<1>2. C \subseteq FiniteSubsetsOf(S)
  BY FS_Subset DEF FiniteSubsetsOf
<1>3. \E T \in C : \A U \in C : ~(<<U, T>> \in StrictSubsetOrdering(S))
  BY <1>1, <1>2, WFMin
<1>4. PICK T \in C : \A U \in C : ~(<<U, T>> \in StrictSubsetOrdering(S))
  BY <1>3
<1>5. \A U \in C : ~(U \subseteq T /\ U # T)
  BY <1>4 DEF StrictSubsetOrdering
<1>. QED BY <1>5

LEMMA CentsOfOneMore ==
  ASSUME NEW d, NEW S, NEW x, x \notin S, d[x].total \in Nat, IsFiniteSet(Cents(d, S))
  PROVE  /\ IsFiniteSet(Cents(d, S \cup {x}))
         /\ Cardinality(Cents(d, S \cup {x})) = Cardinality(Cents(d, S)) + d[x].total
<1>. PICK k \in Nat : k = d[x].total
  OBVIOUS
<1>. PICK A : A = {x} \X (1..k)
  OBVIOUS
<1>1. IsFiniteSet({x}) /\ Cardinality({x}) = 1
  BY FS_Singleton
<1>2. IsFiniteSet(1..k) /\ Cardinality(1..k) = k
  <2>1. 1 \in Int /\ k \in Int /\ (IF 1 > k THEN 0 ELSE k - 1 + 1) = k
    OBVIOUS
  <2>2. IsFiniteSet(1..k) /\ Cardinality(1..k) = IF 1 > k THEN 0 ELSE k - 1 + 1
    BY <2>1, FS_Interval
  <2>. QED BY <2>1, <2>2
<1>3. IsFiniteSet(A) /\ Cardinality(A) = k
  <2>1. IsFiniteSet({x} \X (1..k)) /\ Cardinality({x} \X (1..k)) = Cardinality({x}) * Cardinality(1..k)
    BY <1>1, <1>2, FS_Product
  <2>2. Cardinality({x}) * Cardinality(1..k) = k
    BY <1>1, <1>2
  <2>. QED BY <2>1, <2>2
<1>4. Cents(d, S \cup {x}) = Cents(d, S) \cup A
  BY DEF Cents
<1>5. Cents(d, S) \cap A = {}
  BY DEF Cents
<1>6. Cardinality({}) = 0
  BY FS_EmptySet
<1>7. Cardinality(Cents(d, S)) \in Nat
  BY FS_CardinalityType
<1>. PICK B : B = Cents(d, S)
  OBVIOUS
<1>8. /\ IsFiniteSet(B \cup A)
      /\ Cardinality(B \cup A) = Cardinality(B) + Cardinality(A) - Cardinality(B \cap A)
  <2>1. IsFiniteSet(B)
    OBVIOUS
  <2>. QED BY <1>3, <2>1, FS_Union
<1>9. B \cap A = {} /\ Cents(d, S \cup {x}) = B \cup A
  BY <1>4, <1>5
<1>10. Cardinality(B \cup A) = Cardinality(B) + k
  <2>1. Cardinality(B \cap A) = 0
    BY <1>6, <1>9
  <2>2. Cardinality(B) \in Nat
    BY <1>7
  <2>3. Cardinality(B \cup A) = Cardinality(B) + k - 0
    BY <1>3, <1>8, <2>1
  <2>. QED BY <2>2, <2>3
<1>. QED BY <1>8, <1>9, <1>10

LEMMA CentsFinite ==
  ASSUME NEW d, NEW S, IsFiniteSet(S), \A n \in S : d[n].total \in Nat
  PROVE  IsFiniteSet(Cents(d, S)) /\ Cardinality(Cents(d, S)) \in Nat
<1>1. IsFiniteSet(Cents(d, S))
  <2>. DEFINE C == {T \in SUBSET S : ~IsFiniteSet(Cents(d, T))}
  <2>. SUFFICES ASSUME C # {} PROVE FALSE
    BY DEF C
  <2>0. C \subseteq SUBSET S /\ \A T \in C : ~IsFiniteSet(Cents(d, T))
    OBVIOUS
  <2>1. PICK T \in C : \A U \in C : ~(U \subseteq T /\ U # T)
    <3>. HIDE DEF C
    <3>. QED BY <2>0, MinimalSet
  <2>2. CASE T = {}
    <3>1. Cents(d, {}) = {}
      BY DEF Cents
    <3>. QED BY <2>2, <3>1, FS_EmptySet
  <2>3. ASSUME NEW x \in T PROVE FALSE
    <3>. PICK U : U = T \ {x}
      OBVIOUS
    <3>1. IsFiniteSet(Cents(d, U)) /\ x \notin U /\ U \cup {x} = T
      BY <2>1
    <3>. QED BY <3>1, CentsOfOneMore
  <2>. QED BY <2>2, <2>3
<1>. QED BY <1>1, FS_CardinalityType

LEMMA TotalCounts ==
  ASSUME NEW d, NEW S, IsFiniteSet(S), \A n \in S : d[n].total \in Nat
  PROVE  TotalOf(d, S) = Cardinality(Cents(d, S))
<1>. DEFINE Adds(g) == g = [s \in SUBSET S |-> IF s = {} THEN 0 ELSE d[Pick(s)].total + g[s \ {Pick(s)}]]
            it == CHOOSE g : Adds(g)
            count == [s \in SUBSET S |-> Cardinality(Cents(d, s))]
<1>1. TotalOf(d, S) = it[S]
  BY DEF TotalOf, MapThenSumSet, MapThenFoldSet, Pick
<1>2. \A s \in SUBSET S : s # {} => Pick(s) \in s
  BY DEF Pick
<1>3. Adds(count)
  <2>1. Cardinality(Cents(d, {})) = 0
    BY FS_EmptySet DEF Cents
  <2>2. ASSUME NEW s \in SUBSET S, s # {} PROVE count[s] = d[Pick(s)].total + count[s \ {Pick(s)}]
    <3>. PICK x, u : x = Pick(s) /\ u = s \ {x}
      OBVIOUS
    <3>1. x \in s /\ x \notin u /\ u \cup {x} = s /\ u \in SUBSET S /\ d[x].total \in Nat
      BY <1>2, <2>2
    <3>2. IsFiniteSet(u)
      BY <3>1, FS_Subset
    <3>3. IsFiniteSet(Cents(d, u)) /\ Cardinality(Cents(d, u)) \in Nat
      BY <3>1, <3>2, CentsFinite
    <3>4. Cardinality(Cents(d, u \cup {x})) = Cardinality(Cents(d, u)) + d[x].total
      BY <3>1, <3>3, CentsOfOneMore
    <3>. QED BY <3>1, <3>3, <3>4
  <2>. QED BY <2>1, <2>2
<1>4. Adds(it)
  BY <1>3
<1>5. it[S] = count[S]
  <2>. DEFINE C == {s \in SUBSET S : it[s] # count[s]}
  <2>. SUFFICES ASSUME C # {} PROVE FALSE
    BY DEF C
  <2>0. C \subseteq SUBSET S
    OBVIOUS
  <2>1. PICK s \in C : \A u \in C : ~(u \subseteq s /\ u # s)
    <3>. HIDE DEF C
    <3>. QED BY <2>0, MinimalSet
  <2>. HIDE DEF it, count
  <2>2. CASE s = {}
    BY <1>3, <1>4, <2>1, <2>2
  <2>3. CASE s # {}
    <3>. PICK u : u = s \ {Pick(s)}
      OBVIOUS
    <3>1. u \subseteq s /\ u # s /\ u \in SUBSET S
      BY <1>2, <2>1, <2>3
    <3>2. it[u] = count[u]
      BY <2>1, <3>1
    <3>. QED BY <1>3, <1>4, <2>1, <2>3, <3>1, <3>2
  <2>. QED BY <2>2, <2>3
<1>. QED BY <1>1, <1>5

\* What a sum is for any documents: a number, zero for none of them, more by the
\* total of one more, and no less for more of them.
LEMMA TotalNat ==
  ASSUME NEW d, NEW S, IsFiniteSet(S), \A n \in S : d[n].total \in Nat
  PROVE  TotalOf(d, S) \in Nat
BY CentsFinite, TotalCounts

LEMMA TotalOfNone == ASSUME NEW d PROVE TotalOf(d, {}) = 0
<1>1. Cents(d, {}) = {}
  BY DEF Cents
<1>2. IsFiniteSet({}) /\ Cardinality({}) = 0
  BY FS_EmptySet
<1>3. TotalOf(d, {}) = Cardinality(Cents(d, {}))
  BY <1>2, TotalCounts
<1>. QED BY <1>1, <1>2, <1>3

LEMMA TotalOfOneMore ==
  ASSUME NEW d, NEW S, IsFiniteSet(S), \A n \in S : d[n].total \in Nat, NEW x, x \notin S, d[x].total \in Nat
  PROVE  TotalOf(d, S \cup {x}) = TotalOf(d, S) + d[x].total
<1>1. IsFiniteSet(S \cup {x}) /\ \A n \in S \cup {x} : d[n].total \in Nat
  BY FS_AddElement
<1>2. TotalOf(d, S) = Cardinality(Cents(d, S)) /\ IsFiniteSet(Cents(d, S))
  BY CentsFinite, TotalCounts
<1>3. TotalOf(d, S \cup {x}) = Cardinality(Cents(d, S \cup {x}))
  BY <1>1, TotalCounts
<1>4. Cardinality(Cents(d, S \cup {x})) = Cardinality(Cents(d, S)) + d[x].total
  BY <1>2, CentsOfOneMore
<1>. QED BY <1>2, <1>3, <1>4

LEMMA TotalOfFewer ==
  ASSUME NEW d, NEW S, IsFiniteSet(S), \A n \in S : d[n].total \in Nat,
         NEW e, NEW T, T \subseteq S, \A n \in T : e[n].total = d[n].total
  PROVE  TotalOf(e, T) <= TotalOf(d, S)
<1>1. IsFiniteSet(T) /\ \A n \in T : e[n].total \in Nat
  BY FS_Subset
<1>2. TotalOf(e, T) = Cardinality(Cents(e, T))
  BY <1>1, TotalCounts
<1>3. TotalOf(d, S) = Cardinality(Cents(d, S)) /\ IsFiniteSet(Cents(d, S))
  BY CentsFinite, TotalCounts
<1>4. Cents(e, T) \in SUBSET Cents(d, S)
  BY DEF Cents
<1>5. Cardinality(Cents(e, T)) <= Cardinality(Cents(d, S))
  BY <1>3, <1>4, FS_Subset
<1>. QED BY <1>2, <1>3, <1>5

-----------------------------------------------------------------------------
(***************************************************************************)
(* The notes of an invoice stay within it.                                 *)
(***************************************************************************)

LEMMA SumsAreTotals ==
  ASSUME NEW i
  PROVE  /\ Credited(i) = TotalOf(doc, IssuedNotesOf(i)) /\ Kept(i) = TotalOf(doc, KeptNotesOf(i))
         /\ Kept(i)' = TotalOf(doc', KeptNotesOf(i)')
<1>1. Credited(i) = TotalOf(doc, IssuedNotesOf(i))
  BY DEF Credited, TotalOf
<1>2. Kept(i) = TotalOf(doc, KeptNotesOf(i))
  BY DEF Kept, TotalOf
<1>3. (Kept(i) = TotalOf(doc, KeptNotesOf(i)))'
  BY <1>2, PTL
<1>. QED BY <1>1, <1>2, <1>3

LEMMA SomeDocsFinite == ASSUME NEW S, S \subseteq Docs PROVE IsFiniteSet(S)
<1>1. 1 \in Int /\ MaxDocs \in Int
  BY InvoicesAssumption
<1>2. IsFiniteSet(Docs)
  BY <1>1, FS_Interval DEF Docs
<1>. QED BY <1>2, FS_Subset

LEMMA NotesHaveTotals ==
  ASSUME InvoicesInv, NEW i
  PROVE  /\ IsFiniteSet(IssuedNotesOf(i)) /\ \A n \in IssuedNotesOf(i) : doc[n].total \in Nat
         /\ IsFiniteSet(KeptNotesOf(i)) /\ \A n \in KeptNotesOf(i) : doc[n].total \in Nat
<1>1. IssuedNotesOf(i) \subseteq Docs /\ KeptNotesOf(i) \subseteq IssuedNotesOf(i) /\ KeptNotesOf(i) \subseteq Docs
  BY DEF KeptNotesOf, IssuedNotesOf, NotesOf
<1>2. \A n \in IssuedNotesOf(i) : doc[n].total \in Nat
  BY DEF IssuedNotesOf, NotesOf, Exists, InvoicesInv, TypeOK, Doc
<1>. QED BY <1>1, <1>2, SomeDocsFinite

\* What is kept never grows but by a note that is issued.
LEMMA KeptShrinks ==
  ASSUME InvoicesInv, NEW i, \A n \in KeptNotesOf(i)' : n \in KeptNotesOf(i) /\ doc'[n].total = doc[n].total
  PROVE  Kept(i)' <= Kept(i) /\ Kept(i)' \in Nat /\ Kept(i) \in Nat
<1>. PICK d, e, S, T : d = doc /\ e = doc' /\ S = KeptNotesOf(i) /\ T = KeptNotesOf(i)'
  OBVIOUS
<1>1. IsFiniteSet(S) /\ (\A n \in S : d[n].total \in Nat) /\ T \subseteq S /\ \A n \in T : e[n].total = d[n].total
  BY NotesHaveTotals
<1>2. IsFiniteSet(T) /\ \A n \in T : e[n].total \in Nat
  BY <1>1, FS_Subset
<1>3. TotalOf(e, T) <= TotalOf(d, S) /\ TotalOf(e, T) \in Nat /\ TotalOf(d, S) \in Nat
  BY <1>1, <1>2, TotalOfFewer, TotalNat
<1>. QED BY <1>3, SumsAreTotals

LEMMA KeptWithinCredited ==
  ASSUME InvoicesInv, NEW i
  PROVE  /\ Kept(i) \in Nat /\ Credited(i) \in Nat /\ Kept(i) <= Credited(i)
         /\ IssuedNotesOf(i) \cap late = {} => Kept(i) = Credited(i)
<1>. PICK d, S, T : d = doc /\ S = IssuedNotesOf(i) /\ T = KeptNotesOf(i)
  OBVIOUS
<1>1. IsFiniteSet(S) /\ (\A n \in S : d[n].total \in Nat) /\ IsFiniteSet(T) /\ (\A n \in T : d[n].total \in Nat)
  BY NotesHaveTotals
<1>2. T \subseteq S /\ (S \cap late = {} => T = S)
  BY DEF KeptNotesOf
<1>3. TotalOf(d, T) <= TotalOf(d, S) /\ TotalOf(d, T) \in Nat /\ TotalOf(d, S) \in Nat
  BY <1>1, <1>2, TotalOfFewer, TotalNat
<1>. QED BY <1>2, <1>3, SumsAreTotals

\* Only an invoice that was issued has notes.
LEMMA NoNotes ==
  ASSUME InvoicesInv, CreditsInv, NEW i \in Docs, ~(IsInvoice(i) /\ ~Is(i, "DRAFT"))
  PROVE  KeptNotesOf(i) = {}
<1>. SUFFICES ASSUME NEW n \in Docs, Exists(n), doc[n].credits = i PROVE FALSE
  BY DEF KeptNotesOf, IssuedNotesOf, NotesOf
<1>1. i # 0 /\ doc[n] \in Doc
  BY DEF Docs, Exists, InvoicesInv, TypeOK
<1>2. doc[n].kind # "INVOICE"
  BY <1>1 DEF CreditsInv, IsInvoice
<1>3. doc[n].kind = "CREDIT_NOTE"
  BY <1>1, <1>2 DEF Doc, Kinds
<1>. QED BY <1>3 DEF InvoicesInv, NotesReferToIssued

LEMMA NothingKept == ASSUME NEW i, KeptNotesOf(i) = {} PROVE Kept(i) = 0
BY TotalOfNone, SumsAreTotals
\* What any step but the commit of an issue does to document i: it keeps it,
\* creates it, writes it or deletes it.
StepOf(i) ==
  \/ doc'[i] = doc[i]
  \/ ~Exists(i) /\ Is(i, "DRAFT")' /\ (doc'[i].kind = "INVOICE" => doc'[i].credits = 0)
  \/ /\ Exists(i) /\ Exists(i)' /\ doc'[i].kind = doc[i].kind /\ doc'[i].credits = doc[i].credits
     /\ doc'[i].status \in {doc[i].status, "VOID"}
     /\ doc'[i].total = doc[i].total \/ Is(i, "DRAFT") \/ i \in late'
  \/ ~Exists(i)'

LEMMA NotesKept ==
  ASSUME InvoicesInv, CreditsInv, late \subseteq late', \A n \in Docs : StepOf(n), NEW i \in Docs
  PROVE  /\ Kept(i)' <= Kept(i) /\ Kept(i)' \in Nat /\ Kept(i) \in Nat
         /\ ~(IsInvoice(i) /\ ~Is(i, "DRAFT")) => Kept(i)' = 0
<1>1. \A n \in KeptNotesOf(i)' : n \in KeptNotesOf(i) /\ doc'[n].total = doc[n].total
  <2>. SUFFICES ASSUME NEW n \in KeptNotesOf(i)' PROVE n \in KeptNotesOf(i) /\ doc'[n].total = doc[n].total
    OBVIOUS
  <2>1. n \in Docs /\ doc'[n] # None /\ doc'[n].credits = i /\ doc'[n].status = "ISSUED" /\ n \notin late' /\ n \notin late
    BY DEF KeptNotesOf, IssuedNotesOf, NotesOf, Is, Exists
  <2>2. doc[n] # None /\ doc[n].credits = i /\ doc[n].status = "ISSUED" /\ doc'[n].total = doc[n].total
    BY <2>1 DEF StepOf, Is, Exists
  <2>. QED BY <2>1, <2>2 DEF KeptNotesOf, IssuedNotesOf, NotesOf, Is, Exists
<1>2. Kept(i)' <= Kept(i) /\ Kept(i)' \in Nat /\ Kept(i) \in Nat
  BY <1>1, KeptShrinks
<1>3. ~(IsInvoice(i) /\ ~Is(i, "DRAFT")) => Kept(i) = 0
  BY NoNotes, NothingKept
<1>. QED BY <1>2, <1>3

LEMMA CreditsKept ==
  ASSUME InvoicesInv, InvoicesInv', CreditsInv, late \subseteq late', \A i \in Docs : StepOf(i),
         \A u \in Requests : \/ RoomHolds(req[u])'
                             \/ req'[u] = req[u] /\ doc'[req[u].doc] = doc[req[u].doc]
                             \/ req'[u].at = "issue" /\ req'[u].conflict
  PROVE  CreditsInv'
<1>1. ASSUME NEW i \in Docs, IsInvoice(i)' PROVE doc'[i].credits = 0
  BY <1>1 DEF StepOf, CreditsInv, IsInvoice, Exists
<1>2. ASSUME NEW i \in Docs, IsInvoice(i)', i \notin late' PROVE Kept(i)' <= doc'[i].total
  <2>1. Kept(i)' <= Kept(i) /\ Kept(i)' \in Nat /\ Kept(i) \in Nat /\ doc'[i].total \in Nat
    BY <1>2, NotesKept DEF InvoicesInv, TypeOK, Doc, IsInvoice, Exists
  <2>2. CASE ~(IsInvoice(i) /\ ~Is(i, "DRAFT"))
    BY <2>1, <2>2, NotesKept
  <2>3. CASE IsInvoice(i) /\ ~Is(i, "DRAFT")
    <3>1. doc'[i].total = doc[i].total
      BY <1>2, <2>3 DEF StepOf, IsInvoice, Exists
    <3>2. Kept(i) <= doc[i].total /\ doc[i].total \in Nat
      BY <1>2, <2>3 DEF CreditsInv, InvoicesInv, TypeOK, Doc, IsInvoice, Exists
    <3>. QED BY <2>1, <3>1, <3>2
  <2>. QED BY <2>2, <2>3
<1>3. ASSUME NEW u \in Requests, req'[u] = req[u], doc'[req[u].doc] = doc[req[u].doc] PROVE RoomHolds(req[u])'
  <2>. PICK p, n, o : p = req[u] /\ n = p.doc /\ o = doc[n].credits
    OBVIOUS
  <2>. SUFFICES ASSUME p.at = "issue", ~p.conflict, doc'[n].kind = "CREDIT_NOTE", o \notin late'
                PROVE  Kept(o)' + doc'[n].total <= doc'[o].total
    BY <1>3 DEF RoomHolds
  <2>1. n \in Docs /\ doc[n] # None /\ doc[n] \in Doc /\ doc[n].kind = "CREDIT_NOTE" /\ doc'[n] = doc[n] /\ doc[n].total \in Nat
    BY <1>3 DEF InvoicesInv, TypeOK, SnapshotHolds, Shaped, Is, Exists, Doc
  <2>2. o \in Docs /\ IsInvoice(o) /\ ~Is(o, "DRAFT") /\ IsInvoice(o)'
    BY <2>1 DEF InvoicesInv, NotesReferToIssued, Numbered, Doc, Exists
  <2>3. Kept(o) + doc[n].total <= doc[o].total
    BY <2>1 DEF CreditsInv, RoomHolds
  <2>4. Kept(o)' <= Kept(o) /\ Kept(o)' \in Nat /\ Kept(o) \in Nat
    BY <2>2, NotesKept
  <2>5. doc'[o].total = doc[o].total /\ doc[o].total \in Nat
    BY <2>2 DEF StepOf, IsInvoice, Exists, InvoicesInv, TypeOK, Doc
  <2>. QED BY <2>1, <2>3, <2>4, <2>5
<1>4. ASSUME NEW u \in Requests, req'[u].at = "issue", req'[u].conflict PROVE RoomHolds(req[u])'
  BY <1>4 DEF RoomHolds
<1>. QED BY <1>1, <1>2, <1>3, <1>4 DEF CreditsInv

LEMMA IdleHasRoom == RoomHolds(Idle) /\ RoomHolds(Idle)'
BY DEF Idle, RoomHolds

\* The steps that leave the documents alone.
LEMMA CreditsSame ==
  ASSUME InvoicesInv, InvoicesInv', CreditsInv, UNCHANGED <<doc, late>>,
         \A u \in Requests : RoomHolds(req[u])' \/ req'[u] = req[u]
  PROVE  CreditsInv'
<1>1. \A i \in Docs : StepOf(i)
  BY DEF StepOf
<1>. QED BY <1>1, CreditsKept

LEMMA CreditsOther ==
  ASSUME InvoicesInv, InvoicesInv', CreditsInv, NEW t \in Requests, UNCHANGED <<doc, late>>, NEW p, Go(t, p), p.at # "issue"
  PROVE  CreditsInv'
<1>1. req' = [req EXCEPT ![t] = p] /\ req \in [Requests -> Pending]
  BY DEF Go, InvoicesInv, TypeOK
<1>2. RoomHolds(req[t])'
  BY <1>1 DEF RoomHolds
<1>. QED BY <1>1, <1>2, CreditsSame

LEMMA CreditsAsk ==
  ASSUME InvoicesInv, InvoicesInv', CreditsInv, NEW t \in Requests,
         AskNote(t) \/ AskUpdate(t) \/ AskVoid(t) \/ AskRemove(t) \/ AskIssue(t) \/ AbortIssue(t)
  PROVE  CreditsInv'
<1>1. UNCHANGED <<doc, late>>
  BY DEF AskNote, AskUpdate, AskVoid, AskRemove, AskIssue, AbortIssue, register
<1>2. ASSUME NEW p, Go(t, p), p.at # "issue" PROVE CreditsInv'
  BY <1>1, <1>2, CreditsOther
<1>3. CASE AskNote(t) \/ AskVoid(t) \/ AskRemove(t)
  <2>. PICK i \in Docs, at \in {"note", "void", "remove"} : Go(t, [Idle EXCEPT !.at = at, !.doc = i])
    BY <1>3 DEF AskNote, AskVoid, AskRemove
  <2>1. [Idle EXCEPT !.at = at, !.doc = i].at = at
    BY DEF Idle
  <2>. QED BY <1>2, <2>1
<1>4. CASE AskUpdate(t)
  <2>. PICK i, new : Go(t, [Idle EXCEPT !.at = "update", !.doc = i, !.old = Amounts(i), !.new = new])
    BY <1>4 DEF AskUpdate
  <2>1. [Idle EXCEPT !.at = "update", !.doc = i, !.old = Amounts(i), !.new = new].at = "update"
    BY DEF Idle
  <2>. QED BY <1>2, <2>1
<1>5. CASE AskIssue(t)
  <2>. PICK i : Go(t, [Idle EXCEPT !.at = "begin", !.doc = i, !.year = year])
    BY <1>5 DEF AskIssue
  <2>1. [Idle EXCEPT !.at = "begin", !.doc = i, !.year = year].at = "begin"
    BY DEF Idle
  <2>. QED BY <1>2, <2>1
<1>6. CASE AbortIssue(t)
  BY <1>2, <1>6, IdleSound DEF AbortIssue, Finish
<1>. QED BY <1>3, <1>4, <1>5, <1>6

\* The transaction begins by adding up the notes it sees.
LEMMA CreditsBegin ==
  ASSUME InvoicesInv, InvoicesInv', CreditsInv, NEW t \in Requests, BeginIssue(t) PROVE CreditsInv'
<1>1. UNCHANGED <<doc, late>>
  BY DEF BeginIssue, register
<1>2. CASE Finish(t)
  BY <1>1, <1>2, CreditsOther, IdleSound DEF Finish
<1>3. CASE Issuable(req[t].doc) /\ Go(t, [req[t] EXCEPT !.at = "issue"])
  <2>. PICK p, n, o : p = req'[t] /\ n = req[t].doc /\ o = doc[n].credits
    OBVIOUS
  <2>1. req' = [req EXCEPT ![t] = [req[t] EXCEPT !.at = "issue"]] /\ req \in [Requests -> Pending]
    BY <1>3 DEF Go, InvoicesInv, TypeOK
  <2>2. p.doc = n
    BY <2>1 DEF Pending
  <2>3. n \in Docs /\ Is(n, "DRAFT") /\ doc[n].total \in Nat
    BY <1>3 DEF Issuable, BeginIssue, InvoicesInv, TypeOK, Shaped, Is, Exists, Doc
  <2>4. doc[n].kind = "CREDIT_NOTE" => Kept(o) + doc[n].total <= doc[o].total
    <3>. SUFFICES ASSUME doc[n].kind = "CREDIT_NOTE" PROVE Kept(o) + doc[n].total <= doc[o].total
      OBVIOUS
    <3>1. IsInvoice(o) /\ doc[n].total <= doc[o].total - Credited(o)
      BY <1>3 DEF Issuable, WithinRemaining
    <3>2. o \in Docs /\ doc[o].total \in Nat
      BY <2>3, <3>1 DEF InvoicesInv, TypeOK, Numbered, Doc, Is, IsInvoice, Exists
    <3>3. Kept(o) \in Nat /\ Credited(o) \in Nat /\ Kept(o) <= Credited(o)
      BY KeptWithinCredited
    <3>. QED BY <2>3, <3>1, <3>2, <3>3
  <2>5. Kept(o)' = Kept(o)
    <3>1. KeptNotesOf(o)' = KeptNotesOf(o)
      BY <1>1 DEF KeptNotesOf, IssuedNotesOf, NotesOf, Is, Exists
    <3>. QED BY <1>1, <3>1, SumsAreTotals
  <2>6. RoomHolds(req[t])'
    BY <1>1, <2>2, <2>4, <2>5 DEF RoomHolds
  <2>. QED BY <1>1, <2>1, <2>6, CreditsSame
<1>. QED BY <1>2, <1>3 DEF BeginIssue
LEMMA CreditsCreate ==
  ASSUME InvoicesInv, InvoicesInv', CreditsInv, NEW t \in Requests, CreateInvoice(t) \/ CreateNote(t) PROVE CreditsInv'
<1>1. late' = late /\ \A u \in Requests : req'[u] \in {req[u], Idle}
  BY DEF CreateInvoice, CreateNote, history, Finish, Go, InvoicesInv, TypeOK
<1>2. ASSUME NEW d, Insert(d), d # None, d.status = "DRAFT", d.kind = "INVOICE" => d.credits = 0 PROVE CreditsInv'
  <2>1. doc' = [doc EXCEPT ![made + 1] = d] /\ doc \in [Docs -> Doc \cup {None}] /\ made \in Nat
    BY <1>2, InvoicesAssumption DEF Insert, InvoicesInv, TypeOK
  <2>2. \A i \in Docs : i = made + 1 => doc[i] = None
    BY <2>1 DEF InvoicesInv, Numbered
  <2>3. \A i \in Docs : StepOf(i)
    BY <1>2, <2>1, <2>2 DEF StepOf, Is, Exists
  <2>4. ASSUME NEW u \in Requests PROVE RoomHolds(req[u])' \/ (req'[u] = req[u] /\ doc'[req[u].doc] = doc[req[u].doc])
    <3>1. CASE req'[u] = Idle
      BY <3>1, IdleHasRoom DEF RoomHolds
    <3>2. CASE req'[u] = req[u] /\ req[u].at = "issue" /\ ~req[u].conflict
      <4>1. req[u].doc \in Docs /\ doc[req[u].doc] # None
        BY <3>2 DEF InvoicesInv, Shaped, SnapshotHolds, Is, Exists
      <4>. QED BY <2>1, <2>2, <3>2, <4>1
    <3>3. CASE req'[u] = req[u] /\ ~(req[u].at = "issue" /\ ~req[u].conflict)
      BY <3>3 DEF RoomHolds
    <3>. QED BY <1>1, <3>1, <3>2, <3>3
  <2>. QED BY <1>1, <2>3, <2>4, CreditsKept
<1>3. CASE CreateInvoice(t)
  <2>1. PICK s \in Subtotals, r \in Rates : Insert(New("INVOICE", 0, s, r))
    BY <1>3 DEF CreateInvoice
  <2>. PICK d : d = New("INVOICE", 0, s, r)
    OBVIOUS
  <2>2. d \in Doc /\ d.status = "DRAFT" /\ d.credits = 0
    BY NewDoc DEF Kinds
  <2>. QED BY <1>2, <2>1, <2>2, NoneAssumption
<1>4. CASE CreateNote(t) /\ ~Exists(req[t].doc)
  <2>1. UNCHANGED <<doc, late>> /\ Go(t, Idle)
    BY <1>4 DEF CreateNote, history, Finish
  <2>. QED BY <2>1, CreditsOther, IdleSound
<1>5. CASE CreateNote(t) /\ Exists(req[t].doc)
  <2>. PICK i : i = req[t].doc
    OBVIOUS
  <2>1. PICK s \in Subtotals, r \in Rates : Insert(New("CREDIT_NOTE", i, s, r))
    BY <1>5 DEF CreateNote
  <2>. PICK d : d = New("CREDIT_NOTE", i, s, r)
    OBVIOUS
  <2>2. i \in Docs
    BY <1>5 DEF CreateNote, InvoicesInv, Shaped
  <2>3. d \in Doc /\ d.status = "DRAFT" /\ d.kind = "CREDIT_NOTE"
    BY <2>2, NewDoc DEF Kinds
  <2>. QED BY <1>2, <2>1, <2>3, NoneAssumption
<1>. QED BY <1>3, <1>4, <1>5

LEMMA CreditsWrite ==
  ASSUME InvoicesInv, InvoicesInv', CreditsInv, NEW t \in Requests, NEW i \in Docs, NEW d,
         doc' = [doc EXCEPT ![i] = d], req' = Spoil(i, [req EXCEPT ![t] = Idle]), late \subseteq late', StepOf(i)
  PROVE  CreditsInv'
<1>1. \A j \in Docs : j # i => doc'[j] = doc[j]
  BY DEF InvoicesInv, TypeOK
<1>2. \A j \in Docs : StepOf(j)
  BY <1>1 DEF StepOf
<1>3. ASSUME NEW u \in Requests
      PROVE  \/ RoomHolds(req[u])'
             \/ req'[u] = req[u] /\ doc'[req[u].doc] = doc[req[u].doc]
             \/ req'[u].at = "issue" /\ req'[u].conflict
  <2>1. CASE req'[u] = Idle
    BY <2>1, IdleHasRoom DEF RoomHolds
  <2>2. CASE req'[u] = req[u] /\ ~(req[u].at = "issue" /\ req[u].doc = i)
    <3>1. req[u].at = "issue" => req[u].doc \in Docs /\ req[u].doc # i
      BY <2>2 DEF InvoicesInv, Shaped
    <3>2. CASE req[u].at = "issue"
      BY <1>1, <2>2, <3>1, <3>2
    <3>3. CASE req[u].at # "issue"
      BY <2>2, <3>3 DEF RoomHolds
    <3>. QED BY <3>2, <3>3
  <2>3. CASE req'[u].at = req[u].at /\ req[u].at = "issue" /\ req'[u].conflict = TRUE
    BY <2>3
  <2>. QED BY <2>1, <2>2, <2>3, Spoiled
<1>. QED BY <1>2, <1>3, CreditsKept

LEMMA CreditsUpdate ==
  ASSUME InvoicesInv, InvoicesInv', CreditsInv, NEW t \in Requests, Update(t) \/ Void(t) \/ Remove(t) PROVE CreditsInv'
<1>. PICK i : i = req[t].doc
  OBVIOUS
<1>1. i \in Docs /\ doc \in [Docs -> Doc \cup {None}]
  BY DEF Update, Void, Remove, InvoicesInv, TypeOK, Shaped
<1>2. CASE Finish(t) /\ UNCHANGED <<doc, late>>
  BY <1>2, CreditsOther, IdleSound DEF Finish
<1>3. CASE Update(t) /\ Exists(i)
  <2>. PICK d : d = Updated(req[t], doc[i])
    OBVIOUS
  <2>1. /\ doc' = [doc EXCEPT ![i] = d] /\ req' = Spoil(i, [req EXCEPT ![t] = Idle])
        /\ late' = IF Is(i, "DRAFT") THEN late ELSE late \cup {i}
    BY <1>1, <1>3 DEF Update
  <2>2. d.kind = doc[i].kind /\ d.credits = doc[i].credits /\ d.status = doc[i].status
    BY <1>1, <1>3 DEF Updated, Exists, Doc
  <2>3. StepOf(i)
    <3>1. doc'[i] = d /\ doc[i] # None /\ doc'[i] \in Doc \cup {None}
      BY <1>1, <1>3, <2>1 DEF Exists, InvoicesInv, TypeOK
    <3>. QED BY <2>1, <2>2, <3>1 DEF StepOf, Exists, Is
  <2>. QED BY <1>1, <2>1, <2>3, CreditsWrite
<1>4. CASE Void(t) /\ Exists(i)
  <2>. PICK d : d = [doc[i] EXCEPT !.status = "VOID"]
    OBVIOUS
  <2>1. doc' = [doc EXCEPT ![i] = d] /\ req' = Spoil(i, [req EXCEPT ![t] = Idle]) /\ late' = late
    BY <1>1, <1>4 DEF Void, history
  <2>2. d.kind = doc[i].kind /\ d.credits = doc[i].credits /\ d.status = "VOID" /\ d.total = doc[i].total
    BY <1>1, <1>4 DEF Exists, Doc
  <2>3. StepOf(i)
    <3>1. doc'[i] = d /\ doc[i] # None
      BY <1>1, <1>4, <2>1 DEF Exists
    <3>. QED BY <2>2, <3>1 DEF StepOf, Exists
  <2>. QED BY <1>1, <2>1, <2>3, CreditsWrite
<1>5. CASE Remove(t) /\ Exists(i) /\ NotesOf(i) = {}
  <2>1. /\ doc' = [doc EXCEPT ![i] = None] /\ req' = Spoil(i, [req EXCEPT ![t] = Idle])
        /\ late' = IF Is(i, "DRAFT") THEN late ELSE late \cup {i}
    BY <1>5 DEF Remove
  <2>2. StepOf(i)
    BY <1>1, <2>1 DEF StepOf, Exists
  <2>. QED BY <1>1, <2>1, <2>2, CreditsWrite
<1>. QED BY <1>2, <1>3, <1>4, <1>5 DEF Update, Void, Remove, history
\* A note that is issued is one more in the sum of its invoice.
LEMMA KeptGrows ==
  ASSUME InvoicesInv, NEW i \in Docs, doc[i] # None, doc[i].status # "ISSUED", doc'[i].total = doc[i].total,
         \A j \in Docs : j # i => doc'[j] = doc[j], late' = late, NEW x \in Docs
  PROVE  /\ Kept(x)' \in Nat /\ Kept(x) \in Nat /\ Kept(x)' <= Kept(x) + doc[i].total
         /\ doc'[i].credits # x => Kept(x)' <= Kept(x)
<1>. PICK d, e, S, T : d = doc /\ e = doc' /\ S = KeptNotesOf(x) /\ T = KeptNotesOf(x)'
  OBVIOUS
<1>1. IsFiniteSet(S) /\ (\A n \in S : d[n].total \in Nat) /\ i \notin S /\ d[i].total \in Nat
  <2>1. i \notin S
    BY DEF KeptNotesOf, IssuedNotesOf, Is
  <2>2. d[i].total \in Nat
    BY DEF InvoicesInv, TypeOK, Doc
  <2>. QED BY <2>1, <2>2, NotesHaveTotals
<1>2. T \subseteq S \cup {i} /\ \A n \in T : n \in Docs /\ (n # i => doc'[n] = doc[n]) /\ doc'[n].credits = x
  BY DEF KeptNotesOf, IssuedNotesOf, NotesOf, Is, Exists
<1>3. \A n \in T : e[n].total = d[n].total
  BY <1>2
<1>4. IsFiniteSet(S \cup {i}) /\ \A n \in S \cup {i} : d[n].total \in Nat
  BY <1>1, FS_AddElement
<1>5. IsFiniteSet(T) /\ \A n \in T : e[n].total \in Nat
  BY <1>2, <1>3, <1>4, FS_Subset
<1>6. TotalOf(e, T) <= TotalOf(d, S \cup {i})
  BY <1>2, <1>3, <1>4, TotalOfFewer
<1>7. TotalOf(d, S \cup {i}) = TotalOf(d, S) + d[i].total
  BY <1>1, TotalOfOneMore
<1>8. TotalOf(e, T) \in Nat /\ TotalOf(d, S) \in Nat
  BY <1>1, <1>5, TotalNat
<1>9. doc'[i].credits # x => Kept(x)' <= Kept(x)
  <2>. SUFFICES ASSUME doc'[i].credits # x PROVE TotalOf(e, T) <= TotalOf(d, S)
    BY SumsAreTotals
  <2>1. T \subseteq S
    BY <1>2
  <2>. QED BY <1>1, <1>3, <2>1, TotalOfFewer
<1>. QED BY <1>6, <1>7, <1>8, <1>9, SumsAreTotals

LEMMA CreditsCommit ==
  ASSUME InvoicesInv, InvoicesInv', CreditsInv, NEW t \in Requests, CommitIssue(t) PROVE CreditsInv'
<1>. PICK i, y, d : /\ i = req[t].doc /\ y = req[t].year
                    /\ d = [doc[i] EXCEPT !.status = "ISSUED", !.year = y, !.number = sequence[y] + 1]
  OBVIOUS
<1>1. /\ req[t].at = "issue" /\ ~req[t].conflict /\ doc' = [doc EXCEPT ![i] = d] /\ late' = late
      /\ req' = [u \in Requests |-> IF u = t THEN Idle
                                    ELSE IF Clash(i, y, req[u]) THEN [req[u] EXCEPT !.conflict = TRUE] ELSE req[u]]
  BY DEF CommitIssue, InvoicesInv, TypeOK
<1>2. i \in Docs /\ doc[i] # None /\ doc[i] \in Doc /\ doc[i].status = "DRAFT" /\ doc[i].total \in Nat
  BY <1>1 DEF InvoicesInv, TypeOK, Shaped, SnapshotHolds, Is, Exists, Doc
<1>3. d.kind = doc[i].kind /\ d.credits = doc[i].credits /\ d.total = doc[i].total
  BY <1>2 DEF Doc
<1>4. doc'[i] = d /\ \A j \in Docs : j # i => doc'[j] = doc[j]
  BY <1>1, <1>2 DEF InvoicesInv, TypeOK
<1>5. \A j \in Docs : doc'[j].kind = doc[j].kind /\ doc'[j].credits = doc[j].credits /\ doc'[j].total = doc[j].total
  BY <1>3, <1>4
<1>6. \A j \in Docs : IsInvoice(j)' => IsInvoice(j)
  BY <1>2, <1>4, <1>5 DEF IsInvoice, Exists
<1>7. ASSUME NEW x \in Docs
      PROVE  /\ Kept(x)' \in Nat /\ Kept(x) \in Nat /\ Kept(x)' <= Kept(x) + doc[i].total
             /\ doc[i].credits # x => Kept(x)' <= Kept(x)
  <2>1. doc[i].status # "ISSUED" /\ doc'[i].total = doc[i].total
    BY <1>2, <1>5
  <2>2. /\ Kept(x)' \in Nat /\ Kept(x) \in Nat /\ Kept(x)' <= Kept(x) + doc[i].total
        /\ doc'[i].credits # x => Kept(x)' <= Kept(x)
    BY <1>1, <1>2, <1>4, <2>1, KeptGrows
  <2>. QED BY <1>2, <1>5, <2>2
<1>8. ASSUME NEW j \in Docs, IsInvoice(j)' PROVE doc'[j].credits = 0
  BY <1>5, <1>6, <1>8 DEF CreditsInv
<1>9. ASSUME NEW j \in Docs, IsInvoice(j)', j \notin late' PROVE Kept(j)' <= doc'[j].total
  <2>1. IsInvoice(j) /\ Kept(j) <= doc[j].total /\ doc[j].total \in Nat /\ doc'[j].total = doc[j].total
    BY <1>1, <1>5, <1>6, <1>9 DEF CreditsInv, InvoicesInv, TypeOK, Doc, IsInvoice, Exists
  <2>2. CASE doc[i].credits # j
    BY <1>7, <2>1, <2>2
  <2>3. CASE doc[i].credits = j
    <3>1. doc[i].kind = "CREDIT_NOTE"
      BY <1>2, <2>3 DEF CreditsInv, IsInvoice, Exists, Docs, Doc, Kinds
    <3>2. Kept(j) + doc[i].total <= doc[j].total
      BY <1>1, <1>9, <2>3, <3>1 DEF CreditsInv, RoomHolds
    <3>. QED BY <1>2, <1>7, <2>1, <3>2
  <2>. QED BY <2>2, <2>3
<1>10. ASSUME NEW u \in Requests PROVE RoomHolds(req[u])'
  <2>. PICK p, n, o : p = req[u] /\ n = p.doc /\ o = doc[n].credits
    OBVIOUS
  <2>1. CASE u = t
    <3>1. req'[u] = Idle
      BY <1>1, <2>1
    <3>. QED BY <3>1, IdleHasRoom DEF RoomHolds
  <2>2. CASE u # t /\ Clash(i, y, p)
    <3>1. req'[u] = [p EXCEPT !.conflict = TRUE] /\ p \in Pending
      BY <1>1, <2>2 DEF InvoicesInv, TypeOK
    <3>2. req'[u].conflict
      BY <3>1 DEF Pending
    <3>. QED BY <3>2 DEF RoomHolds
  <2>3. CASE u # t /\ ~Clash(i, y, p)
    <3>1. req'[u] = p
      BY <1>1, <2>3
    <3>. SUFFICES ASSUME p.at = "issue", ~p.conflict, doc'[n].kind = "CREDIT_NOTE", doc'[n].credits \notin late'
                  PROVE  \E z : z = doc'[n].credits /\ Kept(z)' + doc'[n].total <= doc'[z].total
      BY <3>1 DEF RoomHolds
    <3>2. n \in Docs /\ doc[n] # None /\ doc[n] \in Doc /\ doc[n].total \in Nat
      BY DEF InvoicesInv, TypeOK, SnapshotHolds, Shaped, Is, Exists, Doc
    <3>3. doc[n].kind = "CREDIT_NOTE" /\ doc'[n].credits = o /\ doc'[n].total = doc[n].total /\ o \notin late
      BY <1>1, <1>5, <3>2
    <3>4. o \in Docs /\ IsInvoice(o) /\ doc[o].total \in Nat /\ doc'[o].total = doc[o].total
      BY <1>5, <3>2, <3>3 DEF InvoicesInv, TypeOK, NotesReferToIssued, Numbered, Doc, IsInvoice, Exists
    <3>5. Kept(o) + doc[n].total <= doc[o].total
      BY <3>3 DEF CreditsInv, RoomHolds
    <3>6. doc[i].credits # o
      <4>1. ~(doc[i].kind = "CREDIT_NOTE" /\ doc[i].credits = o)
        BY <2>3, <3>2, <3>3 DEF Clash, Exists
      <4>2. doc[i].kind = "INVOICE" => doc[i].credits = 0
        BY <1>2 DEF CreditsInv, IsInvoice, Exists
      <4>. QED BY <1>2, <3>4, <4>1, <4>2 DEF Doc, Kinds, Docs
    <3>7. Kept(o)' <= Kept(o) /\ Kept(o)' \in Nat /\ Kept(o) \in Nat
      BY <1>7, <3>4, <3>6
    <3>8. Kept(o)' + doc'[n].total <= doc'[o].total
      BY <3>2, <3>3, <3>4, <3>5, <3>7
    <3>. QED BY <3>3, <3>8
  <2>. QED BY <2>1, <2>2, <2>3
<1>. QED BY <1>8, <1>9, <1>10 DEF CreditsInv
LEMMA CreditsNext == ASSUME InvoicesInv, InvoicesInv', CreditsInv, [Next]_vars PROVE CreditsInv'
<1>1. CASE NewYear \/ UNCHANGED vars
  <2>1. UNCHANGED <<doc, late, req>>
    BY <1>1 DEF NewYear, register, vars
  <2>. QED BY <2>1, CreditsSame
<1>. QED BY <1>1, CreditsAsk, CreditsCreate, CreditsUpdate, CreditsBegin, CreditsCommit DEF Next

LEMMA CreditsInit == Init => CreditsInv
<1>. SUFFICES ASSUME Init PROVE CreditsInv
  OBVIOUS
<1>1. PICK issued \in BOOLEAN, subtotal \in Subtotals, rate \in Rates :
        doc = [i \in Docs |-> IF issued /\ i = 1
                              THEN [New("INVOICE", 0, subtotal, rate) EXCEPT !.status = "ISSUED", !.year = 1, !.number = 1]
                              ELSE None]
  BY DEF Init
<1>2. \A i \in Docs : Exists(i) => doc[i].credits = 0 /\ doc[i].total \in Nat
  BY <1>1, NewDoc, GrossNat, InvoicesAssumption DEF Exists, New
<1>3. ASSUME NEW i \in Docs, IsInvoice(i) PROVE Kept(i) <= doc[i].total
  <2>1. KeptNotesOf(i) = {}
    BY <1>2 DEF KeptNotesOf, IssuedNotesOf, NotesOf, Docs
  <2>. QED BY <1>2, <1>3, <2>1, NothingKept DEF IsInvoice
<1>4. \A t \in Requests : RoomHolds(req[t])
  BY IdleHasRoom DEF Init
<1>. QED BY <1>2, <1>3, <1>4 DEF CreditsInv, IsInvoice

\* issue and the steps beside it keep what the credits rest on: the notes of an
\* invoice that nobody edited, together with the one a transaction may still
\* commit, are within the invoice.
THEOREM CreditsInvariant == Spec => []CreditsInv
<1>1. Init => CreditsInv
  BY CreditsInit
<1>2. InvoicesInv /\ InvoicesInv' /\ CreditsInv /\ [Next]_vars => CreditsInv'
  BY CreditsNext
<1>. QED BY <1>1, <1>2, InvoicesInvariant, PTL DEF Spec

\* However many transactions issue notes to one invoice at the same time, those
\* issued add up to no more than its total, for any number of notes.
THEOREM CreditsStayWithin == Spec => []CreditsWithinTotal
<1>1. InvoicesInv /\ CreditsInv => CreditsWithinTotal
  <2>. SUFFICES ASSUME InvoicesInv, CreditsInv, NEW i \in Docs, IsInvoice(i), (IssuedNotesOf(i) \cup {i}) \cap late = {}
                PROVE  Credited(i) <= doc[i].total
    BY DEF CreditsWithinTotal
  <2>1. i \notin late /\ IssuedNotesOf(i) \cap late = {}
    OBVIOUS
  <2>2. Kept(i) <= doc[i].total
    BY <2>1 DEF CreditsInv
  <2>. QED BY <2>1, <2>2, KeptWithinCredited
<1>. QED BY <1>1, InvoicesInvariant, CreditsInvariant, PTL
-----------------------------------------------------------------------------
(***************************************************************************)
(* The register: every step that writes to no issued document is a step of *)
(* the fiscal register, or leaves it as it is.                             *)
(***************************************************************************)

LEMMA EntriesSame ==
  ASSUME \A i \in Docs : Entry(i)' = Entry(i), sequence' = sequence PROVE UNCHANGED <<Shown, sequence>>
BY DEF Shown

\* The register counts no more notes than are kept.
LEMMA RegisterCredited ==
  ASSUME InvoicesInv, late = {}, NEW o \in Docs
  PROVE  Register!Credited(o) \in Nat /\ Kept(o) \in Nat /\ Register!Credited(o) <= Kept(o)
<1>. PICK d, e, S, T : d = doc /\ e = Shown /\ S = KeptNotesOf(o) /\ T = Register!NotesOf(o)
  OBVIOUS
<1>1. Register!Credited(o) = TotalOf(Shown, Register!NotesOf(o))
  BY DEF Register!Credited, TotalOf, MapThenSumSet, MapThenFoldSet, Register!MapThenSumSet, Register!MapThenFoldSet
<1>2. IsFiniteSet(S) /\ \A n \in S : d[n].total \in Nat
  BY NotesHaveTotals
<1>3. \A n \in Docs : Shown[n] # None => Exists(n) /\ Shown[n] = doc[n]
  BY DEF Shown, Entry
<1>4. T \subseteq S /\ \A n \in T : e[n].total = d[n].total
  BY <1>3 DEF Register!NotesOf, KeptNotesOf, IssuedNotesOf, NotesOf, Is
<1>5. IsFiniteSet(T) /\ \A n \in T : e[n].total \in Nat
  BY <1>2, <1>4, FS_Subset
<1>6. TotalOf(e, T) <= TotalOf(d, S) /\ TotalOf(e, T) \in Nat /\ TotalOf(d, S) \in Nat
  BY <1>2, <1>4, <1>5, TotalOfFewer, TotalNat
<1>. QED BY <1>1, <1>6, SumsAreTotals

LEMMA CommitEnters ==
  ASSUME InvoicesInv, CreditsInv, late = {}, NEW t \in Requests, CommitIssue(t) PROVE Register!Next
<1>. PICK i, y, n : i = req[t].doc /\ y = req[t].year /\ n = sequence[req[t].year] + 1
  OBVIOUS
<1>. PICK d : d = [doc[i] EXCEPT !.status = "ISSUED", !.year = y, !.number = n]
  OBVIOUS
<1>1. /\ req[t].at = "issue" /\ ~req[t].conflict
      /\ sequence' = [sequence EXCEPT ![y] = n] /\ doc' = [doc EXCEPT ![i] = d]
  BY DEF CommitIssue, InvoicesInv, TypeOK
<1>2. /\ i \in Docs /\ y \in Years /\ doc[i] # None /\ doc[i] \in Doc /\ doc[i].status = "DRAFT" /\ doc[i].total \in Nat
      /\ n \in Nat /\ n = sequence[y] + 1
  BY <1>1 DEF InvoicesInv, TypeOK, Shaped, SnapshotHolds, Is, Exists, Doc
<1>3. /\ d \in Doc /\ d.status = "ISSUED" /\ d.year = y /\ d.number = n /\ d.kind = doc[i].kind /\ d.credits = doc[i].credits
      /\ d.total = doc[i].total /\ d # None
  BY <1>2, NoneAssumption DEF Doc
<1>4. Shown[i] = None
  BY <1>2 DEF Shown, Entry, Is, Exists
<1>5. Shown' = [Shown EXCEPT ![i] = d]
  <2>1. doc'[i] = d /\ \A j \in Docs : j # i => doc'[j] = doc[j]
    BY <1>1, <1>2 DEF InvoicesInv, TypeOK
  <2>2. \A j \in Docs : Entry(j)' = IF j = i THEN d ELSE Entry(j)
    BY <1>3, <2>1 DEF Entry, Is, Exists
  <2>. QED BY <1>2, <2>2 DEF Shown
<1>6. ASSUME d.kind = "CREDIT_NOTE" PROVE Register!WithinRemaining(d)
  <2>. PICK o : o = d.credits
    OBVIOUS
  <2>1. o \in Docs /\ IsInvoice(o) /\ ~Is(o, "DRAFT") /\ doc[o].total \in Nat
    BY <1>2, <1>3, <1>6 DEF InvoicesInv, TypeOK, NotesReferToIssued, Numbered, Doc, IsInvoice, Exists
  <2>2. Shown[o] = doc[o] /\ doc[o] # None /\ doc[o].kind = "INVOICE"
    BY <2>1 DEF Shown, Entry, IsInvoice, Exists
  <2>3. Kept(o) + d.total <= doc[o].total
    BY <1>1, <1>3, <1>6 DEF CreditsInv, RoomHolds
  <2>4. Register!Credited(o) + d.total <= Shown[o].total
    BY <1>2, <1>3, <2>1, <2>2, <2>3, RegisterCredited
  <2>. QED BY <2>1, <2>2, <2>4 DEF Register!WithinRemaining
<1>7. Register!Enter(i)
  BY <1>1, <1>2, <1>3, <1>4, <1>5, <1>6 DEF Register!Enter
<1>. QED BY <1>2, <1>7 DEF Register!Next

LEMMA NextRegister ==
  ASSUME InvoicesInv, CreditsInv, [Next]_vars, late' = {}
  PROVE  Register!Next \/ UNCHANGED <<Shown, sequence>>
<1>0. doc \in [Docs -> Doc \cup {None}] /\ made \in Nat
  BY InvoicesAssumption DEF InvoicesInv, TypeOK
<1>1. ASSUME UNCHANGED <<doc, sequence>> PROVE UNCHANGED <<Shown, sequence>>
  BY <1>1 DEF Shown, Entry, Is, Exists
<1>2. CASE NewYear \/ UNCHANGED vars
  BY <1>1, <1>2 DEF NewYear, register, vars
<1>3. ASSUME NEW t \in Requests,
             \/ AskNote(t) \/ AskUpdate(t) \/ AskVoid(t) \/ AskRemove(t) \/ AskIssue(t) \/ BeginIssue(t) \/ AbortIssue(t)
      PROVE  UNCHANGED <<Shown, sequence>>
  BY <1>1, <1>3 DEF AskNote, AskUpdate, AskVoid, AskRemove, AskIssue, BeginIssue, AbortIssue, register
<1>4. ASSUME NEW t \in Requests, CreateInvoice(t) \/ CreateNote(t) PROVE UNCHANGED <<Shown, sequence>>
  <2>1. sequence' = sequence
    BY <1>4 DEF CreateInvoice, CreateNote
  <2>2. ASSUME NEW d, Insert(d), d.status = "DRAFT" PROVE UNCHANGED <<Shown, sequence>>
    <3>1. \A i \in Docs : doc'[i] = doc[i] \/ (doc[i] = None /\ doc'[i].status = "DRAFT")
      BY <1>0, <2>2 DEF Insert, InvoicesInv, Numbered
    <3>2. \A i \in Docs : Entry(i)' = Entry(i)
      BY <3>1 DEF Entry, Is, Exists
    <3>. QED BY <2>1, <3>2, EntriesSame
  <2>3. CASE UNCHANGED doc
    BY <1>1, <2>1, <2>3
  <2>. QED BY <1>4, <2>2, <2>3 DEF CreateInvoice, CreateNote, New
<1>5. ASSUME NEW t \in Requests, Update(t) \/ Remove(t) PROVE UNCHANGED <<Shown, sequence>>
  <2>. PICK i : i = req[t].doc
    OBVIOUS
  <2>1. sequence' = sequence /\ (UNCHANGED doc \/ Is(i, "DRAFT"))
    BY <1>5 DEF Update, Remove
  <2>2. CASE UNCHANGED doc
    BY <1>1, <2>1, <2>2
  <2>3. CASE Is(i, "DRAFT")
    <3>1. (\A j \in Docs : j # i => doc'[j] = doc[j]) /\ (doc'[i] # None => doc'[i].status = "DRAFT")
      <4>1. CASE Update(t)
        <5>1. doc' = [doc EXCEPT ![i] = Updated(req[t], @)] /\ i \in Docs
          BY <2>3, <4>1 DEF Update, Is, InvoicesInv, Shaped
        <5>2. Updated(req[t], doc[i]).status = doc[i].status
          BY <1>0, <2>3, <5>1 DEF Updated, Doc, Is, Exists
        <5>. QED BY <1>0, <2>3, <5>1, <5>2 DEF Is
      <4>2. CASE Remove(t)
        BY <1>0, <2>3, <4>2 DEF Remove, Is
      <4>. QED BY <1>5, <4>1, <4>2
    <3>2. \A j \in Docs : Entry(j)' = Entry(j)
      BY <2>3, <3>1 DEF Entry, Is, Exists
    <3>. QED BY <2>1, <3>2, EntriesSame
  <2>. QED BY <2>1, <2>2, <2>3
<1>6. ASSUME NEW t \in Requests, Void(t) PROVE Register!Next \/ UNCHANGED <<Shown, sequence>>
  <2>. PICK i : i = req[t].doc
    OBVIOUS
  <2>1. sequence' = sequence /\ i \in Docs
    BY <1>6 DEF Void, InvoicesInv, Shaped
  <2>2. CASE ~Exists(i)
    BY <1>1, <1>6, <2>1, <2>2 DEF Void
  <2>3. CASE Exists(i)
    <3>. PICK d : d = [doc[i] EXCEPT !.status = "VOID"]
      OBVIOUS
    <3>1. doc' = [doc EXCEPT ![i] = d]
      BY <1>6, <2>3 DEF Void
    <3>2. ~Is(i, "DRAFT") /\ doc[i] \in Doc
      BY <1>0, <1>6, <2>1, <2>3 DEF Void, InvoicesInv, Shaped, Exists
    <3>3. d \in Doc /\ d.status = "VOID" /\ d # None
      BY <3>2, NoneAssumption DEF Doc
    <3>4. doc'[i] = d /\ \A j \in Docs : j # i => doc'[j] = doc[j]
      BY <1>0, <2>1, <3>1
    <3>5. Entry(i) = doc[i] /\ doc[i] # None /\ \A j \in Docs : Entry(j)' = IF j = i THEN d ELSE Entry(j)
      BY <2>3, <3>2, <3>3, <3>4 DEF Entry, Is, Exists
    <3>6. Shown' = [Shown EXCEPT ![i] = d] /\ Shown[i] = doc[i]
      BY <2>1, <3>5 DEF Shown
    <3>7. Register!Void(i)
      BY <2>1, <3>5, <3>6 DEF Register!Void
    <3>. QED BY <2>1, <3>7 DEF Register!Next
  <2>. QED BY <2>2, <2>3
<1>7. ASSUME NEW t \in Requests, CommitIssue(t) PROVE Register!Next
  <2>1. late = {}
    BY <1>7 DEF CommitIssue
  <2>. QED BY <1>7, <2>1, CommitEnters
<1>. QED BY <1>2, <1>3, <1>4, <1>5, <1>6, <1>7 DEF Next

LEMMA InitRegister == Init => Register!Init
<1>. SUFFICES ASSUME Init PROVE Register!Init
  OBVIOUS
<1>1. PICK issued \in BOOLEAN, subtotal \in Subtotals, rate \in Rates :
        /\ doc = [i \in Docs |-> IF issued /\ i = 1
                                 THEN [New("INVOICE", 0, subtotal, rate) EXCEPT !.status = "ISSUED", !.year = 1, !.number = 1]
                                 ELSE None]
        /\ sequence = [y \in Years |-> IF issued /\ y = 1 THEN 1 ELSE 0]
  BY DEF Init
<1>. PICK d : d = [New("INVOICE", 0, subtotal, rate) EXCEPT !.status = "ISSUED", !.year = 1, !.number = 1]
  OBVIOUS
<1>2. 1 \in Docs /\ 1 \in Years
  BY InvoicesAssumption DEF Docs, Years
<1>3. /\ New("INVOICE", 0, subtotal, rate) \in Doc
      /\ New("INVOICE", 0, subtotal, rate).kind = "INVOICE"
  BY NewDoc DEF Kinds
<1>4. d \in Doc /\ d.kind = "INVOICE" /\ d.status = "ISSUED" /\ d.year = 1 /\ d.number = 1 /\ d # None
  <2>1. /\ d.kind = "INVOICE" /\ d.status = "ISSUED" /\ d.year = 1 /\ d.number = 1
    BY <1>3 DEF Doc
  <2>2. d \in Doc
    BY <1>2, <1>3 DEF Doc
  <2>. QED BY <2>1, <2>2, NoneAssumption
<1>5. \A i \in Docs : Entry(i) = IF issued /\ i = 1 THEN d ELSE None
  BY <1>1, <1>4 DEF Entry, Is, Exists
<1>6. CASE issued
  <2>1. Shown = [i \in Docs |-> IF i = 1 THEN d ELSE None] /\ sequence = [z \in Years |-> IF z = 1 THEN 1 ELSE 0]
    BY <1>1, <1>5, <1>6 DEF Shown
  <2>. QED BY <1>2, <1>4, <2>1 DEF Register!Init
<1>7. CASE ~issued
  <2>1. Shown = [i \in Docs |-> None] /\ sequence = [y \in Years |-> 0]
    BY <1>1, <1>5, <1>7 DEF Shown
  <2>. QED BY <2>1 DEF Register!Init
<1>. QED BY <1>6, <1>7

\* Every step of the handlers, as long as it writes to no issued document, is
\* a step of the fiscal register.
THEOREM StepsKeepRegister == Spec => RegisterStep
<1>1. InvoicesInv /\ CreditsInv /\ [Next]_vars => [late' = {} => Register!Next \/ UNCHANGED <<Shown, sequence>>]_vars
  BY NextRegister
<1>. QED BY <1>1, InvoicesInvariant, CreditsInvariant, PTL DEF Spec, RegisterStep

\* The invoicing implements the fiscal register, however requests overlap, unless
\* an edit or a deletion under way reaches a document that has been issued.
THEOREM RegisterRefinement == Spec /\ [](late = {}) => Register!Spec
<1>1. Init => Register!Init
  BY InitRegister
<1>2. InvoicesInv /\ CreditsInv /\ [Next]_vars /\ (late = {})' => [Register!Next]_<<Shown, sequence>>
  BY NextRegister
<1>. QED BY <1>1, <1>2, InvoicesInvariant, CreditsInvariant, PTL DEF Spec, Register!Spec
-----------------------------------------------------------------------------
(***************************************************************************)
(* One request at a time.                                                  *)
(***************************************************************************)

\* Requests that have nothing to write back need nothing to stay as it was.
LEMMA SerialOf ==
  ASSUME SerialInv, late' = {}, crossed' = {},
         \A u \in Requests : \/ req'[u].at \notin {"update", "remove"}
                             \/ req'[u] = req[u] /\ doc'[req[u].doc] = doc[req[u].doc]
  PROVE  SerialInv'
<1>. SUFFICES ASSUME NEW u \in Requests, req'[u] = req[u], doc'[req[u].doc] = doc[req[u].doc]
              PROVE  /\ req[u].at \in {"update", "remove"} => Is(req[u].doc, "DRAFT")'
                     /\ req[u].at = "update" => Amounts(req[u].doc)' = req[u].old
  BY DEF SerialInv
<1>. QED BY DEF SerialInv, Is, Exists, Amounts

LEMMA SerialNext ==
  ASSUME InvoicesInv, SerialInv, OneAtATime, OneAtATime', [Next]_vars PROVE SerialInv'
<1>0. late = {} /\ crossed = {} /\ doc \in [Docs -> Doc \cup {None}] /\ req \in [Requests -> Pending] /\ made \in Nat
  BY InvoicesAssumption DEF SerialInv, InvoicesInv, TypeOK
<1>1. CASE NewYear \/ UNCHANGED vars
  BY <1>0, <1>1, SerialOf DEF NewYear, register, vars
<1>2. ASSUME NEW t \in Requests, CreateInvoice(t) PROVE SerialInv'
  <2>1. UNCHANGED <<late, crossed, req>> /\ doc' = [doc EXCEPT ![made + 1] = doc'[made + 1]]
    BY <1>0, <1>2 DEF CreateInvoice, Insert, history
  <2>2. \A j \in Docs : Is(j, "DRAFT") => doc'[j] = doc[j]
    BY <1>0, <2>1 DEF InvoicesInv, Numbered, Is, Exists
  <2>3. \A u \in Requests : req[u].at \in {"update", "remove"} => req[u].doc \in Docs /\ Is(req[u].doc, "DRAFT")
    BY DEF SerialInv, InvoicesInv, Shaped
  <2>. QED BY <1>0, <2>1, <2>2, <2>3, SerialOf
<1>3. ASSUME NEW t \in Requests, UNCHANGED <<doc, late, crossed>>, NEW p, Go(t, p),
             p.at \notin {"update", "remove"}
      PROVE  SerialInv'
  <2>1. \A u \in Requests : IF u = t THEN req'[u] = p ELSE req'[u] = req[u]
    BY <1>0, <1>3 DEF Go
  <2>. QED BY <1>0, <1>3, <2>1, SerialOf
<1>4. ASSUME NEW t \in Requests, AskNote(t) \/ AskVoid(t) PROVE SerialInv'
  <2>1. UNCHANGED <<doc, late, crossed>>
    BY <1>4 DEF AskNote, AskVoid, register
  <2>2. PICK i \in Docs, at \in {"note", "void"} : Go(t, [Idle EXCEPT !.at = at, !.doc = i])
    BY <1>4 DEF AskNote, AskVoid
  <2>3. [Idle EXCEPT !.at = at, !.doc = i].at = at
    BY DEF Idle
  <2>. QED BY <1>3, <2>1, <2>2, <2>3
<1>5. ASSUME NEW t \in Requests, AskIssue(t) PROVE SerialInv'
  <2>1. UNCHANGED <<doc, late, crossed>>
    BY <1>5 DEF AskIssue, register
  <2>2. PICK i \in Docs : Go(t, [Idle EXCEPT !.at = "begin", !.doc = i, !.year = year])
    BY <1>5 DEF AskIssue
  <2>3. [Idle EXCEPT !.at = "begin", !.doc = i, !.year = year].at = "begin"
    BY DEF Idle
  <2>. QED BY <1>3, <2>1, <2>2, <2>3
<1>6. ASSUME NEW t \in Requests, BeginIssue(t) \/ AbortIssue(t) PROVE SerialInv'
  <2>1. UNCHANGED <<doc, late, crossed>>
    BY <1>6 DEF BeginIssue, AbortIssue, register
  <2>2. CASE Go(t, Idle)
    BY <1>3, <2>1, <2>2, IdleSound
  <2>3. CASE Go(t, [req[t] EXCEPT !.at = "issue"])
    <3>1. [req[t] EXCEPT !.at = "issue"].at = "issue"
      BY <1>0 DEF Pending
    <3>. QED BY <1>3, <2>1, <2>3, <3>1
  <2>. QED BY <1>6, <2>2, <2>3 DEF BeginIssue, AbortIssue, Finish
\* The requests that read a draft: nobody else has read one.
<1>7. ASSUME NEW t \in Requests, NEW i \in Docs, Is(i, "DRAFT"), UNCHANGED <<doc, late, crossed>>, NEW p, Go(t, p),
             p.doc = i, p.at \in {"update", "remove"}, p.at = "update" => Amounts(i) = p.old
      PROVE  SerialInv'
  <2>1. \A u \in Requests : IF u = t THEN req'[u] = p ELSE req'[u] = req[u]
    BY <1>0, <1>7 DEF Go
  <2>2. Is(i, "DRAFT")' /\ Amounts(i)' = Amounts(i)
    BY <1>7 DEF Is, Exists, Amounts
  <2>. SUFFICES ASSUME NEW u \in Requests
                PROVE  /\ req'[u].at \in {"update", "remove"} => Is(req[u].doc, "DRAFT")'
                       /\ req'[u].at = "update" => Amounts(req[u].doc)' = req'[u].old
    BY <1>0, <1>7 DEF SerialInv
  <2>3. CASE u = t
    BY <1>7, <2>1, <2>2, <2>3 DEF Is, Exists, Amounts
  <2>4. CASE u # t
    BY <1>7, <2>1, <2>4 DEF SerialInv, Is, Exists, Amounts
  <2>. QED BY <2>3, <2>4
<1>8. ASSUME NEW t \in Requests, AskRemove(t) PROVE SerialInv'
  <2>1. UNCHANGED <<doc, late, crossed>>
    BY <1>8 DEF AskRemove, register
  <2>2. PICK i \in Docs : Is(i, "DRAFT") /\ Go(t, [Idle EXCEPT !.at = "remove", !.doc = i])
    BY <1>8 DEF AskRemove
  <2>3. [Idle EXCEPT !.at = "remove", !.doc = i].at = "remove" /\ [Idle EXCEPT !.at = "remove", !.doc = i].doc = i
    BY DEF Idle
  <2>. QED BY <1>7, <2>1, <2>2, <2>3
<1>9. ASSUME NEW t \in Requests, AskUpdate(t) PROVE SerialInv'
  <2>1. UNCHANGED <<doc, late, crossed>>
    BY <1>9 DEF AskUpdate, register
  <2>2. PICK i \in Docs, s \in Subtotals \cup {None}, r \in Rates \cup {None} :
          /\ Is(i, "DRAFT")
          /\ Go(t, [Idle EXCEPT !.at = "update", !.doc = i, !.old = Amounts(i), !.new = [subtotal |-> s, rate |-> r]])
    BY <1>9 DEF AskUpdate
  <2>. PICK old, new : old = Amounts(i) /\ new = [subtotal |-> s, rate |-> r]
    OBVIOUS
  <2>. PICK p : p = [Idle EXCEPT !.at = "update", !.doc = i, !.old = old, !.new = new]
    OBVIOUS
  <2>3. p.at = "update" /\ p.doc = i /\ p.old = Amounts(i)
    BY DEF Idle
  <2>. QED BY <1>7, <2>1, <2>2, <2>3
\* The requests that write: they are the only one under way.
<1>10. ASSUME NEW t \in Requests, req[t].at # "idle", late' = {}, crossed' = {},
              \A u \in Requests : u # t /\ req[u].at = "idle" => req'[u].at = "idle", req'[t].at = "idle"
       PROVE  SerialInv'
  <2>1. \A u \in Requests : req'[u].at = "idle"
    BY <1>10 DEF OneAtATime
  <2>. QED BY <1>10, <2>1, SerialOf
<1>11. ASSUME NEW t \in Requests, NEW i, req' = Spoil(i, [req EXCEPT ![t] = Idle])
       PROVE  /\ \A u \in Requests : u # t /\ req[u].at = "idle" => req'[u].at = "idle"
              /\ req'[t].at = "idle"
  BY <1>0, <1>11, IdleSound DEF Spoil
<1>12. ASSUME NEW t \in Requests, CreateNote(t) PROVE SerialInv'
  BY <1>0, <1>10, <1>12, IdleSound DEF CreateNote, history, Finish, Go
<1>13. ASSUME NEW t \in Requests, Void(t) PROVE SerialInv'
  <2>1. CASE Finish(t) /\ UNCHANGED doc
    BY <1>3, <1>13, <2>1, IdleSound DEF Void, history, Finish
  <2>2. CASE req' = Spoil(req[t].doc, [req EXCEPT ![t] = Idle])
    <3>1. req[t].at # "idle" /\ late' = {} /\ crossed' = {}
      BY <1>0, <1>13 DEF Void, history
    <3>. QED BY <1>10, <1>11, <2>2, <3>1
  <2>. QED BY <1>13, <2>1, <2>2 DEF Void
<1>14. ASSUME NEW t \in Requests, Update(t) \/ Remove(t) PROVE SerialInv'
  <2>1. CASE Finish(t) /\ UNCHANGED <<doc, late, crossed>>
    BY <1>3, <2>1, IdleSound DEF Finish
  <2>2. CASE Exists(req[t].doc) /\ req' = Spoil(req[t].doc, [req EXCEPT ![t] = Idle])
    <3>1. req[t].at \in {"update", "remove"} /\ Is(req[t].doc, "DRAFT")
          /\ (req[t].at = "update" => Amounts(req[t].doc) = req[t].old)
      BY <1>14 DEF Update, Remove, SerialInv
    <3>2. late' = {} /\ crossed' = {}
      BY <1>0, <1>14, <3>1 DEF Update, Remove
    <3>. QED BY <1>10, <1>11, <2>2, <3>1, <3>2
  <2>. QED BY <1>14, <2>1, <2>2 DEF Update, Remove
<1>15. ASSUME NEW t \in Requests, CommitIssue(t) PROVE SerialInv'
  <2>. PICK i, y : i = req[t].doc /\ y = req[t].year
    OBVIOUS
  <2>1. /\ req[t].at # "idle" /\ late' = {} /\ crossed' = {}
        /\ req' = [u \in Requests |-> IF u = t THEN Idle
                                      ELSE IF Clash(i, y, req[u]) THEN [req[u] EXCEPT !.conflict = TRUE] ELSE req[u]]
    BY <1>0, <1>15 DEF CommitIssue
  <2>2. \A u \in Requests : u # t /\ req[u].at = "idle" => req'[u] = req[u]
    BY <2>1 DEF Clash
  <2>3. req'[t] = Idle
    BY <2>1
  <2>. QED BY <1>10, <2>1, <2>2, <2>3, IdleSound
<1>. QED BY <1>1, <1>2, <1>4, <1>5, <1>6, <1>8, <1>9, <1>12, <1>13, <1>14, <1>15 DEF Next

LEMMA SerialInit == Init => SerialInv
BY IdleSound DEF Init, SerialInv

\* While requests do not overlap, no edit and no deletion reaches an issued
\* document, and no total is computed from outdated amounts: the cases the other
\* properties except need two requests at once.
THEOREM OverlapNeeded == Spec /\ []OneAtATime => [](late = {} /\ crossed = {})
<1>1. Init => SerialInv
  BY SerialInit
<1>2. InvoicesInv /\ SerialInv /\ OneAtATime /\ OneAtATime' /\ [Next]_vars => SerialInv'
  BY SerialNext
<1>3. SerialInv => late = {} /\ crossed = {}
  BY DEF SerialInv
<1>. QED BY <1>1, <1>2, <1>3, InvoicesInvariant, PTL DEF Spec

\* While requests do not overlap, the invoicing is a fiscal register.
THEOREM SerialRegister == Spec /\ []OneAtATime => Register!Spec
<1>1. (late = {} /\ crossed = {}) => late = {}
  OBVIOUS
<1>. QED BY <1>1, OverlapNeeded, RegisterRefinement, PTL
=============================================================================
