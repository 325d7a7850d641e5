------------------------------ MODULE HandoverDesk ------------------------------
(***************************************************************************)
(* The desk hands vehicles over and takes them back: the reservation with  *)
(* its rental agreement, the PATCH with its gates for hand-over and        *)
(* return, the odometer a vehicle takes from it, and the damage report.    *)
(* Every request reads the rows, decides, and writes by id later.          *)
(***************************************************************************)
EXTENDS Naturals

CONSTANTS
  Reservations,    \* ids of reservations
  Customers,
  Vehicles,
  Requests,        \* desk requests in flight at the same time
  Ops,             \* the operations to consider: see AllOps
  Patches,         \* the bodies of PATCHes to consider: see Body
  Demands,         \* what the environment asks for: see AllDemands
  MaxKm,           \* bound: readings of an odometer
  MaxCalls,        \* bound: requests
  None,            \* null
  Absent           \* undefined: a field that a body leaves out

AllOps == {"agreement", "patch", "damage"}

\* HANDOVER_REQUIRE_SIGNED_AGREEMENT, HANDOVER_REQUIRE_CARGOS,
\* HANDOVER_REQUIRE_ID_DOCUMENTS and RETURN_REQUIRE_ODOMETER_IN.
AllDemands == {"agreement", "cargos", "papers", "km"}

ASSUME HandoverAssumption ==
  /\ Ops \subseteq AllOps /\ Demands \subseteq AllDemands
  /\ MaxKm \in Nat /\ MaxCalls \in Nat
  /\ None \notin Reservations \cup Requests \cup Customers \cup Vehicles
  /\ Absent \notin Customers \cup Vehicles \cup {None}

VARIABLES
  res,         \* Reservation of each id, or None while there is none
  agreement,   \* RentalAgreement of each reservation, or None
  sent,        \* reservations with a CaRGOS submission that succeeded or was skipped
  required,    \* the company must report rentals: cargosInScope, and an adapter
  papers,      \* customers with the identity documents asked for
  odometer,    \* Vehicle.odometerKm
  report,      \* DamageReport of each reservation with its lines, or None
  req,         \* what each request is doing
  signed,      \* history: the text each agreement had when it was last signed, 0 for never
  ungated,     \* history: reservations created as IN_PROGRESS
  overtaken,   \* history: signed agreements an edit or a void wrote to that had read DRAFT
  disturbed,   \* history: PATCHes in whose time a condition of the hand-over was taken away
  returned,    \* history: whose reading each vehicle was last to take, None if the fleet desk's
  torn,        \* history: vehicles with another reading, or a death, between a write and its sync
  mixed,       \* history: reservations with two damage reports put at the same time
  calls

vars == <<res, agreement, sent, required, papers, odometer, report, req,
          signed, ungated, overtaken, disturbed, returned, torn, mixed, calls>>

Kms == 0..MaxKm
Texts == 1..2
\* No gate tells the other statuses from CONFIRMED.
Statuses == {"CONFIRMED", "IN_PROGRESS", "COMPLETED"}
Reservation == [status : Statuses, override : BOOLEAN, km : Kms \cup {None},
                cust : Customers \cup {None}, vehicle : Vehicles]
Agreement == [status : {"DRAFT", "SIGNED", "VOID"}, text : Texts]
Report == [by : Requests, lines : SUBSET Requests]

\* The body of a PATCH: odometerInKm and customerId may be null, and all may be left out.
Body == [status : Statuses \cup {Absent}, override : {"set", "clear", Absent}, km : Kms \cup {None, Absent},
         cust : Customers \cup {None, Absent}, vehicle : Vehicles \cup {Absent}]
Empty == [status |-> Absent, override |-> Absent, km |-> Absent, cust |-> Absent, vehicle |-> Absent]
Idle == [at |-> "idle", res |-> None, saw |-> "DRAFT", text |-> 0, body |-> Empty, read |-> None,
         clear |-> FALSE, lines |-> {}]

ASSUME PatchesAssumption == Patches \subseteq Body

\* Null and undefined are no values.
ASSUME NoneAssumption ==
  /\ None \notin Reservation /\ None \notin Agreement /\ None \notin Report /\ None \notin Kms
  /\ Absent \notin Statuses \cup {"set", "clear"} /\ Absent \notin Kms

Init ==
  /\ res = [r \in Reservations |-> None]
  /\ agreement = [r \in Reservations |-> None]
  /\ sent = {} /\ required \in BOOLEAN /\ papers \in SUBSET Customers
  /\ odometer = [v \in Vehicles |-> 0]
  /\ report = [r \in Reservations |-> None]
  /\ req = [t \in Requests |-> Idle]
  /\ signed = [r \in Reservations |-> 0] /\ ungated = {}
  /\ overtaken = {} /\ disturbed = {} /\ mixed = {}
  /\ returned = [v \in Vehicles |-> None] /\ torn = {}
  /\ calls = 0

world == <<sent, required, papers>>
history == <<signed, ungated, overtaken, disturbed, returned, torn, mixed>>

At(t, step) == req[t].at = step
Go(t, next) == req' = [req EXCEPT ![t] = next]
Finish(t) == Go(t, Idle)
Begin(op, t, next) == op \in Ops /\ At(t, "idle") /\ Go(t, next)
Ask(op, t, next) == Begin(op, t, next) /\ calls < MaxCalls /\ calls' = calls + 1

IsSigned(r) == agreement[r] # None /\ agreement[r].status = "SIGNED"

\* The PATCHes under way that hand over.
Patching == {t \in Requests : req[t].at \in {"count", "write"} /\ req[t].body.status = "IN_PROGRESS"}
\* If what was demanded is taken away, these no longer know what they have read.
Disturbs(demand, ts) == disturbed' = IF demand \in Demands THEN disturbed \cup ts ELSE disturbed

Syncing(v) == {t \in Requests : At(t, "sync") /\ req[t].body.vehicle = v}

(***************************************************************************)
(* A reservation is created, with the status its body asks for.            *)
(***************************************************************************)

CreateReservation ==
  \E r \in Reservations, status \in Statuses, c \in Customers \cup {None}, v \in Vehicles :
    /\ res[r] = None
    /\ res' = [res EXCEPT ![r] = [status |-> status, override |-> FALSE, km |-> None, cust |-> c, vehicle |-> v]]
    /\ ungated' = IF status = "IN_PROGRESS" THEN ungated \cup {r} ELSE ungated
    /\ UNCHANGED <<agreement, world, odometer, report, req, signed, overtaken, disturbed, returned, torn, mixed, calls>>

(***************************************************************************)
(* Elsewhere: the CaRGOS pipeline, the company settings, the documents,    *)
(* the customers and the fleet desk.                                       *)
(***************************************************************************)

ReportSent ==
  \E r \in Reservations \ sent :
    /\ res[r] # None /\ sent' = sent \cup {r}
    /\ UNCHANGED <<res, agreement, required, papers, odometer, report, req, history, calls>>

ChangePolicy ==
  /\ required' = ~required
  /\ Disturbs("cargos", IF required' THEN Patching ELSE {})
  /\ UNCHANGED <<res, agreement, sent, papers, odometer, report, req, signed, ungated, overtaken, returned, torn, mixed, calls>>

\* The PATCHes that read c as the customer of their reservation.
Counting(c) == {t \in Patching : req[t].read = c}

ChangePapers ==
  \E c \in Customers :
    /\ papers' = IF c \in papers THEN papers \ {c} ELSE papers \cup {c}
    /\ Disturbs("papers", IF c \in papers THEN Counting(c) ELSE {})
    /\ UNCHANGED <<res, agreement, sent, required, odometer, report, req, signed, ungated, overtaken, returned, torn, mixed, calls>>

\* merge moves the reservations and the documents to another customer; remove
\* leaves the reservations without one, and the documents go.  A PATCH that names
\* the customer would fail on the foreign key: there is none.
DropCustomer ==
  \E c \in Customers, into \in Customers \cup {None} :
    /\ into # c /\ \A t \in Requests : req[t].body.cust # c
    /\ calls < MaxCalls /\ calls' = calls + 1
    /\ res' = [r \in Reservations |-> IF res[r] # None /\ res[r].cust = c THEN [res[r] EXCEPT !.cust = into] ELSE res[r]]
    /\ papers' = (papers \ {c}) \cup (IF c \in papers /\ into # None THEN {into} ELSE {})
    /\ Disturbs("papers", Counting(c))
    /\ UNCHANGED <<agreement, sent, required, odometer, report, req, signed, ungated, overtaken, returned, torn, mixed>>

\* VehicleService.update
SetOdometer ==
  \E v \in Vehicles, km \in Kms :
    /\ calls < MaxCalls /\ calls' = calls + 1
    /\ odometer' = [odometer EXCEPT ![v] = km]
    /\ returned' = [returned EXCEPT ![v] = None]
    /\ torn' = IF Syncing(v) = {} THEN torn ELSE torn \cup {v}
    /\ UNCHANGED <<res, agreement, world, report, req, signed, ungated, overtaken, disturbed, mixed>>

(***************************************************************************)
(* The rental agreement: create, update, sign, voidDraft.                  *)
(***************************************************************************)

\* There is one agreement to a reservation: MaxCalls need not bound these.
AskCreate(t) ==
  \E r \in Reservations :
    /\ res[r] # None /\ agreement[r] = None
    /\ Begin("agreement", t, [Idle EXCEPT !.at = "create", !.res = r, !.text = 1])
    /\ UNCHANGED <<res, agreement, world, odometer, report, history, calls>>

\* reservationId is unique: the second of two inserts fails.
Create(t) ==
  LET r == req[t].res IN
  /\ At(t, "create") /\ Finish(t)
  /\ agreement' = IF agreement[r] # None THEN agreement
                  ELSE [agreement EXCEPT ![r] = [status |-> "DRAFT", text |-> req[t].text]]
  /\ UNCHANGED <<res, world, odometer, report, history, calls>>

\* Mutant: what is read may be signed.
AskWriteUnchecked(t) ==
  \E r \in Reservations, step \in {"edit", "sign", "void"}, x \in Texts \cup {0} :
    /\ (x # 0) = (step = "edit")
    /\ agreement[r] # None /\ agreement[r].status # "VOID"
    /\ Ask("agreement", t, [Idle EXCEPT !.at = step, !.res = r, !.saw = agreement[r].status, !.text = x])
    /\ UNCHANGED <<res, agreement, world, odometer, report, history>>

\* update, sign and voidDraft go on from an agreement that is read as DRAFT.
AskWrite(t) ==
  \E r \in Reservations, step \in {"edit", "sign", "void"}, x \in Texts \cup {0} :
    /\ (x # 0) = (step = "edit")
    /\ agreement[r] # None /\ agreement[r].status = "DRAFT"
    /\ Ask("agreement", t, [Idle EXCEPT !.at = step, !.res = r, !.saw = agreement[r].status, !.text = x])
    /\ UNCHANGED <<res, agreement, world, odometer, report, history>>

\* An unconditional write, late if the agreement has been signed since it was read.
Late(t, r) == IF IsSigned(r) /\ req[t].saw = "DRAFT" THEN overtaken \cup {r} ELSE overtaken

Edit(t) ==
  LET r == req[t].res IN
  /\ At(t, "edit") /\ Finish(t)
  /\ agreement' = [agreement EXCEPT ![r].text = req[t].text]
  /\ overtaken' = Late(t, r)
  /\ UNCHANGED <<res, world, odometer, report, signed, ungated, disturbed, returned, torn, mixed, calls>>

Void(t) ==
  LET r == req[t].res IN
  /\ At(t, "void") /\ Finish(t)
  /\ agreement' = [agreement EXCEPT ![r].status = "VOID"]
  /\ overtaken' = Late(t, r)
  /\ Disturbs("agreement", IF IsSigned(r) THEN {u \in Patching : req[u].res = r} ELSE {})
  /\ UNCHANGED <<res, world, odometer, report, signed, ungated, returned, torn, mixed, calls>>

\* What is signed is the text of now.  The CaRGOS submission is enqueued next: its outcome is ReportSent.
Sign(t) ==
  LET r == req[t].res IN
  /\ At(t, "sign") /\ Finish(t)
  /\ agreement' = [agreement EXCEPT ![r].status = "SIGNED"]
  /\ signed' = [signed EXCEPT ![r] = agreement[r].text]
  /\ UNCHANGED <<res, world, odometer, report, ungated, overtaken, disturbed, returned, torn, mixed, calls>>

(***************************************************************************)
(* PATCH of a reservation: update.                                         *)
(***************************************************************************)

\* computeHandoverGate on what was read, but for the identity documents.
Clear(r, override) ==
  /\ "agreement" \in Demands => IsSigned(r)
  /\ "cargos" \in Demands => ~required \/ r \in sent \/ override = "set" \/ (override = Absent /\ res[r].override)

\* assertReturnCompletionGates
MayReturn(r, km) == "km" \in Demands => (IF km = Absent THEN res[r].km ELSE km) # None

\* Mutant: only a confirmed reservation is asked for its papers.
AskPatchGatedOnce(t) ==
  \E r \in Reservations, b \in Patches :
    /\ res[r] # None
    /\ b.status = "COMPLETED" /\ res[r].status # "COMPLETED" => MayReturn(r, b.km)
    /\ LET gated == b.status = "IN_PROGRESS" /\ res[r].status = "CONFIRMED" IN
       Ask("patch", t, [Idle EXCEPT !.at = IF gated THEN "count" ELSE "write", !.res = r, !.body = b,
                                    !.read = res[r].cust, !.clear = gated /\ Clear(r, b.override)])
    /\ UNCHANGED <<res, agreement, world, odometer, report, history>>

\* The row is read with its agreement, submissions and company.
AskPatch(t) ==
  \E r \in Reservations, b \in Patches :
    /\ res[r] # None
    /\ b.status = "COMPLETED" /\ res[r].status # "COMPLETED" => MayReturn(r, b.km)
    /\ LET gated == b.status = "IN_PROGRESS" /\ res[r].status # "IN_PROGRESS" IN
       Ask("patch", t, [Idle EXCEPT !.at = IF gated THEN "count" ELSE "write", !.res = r, !.body = b,
                                    !.read = res[r].cust, !.clear = gated /\ Clear(r, b.override)])
    /\ UNCHANGED <<res, agreement, world, odometer, report, history>>

\* The identity documents are those of the customer that was read, whoever the
\* body names; HANDOVER_BLOCKED ends the request.
Passes(p) == p.clear /\ ("papers" \in Demands => p.read \in papers)
Count(t) ==
  /\ At(t, "count")
  /\ IF Passes(req[t])
     THEN Go(t, [req[t] EXCEPT !.at = "write", !.clear = FALSE]) /\ UNCHANGED disturbed
     ELSE Finish(t) /\ disturbed' = disturbed \ {t}
  /\ UNCHANGED <<res, agreement, world, odometer, report, signed, ungated, overtaken, returned, torn, mixed, calls>>

\* What the body leaves out stays.
Patched(row, b) ==
  [status |-> IF b.status = Absent THEN row.status ELSE b.status,
   override |-> IF b.override = Absent THEN row.override ELSE b.override = "set",
   km |-> IF b.km = Absent THEN row.km ELSE b.km,
   cust |-> IF b.cust = Absent THEN row.cust ELSE b.cust,
   vehicle |-> IF b.vehicle = Absent THEN row.vehicle ELSE b.vehicle]

\* A row whose reading its vehicle has to show.
Reads(row) == row.status = "COMPLETED" /\ row.km # None

\* Mutant: the odometer is taken by the PATCH that completes, not by a correction.
SyncsOnCompletion(b, new) == b.status = "COMPLETED" /\ new.km # None

\* odometerSyncFromUpdated and syncVehicleOdometerIfCompleted
Syncs(b, new) == Reads(new)

\* A condition of the hand-over of r goes with this write, for those who have read it.
Spoils(row, new) ==
  \/ (row.status = "IN_PROGRESS") # (new.status = "IN_PROGRESS")
  \/ "cargos" \in Demands /\ row.override /\ ~new.override
  \/ "papers" \in Demands /\ row.cust # new.cust

\* What is left to do when the row is written.
ToSync(r, row) == [Idle EXCEPT !.at = "sync", !.res = r, !.body = [Empty EXCEPT !.km = row.km, !.vehicle = row.vehicle]]

\* A PATCH that touches the extra lines writes and syncs in one transaction,
\* any other in two statements.
Write(t) ==
  LET r == req[t].res  b == req[t].body  new == Patched(res[r], b)  v == new.vehicle IN
  /\ At(t, "write")
  /\ res' = [res EXCEPT ![r] = new]
  /\ \/ Syncs(b, new) /\ Go(t, ToSync(r, new)) /\ UNCHANGED odometer
     \/ Syncs(b, new) /\ Finish(t) /\ odometer' = [odometer EXCEPT ![v] = new.km]
     \/ ~Syncs(b, new) /\ Finish(t) /\ UNCHANGED odometer
  /\ returned' = IF Reads(new) THEN [returned EXCEPT ![v] = r] ELSE returned
  /\ torn' = IF Reads(new) /\ Syncing(v) # {} THEN torn \cup {v} ELSE torn
  /\ disturbed' = (IF Spoils(res[r], new) THEN disturbed \cup {u \in Patching : req[u].res = r} ELSE disturbed) \ {t}
  /\ UNCHANGED <<agreement, world, report, signed, ungated, overtaken, mixed, calls>>

Sync(t) ==
  /\ At(t, "sync") /\ Finish(t)
  /\ odometer' = [odometer EXCEPT ![req[t].body.vehicle] = req[t].body.km]
  /\ UNCHANGED <<res, agreement, world, report, history, calls>>

\* The request dies, or the vehicle's update fails, and the row is written already.
SyncFails(t) ==
  /\ At(t, "sync") /\ Finish(t) /\ torn' = torn \cup {req[t].body.vehicle}
  /\ UNCHANGED <<res, agreement, world, odometer, report, signed, ungated, overtaken, disturbed, returned, mixed, calls>>

(***************************************************************************)
(* putDamage                                                               *)
(***************************************************************************)

AskPut(t) ==
  \E r \in Reservations :
    /\ res[r] # None
    /\ Ask("damage", t, [Idle EXCEPT !.at = IF report[r] = None THEN "file" ELSE "replace", !.res = r])
    /\ UNCHANGED <<res, agreement, world, odometer, report, history>>

\* reservationId is unique: the second of two reports fails.
File(t) ==
  LET r == req[t].res IN
  /\ At(t, "file") /\ Finish(t)
  /\ report' = IF report[r] # None THEN report ELSE [report EXCEPT ![r] = [by |-> t, lines |-> {t}]]
  /\ UNCHANGED <<res, agreement, world, odometer, history, calls>>

\* The transaction deletes the lines it sees; those of another one that is not
\* committed it does not see.
Replace(t) ==
  LET r == req[t].res IN
  /\ At(t, "replace")
  /\ Go(t, [req[t] EXCEPT !.at = "commit", !.lines = report[r].lines])
  /\ mixed' = IF \E u \in Requests : At(u, "commit") /\ req[u].res = r THEN mixed \cup {r} ELSE mixed
  /\ UNCHANGED <<res, agreement, world, odometer, report, signed, ungated, overtaken, disturbed, returned, torn, calls>>

\* Mutant: the new lines are added to the old.
CommitAppends(t) ==
  LET r == req[t].res IN
  /\ At(t, "commit") /\ Finish(t)
  /\ report' = [report EXCEPT ![r] = [by |-> t, lines |-> report[r].lines \cup {t}]]
  /\ UNCHANGED <<res, agreement, world, odometer, history, calls>>

Commit(t) ==
  LET r == req[t].res IN
  /\ At(t, "commit") /\ Finish(t)
  /\ report' = [report EXCEPT ![r] = [by |-> t, lines |-> (report[r].lines \ req[t].lines) \cup {t}]]
  /\ UNCHANGED <<res, agreement, world, odometer, history, calls>>

Next ==
  \/ CreateReservation \/ ReportSent \/ ChangePolicy \/ ChangePapers \/ DropCustomer \/ SetOdometer
  \/ \E t \in Requests :
       \/ AskCreate(t) \/ Create(t) \/ AskWrite(t) \/ Edit(t) \/ Void(t) \/ Sign(t)
       \/ AskPatch(t) \/ Count(t) \/ Write(t) \/ Sync(t) \/ SyncFails(t)
       \/ AskPut(t) \/ File(t) \/ Replace(t) \/ Commit(t)

Spec == Init /\ [][Next]_vars

-----------------------------------------------------------------------------
(***************************************************************************)
(* Properties.                                                             *)
(***************************************************************************)

Request == [at : {"idle", "create", "edit", "sign", "void", "count", "write", "sync", "file", "replace", "commit"},
            res : Reservations \cup {None}, saw : {"DRAFT", "SIGNED"}, text : Texts \cup {0}, body : Body,
            read : Customers \cup {None}, clear : BOOLEAN, lines : SUBSET Requests]

\* Every variable keeps its shape.
TypeOK ==
  /\ res \in [Reservations -> Reservation \cup {None}]
  /\ agreement \in [Reservations -> Agreement \cup {None}]
  /\ sent \subseteq Reservations /\ required \in BOOLEAN /\ papers \subseteq Customers
  /\ odometer \in [Vehicles -> Kms]
  /\ report \in [Reservations -> Report \cup {None}]
  /\ req \in [Requests -> Request]
  /\ signed \in [Reservations -> Texts \cup {0}] /\ ungated \subseteq Reservations
  /\ overtaken \subseteq Reservations /\ mixed \subseteq Reservations
  /\ disturbed \subseteq Requests
  /\ returned \in [Vehicles -> Reservations \cup {None}] /\ torn \subseteq Vehicles
  /\ calls \in 0..MaxCalls

\* Once signed, an agreement stays signed and its text the one that was signed,
\* unless an edit or a void that had read it as DRAFT was written after it.
SignedIsFrozen ==
  \A r \in Reservations : signed[r] # 0 =>
    (IsSigned(r) /\ agreement[r].text = signed[r]) \/ r \in overtaken

Underway(r) == res[r] # None /\ res[r].status = "IN_PROGRESS"

\* With the agreement demanded, nobody drives off without one that was signed,
\* whatever PATCHes, voids and edits overlap: only a reservation created as
\* IN_PROGRESS goes past the gate.
HandedOverSigned ==
  "agreement" \in Demands => \A r \in Reservations : Underway(r) => signed[r] # 0 \/ r \in ungated

\* When a PATCH makes a reservation IN_PROGRESS all that is demanded is so: its
\* agreement is signed, the rental is reported, excused or overridden, and its
\* customer has the identity documents, unless the same PATCH names another
\* customer, or something was taken away while it was on its way.
HandoverIsReady ==
  [][\A t \in Requests, r \in Reservations :
       At(t, "write") /\ req'[t].at # "write" /\ req[t].res = r
         /\ res[r].status # "IN_PROGRESS" /\ res'[r].status = "IN_PROGRESS" =>
         \/ /\ "agreement" \in Demands => IsSigned(r)
            /\ "cargos" \in Demands => ~required \/ r \in sent \/ res'[r].override
            /\ "papers" \in Demands => res'[r].cust \in papers \/ req[t].body.cust \notin {Absent, req[t].read}
         \/ t \in disturbed]_vars

\* The rental whose reading v took last is still its own, returned, with a reading.
Stands(v) == returned[v] # None /\ Reads(res[returned[v]]) /\ res[returned[v]].vehicle = v

\* A vehicle shows the reading of the rental it was last to take one from, as
\* long as that rental stands and the fleet desk has not set another, unless two
\* readings of the vehicle overlapped or one died between its two writes.
OdometerFollows ==
  \A v \in Vehicles : Stands(v) /\ v \notin torn /\ Syncing(v) = {} => odometer[v] = res[returned[v]].km

\* The lines of a damage report are those of the last put, never some of
\* several, unless two puts ran at the same time.
LinesAreOnePut ==
  \A r \in Reservations : report[r] # None => report[r].lines = {report[r].by} \/ r \in mixed

-----------------------------------------------------------------------------
(***************************************************************************)
(* The inductive invariant, in four parts.                                 *)
(***************************************************************************)

\* A request knows its reservation, which is there.
Placed == \A t \in Requests : ~At(t, "idle") => req[t].res \in Reservations /\ res[req[t].res] # None

\* Who writes to an agreement has read a draft, and agreements stay.
Drafting(p) ==
  /\ p.at \in {"edit", "sign", "void"} => agreement[p.res] # None /\ p.saw = "DRAFT"
  /\ p.at \in {"create", "edit"} => p.text # 0

AgreementInv ==
  /\ \A t \in Requests : Drafting(req[t])
  /\ \A r \in Reservations : agreement[r] # None => res[r] # None
  /\ \A r \in Reservations : IsSigned(r) => signed[r] # 0
  /\ SignedIsFrozen

\* A PATCH that still hands over.
HandsOver(p) == p.body.status = "IN_PROGRESS" /\ (p.at = "write" \/ (p.at = "count" /\ p.clear))

\* All that a PATCH has checked is still so.
Ready(p) ==
  /\ "agreement" \in Demands => IsSigned(p.res)
  /\ "cargos" \in Demands =>
       ~required \/ p.res \in sent \/ p.body.override = "set" \/ (p.body.override = Absent /\ res[p.res].override)
  /\ "papers" \in Demands => /\ p.at = "write" => p.read \in papers
                             /\ res[p.res].cust = p.read

Checked(t) ==
  HandsOver(req[t]) =>
    /\ "agreement" \in Demands => signed[req[t].res] # 0 \/ req[t].res \in ungated
    /\ Ready(req[t]) \/ t \in disturbed \/ Underway(req[t].res)

PatchInv == HandedOverSigned /\ \A t \in Requests : Checked(t)

\* Until two readings of a vehicle overlap, one request at most is to sync it, and
\* what it will write is what its reservation says.
OdometerInv ==
  /\ \A v \in Vehicles : returned[v] # None => res[returned[v]] # None
  /\ \A t \in Requests : At(t, "sync") => req[t].body.vehicle \in Vehicles /\ req[t].body.km \in Kms
  /\ \A t, u \in Requests : At(t, "sync") /\ At(u, "sync") /\ req[t].body.vehicle = req[u].body.vehicle =>
       t = u \/ req[t].body.vehicle \in torn
  /\ \A v \in Vehicles \ torn : \A t \in Syncing(v) : Stands(v) => req[t].body.km = res[returned[v]].km
  /\ OdometerFollows

\* Until two puts overlap, one at most is to commit, and it has seen all lines.
LinesInv ==
  /\ \A t \in Requests : req[t].at \in {"replace", "commit"} => report[req[t].res] # None
  /\ \A t \in Requests : At(t, "commit") /\ req[t].res \notin mixed =>
       /\ req[t].lines = report[req[t].res].lines
       /\ \A u \in Requests : At(u, "commit") /\ req[u].res = req[t].res => t = u
  /\ LinesAreOnePut

HandoverInv == TypeOK /\ Placed /\ AgreementInv /\ PatchInv /\ OdometerInv /\ LinesInv

-----------------------------------------------------------------------------
(***************************************************************************)
(* Requests one after the other; the world outside moves at any time.      *)
(***************************************************************************)

\* No request begins while another is under way.
OneAtATime == \A t, u \in Requests : ~At(t, "idle") /\ ~At(u, "idle") => t = u

\* Between a write and its sync the API lives, the vehicle stays, and the fleet
\* desk does not set its odometer.
Disturbance == (\E t \in Requests : SyncFails(t)) \/ (SetOdometer /\ \E t \in Requests : At(t, "sync"))
SyncUndisturbed == [][~Disturbance]_vars

\* Once signed, an agreement stays signed, and its text the one that was signed.
SignedStays == \A r \in Reservations : signed[r] # 0 => IsSigned(r) /\ agreement[r].text = signed[r]

\* The lines of a damage report are those of the last put.
LinesStayWhole == \A r \in Reservations : report[r] # None => report[r].lines = {report[r].by}

\* A vehicle shows the reading of the rental it was last to take one from, as
\* long as that rental stands and the fleet desk has not set another.
OdometerShows ==
  \A v \in Vehicles : Stands(v) /\ Syncing(v) = {} => odometer[v] = res[returned[v]].km

\* What an edit or a void has read as DRAFT still is.
SerialInv ==
  /\ overtaken = {} /\ mixed = {}
  /\ \A t \in Requests : req[t].at \in {"edit", "void"} => agreement[req[t].res].status = "DRAFT"
=============================================================================
