--------------------------- MODULE HandoverDeskProofs ---------------------------
(***************************************************************************)
(* Proofs about HandoverDesk: the four parts of the inductive invariant,   *)
(* each preserved by every step, and the safety properties.                *)
(***************************************************************************)
EXTENDS HandoverDesk, TLAPS

\* What a request of the table does.
RequestDoes(t) ==
  \/ AskCreate(t) \/ Create(t) \/ AskWrite(t) \/ Edit(t) \/ Void(t) \/ Sign(t)
  \/ AskPatch(t) \/ Count(t) \/ Write(t) \/ Sync(t) \/ SyncFails(t)
  \/ AskPut(t) \/ File(t) \/ Replace(t) \/ Commit(t)

Elsewhere == CreateReservation \/ ReportSent \/ ChangePolicy \/ ChangePapers \/ DropCustomer \/ SetOdometer

LEMMA NextSplit == Next <=> Elsewhere \/ \E t \in Requests : RequestDoes(t)
BY DEF Next, Elsewhere, RequestDoes

LEMMA EmptyFields == Empty \in Body
BY DEF Empty, Body

LEMMA IdleFields ==
  Idle \in Request /\ Idle.at = "idle" /\ Idle.body = Empty
BY EmptyFields, HandoverAssumption DEF Idle, Request, Texts

\* What a step of request t leaves alone.
LEMMA GoFields ==
  ASSUME TypeOK, NEW t \in Requests, NEW next \in Request, Go(t, next)
  PROVE  /\ req' \in [Requests -> Request] /\ req'[t] = next
         /\ \A u \in Requests \ {t} : req'[u] = req[u]
BY DEF Go, TypeOK

\* A request that asks, and where it goes.
LEMMA AskFields ==
  ASSUME TypeOK, NEW t \in Requests, NEW next \in Request, NEW op, Ask(op, t, next)
  PROVE  /\ req' \in [Requests -> Request] /\ req[t].at = "idle" /\ req'[t] = next
         /\ \A u \in Requests \ {t} : req'[u] = req[u]
         /\ calls' \in 0..MaxCalls
<1>1. req' \in [Requests -> Request] /\ req'[t] = next /\ \A u \in Requests \ {t} : req'[u] = req[u]
  BY GoFields DEF Ask, Begin
<1>. QED BY <1>1, HandoverAssumption DEF Ask, Begin, TypeOK, At

LEMMA FinishFields ==
  ASSUME TypeOK, NEW t \in Requests, Finish(t)
  PROVE  /\ req' \in [Requests -> Request] /\ req'[t] = Idle /\ req'[t].at = "idle"
         /\ \A u \in Requests \ {t} : req'[u] = req[u]
BY IdleFields DEF Finish, Go, TypeOK

-----------------------------------------------------------------------------
(***************************************************************************)
(* The requests.                                                           *)
(***************************************************************************)

LEMMA AskCreateFields ==
  ASSUME TypeOK, NEW t \in Requests, AskCreate(t)
  PROVE  \E r \in Reservations :
           /\ req' \in [Requests -> Request] /\ req[t].at = "idle" /\ calls' \in 0..MaxCalls
           /\ req'[t].at = "create" /\ req'[t].res = r /\ req'[t].text = 1 /\ res[r] # None
           /\ \A u \in Requests \ {t} : req'[u] = req[u]
<1>1. PICK r \in Reservations :
        /\ res[r] # None /\ calls' = calls
        /\ Begin("agreement", t, [Idle EXCEPT !.at = "create", !.res = r, !.text = 1])
  BY DEF AskCreate
<1>2. PICK next : next = [Idle EXCEPT !.at = "create", !.res = r, !.text = 1]
  OBVIOUS
<1>3. next \in Request /\ next.at = "create" /\ next.res = r /\ next.text = 1
  <2>1. next = [at |-> "create", res |-> r, saw |-> "DRAFT", text |-> 1, body |-> Empty, read |-> None,
                clear |-> FALSE, lines |-> {}]
    BY <1>2 DEF Idle
  <2>. QED BY <2>1, EmptyFields DEF Request, Texts
<1>4. Go(t, next) /\ req[t].at = "idle"
  BY <1>1, <1>2 DEF Begin, Go, At
<1>5. req' \in [Requests -> Request] /\ req'[t] = next /\ \A u \in Requests \ {t} : req'[u] = req[u]
  BY <1>3, <1>4, GoFields
<1>. QED BY <1>1, <1>3, <1>4, <1>5 DEF TypeOK

LEMMA AskWriteFields ==
  ASSUME TypeOK, Placed, AgreementInv, NEW t \in Requests, AskWrite(t)
  PROVE  \E r \in Reservations :
           /\ req' \in [Requests -> Request] /\ req[t].at = "idle" /\ calls' \in 0..MaxCalls
           /\ req'[t].at \in {"edit", "sign", "void"} /\ req'[t].res = r /\ req'[t].saw = "DRAFT"
           /\ req'[t].at = "edit" => req'[t].text # 0
           /\ agreement[r] # None /\ res[r] # None
           /\ \A u \in Requests \ {t} : req'[u] = req[u]
<1>1. PICK r \in Reservations, step \in {"edit", "sign", "void"}, x \in Texts \cup {0} :
        /\ (x # 0) = (step = "edit") /\ agreement[r] # None /\ agreement[r].status = "DRAFT"
        /\ Ask("agreement", t, [Idle EXCEPT !.at = step, !.res = r, !.saw = agreement[r].status, !.text = x])
  BY DEF AskWrite
<1>2. PICK next : next = [Idle EXCEPT !.at = step, !.res = r, !.saw = "DRAFT", !.text = x]
  OBVIOUS
<1>3. next \in Request /\ next.at = step /\ next.res = r /\ next.text = x /\ next.saw = "DRAFT"
  <2>1. next = [at |-> step, res |-> r, saw |-> "DRAFT", text |-> x, body |-> Empty, read |-> None,
                clear |-> FALSE, lines |-> {}]
    BY <1>2 DEF Idle
  <2>. QED BY <2>1, EmptyFields DEF Request
<1>4. Ask("agreement", t, next)
  BY <1>1, <1>2 DEF Ask, Begin, Go
<1>5. res[r] # None
  BY <1>1 DEF AgreementInv
<1>. QED BY <1>1, <1>3, <1>4, <1>5, AskFields

LEMMA AskPutFields ==
  ASSUME TypeOK, NEW t \in Requests, AskPut(t)
  PROVE  \E r \in Reservations :
           /\ req' \in [Requests -> Request] /\ req[t].at = "idle" /\ calls' \in 0..MaxCalls
           /\ req'[t].at \in {"file", "replace"} /\ req'[t].res = r /\ res[r] # None
           /\ req'[t].at = "replace" => report[r] # None
           /\ \A u \in Requests \ {t} : req'[u] = req[u]
<1>1. PICK r \in Reservations :
        /\ res[r] # None
        /\ Ask("damage", t, [Idle EXCEPT !.at = IF report[r] = None THEN "file" ELSE "replace", !.res = r])
  BY DEF AskPut
<1>2. PICK next : next = [Idle EXCEPT !.at = IF report[r] = None THEN "file" ELSE "replace", !.res = r]
  OBVIOUS
<1>3. next \in Request /\ next.at = (IF report[r] = None THEN "file" ELSE "replace") /\ next.res = r
  <2>1. next = [at |-> IF report[r] = None THEN "file" ELSE "replace", res |-> r, saw |-> "DRAFT", text |-> 0,
                body |-> Empty, read |-> None, clear |-> FALSE, lines |-> {}]
    BY <1>2 DEF Idle
  <2>. QED BY <2>1, EmptyFields DEF Request
<1>4. Ask("damage", t, next)
  BY <1>1, <1>2 DEF Ask, Begin, Go
<1>. QED BY <1>1, <1>3, <1>4, AskFields

\* A PATCH that hands over a reservation not handed over yet goes through its
\* gates; the others go on to the write.
LEMMA AskPatchFields ==
  ASSUME TypeOK, NEW t \in Requests, AskPatch(t)
  PROVE  \E r \in Reservations :
           /\ req' \in [Requests -> Request] /\ req[t].at = "idle" /\ calls' \in 0..MaxCalls
           /\ req'[t].at \in {"count", "write"} /\ req'[t].res = r /\ res[r] # None
           /\ req'[t].body.status = "IN_PROGRESS" => req'[t].read = res[r].cust
           /\ req'[t].at = "count" => (req'[t].clear <=> Clear(r, req'[t].body.override))
           /\ req'[t].at = "write" => req'[t].body.status # "IN_PROGRESS" \/ res[r].status = "IN_PROGRESS"
           /\ \A u \in Requests \ {t} : req'[u] = req[u]
<1>1. PICK r \in Reservations, b \in Patches :
        /\ res[r] # None
        /\ b.status = "COMPLETED" /\ res[r].status # "COMPLETED" => MayReturn(r, b.km)
        /\ LET gated == b.status = "IN_PROGRESS" /\ res[r].status # "IN_PROGRESS" IN
           Ask("patch", t, [Idle EXCEPT !.at = IF gated THEN "count" ELSE "write", !.res = r, !.body = b,
                                        !.read = res[r].cust, !.clear = gated /\ Clear(r, b.override)])
        /\ UNCHANGED <<res, agreement, world, odometer, report, history>>
  BY DEF AskPatch
<1>2. PICK hands \in BOOLEAN : hands = (b.status = "IN_PROGRESS" /\ res[r].status # "IN_PROGRESS")
  OBVIOUS
<1>3. PICK clear \in BOOLEAN : clear = (hands /\ Clear(r, b.override))
  BY DEF Clear
<1>4. PICK next : next = [Idle EXCEPT !.at = IF hands THEN "count" ELSE "write", !.res = r, !.body = b,
                                      !.read = res[r].cust, !.clear = clear]
  OBVIOUS
<1>5. /\ next \in Request /\ next.at = (IF hands THEN "count" ELSE "write") /\ next.res = r
      /\ next.body = b /\ next.read = res[r].cust /\ next.clear = clear
  <2>1. next = [at |-> IF hands THEN "count" ELSE "write", res |-> r, saw |-> "DRAFT", text |-> 0, body |-> b,
                read |-> res[r].cust, clear |-> clear, lines |-> {}]
    BY <1>4 DEF Idle
  <2>2. b \in Body /\ res[r].cust \in Customers \cup {None}
    BY <1>1, PatchesAssumption DEF TypeOK, Reservation
  <2>. QED BY <2>1, <2>2 DEF Request
<1>6. Ask("patch", t, next)
  BY <1>1, <1>2, <1>3, <1>4 DEF Ask, Begin, Go
<1>. QED BY <1>1, <1>2, <1>3, <1>5, <1>6, AskFields

-----------------------------------------------------------------------------
(***************************************************************************)
(* The types.                                                              *)
(***************************************************************************)

\* What a PATCH writes is a reservation.
LEMMA PatchedFields ==
  ASSUME NEW row \in Reservation, NEW b \in Body
  PROVE  Patched(row, b) \in Reservation
<1>1. /\ row.status \in Statuses /\ row.override \in BOOLEAN /\ row.km \in Kms \cup {None}
      /\ row.cust \in Customers \cup {None} /\ row.vehicle \in Vehicles
  BY DEF Reservation
<1>2. /\ b.status \in Statuses \cup {Absent} /\ b.km \in Kms \cup {None, Absent}
      /\ b.cust \in Customers \cup {None, Absent} /\ b.vehicle \in Vehicles \cup {Absent}
  BY DEF Body
<1>3. PICK o \in BOOLEAN : o = (IF b.override = Absent THEN row.override ELSE b.override = "set")
  BY <1>1
<1>. QED BY <1>1, <1>2, <1>3 DEF Patched, Reservation

LEMMA RequestFields ==
  ASSUME TypeOK, Placed, NEW t \in Requests, ~At(t, "idle")
  PROVE  /\ req[t] \in Request /\ req[t].res \in Reservations /\ req[t].body \in Body
         /\ res[req[t].res] \in Reservation
<1>1. req[t] \in Request /\ req[t].res \in Reservations /\ res[req[t].res] # None
  BY DEF TypeOK, Placed
<1>. QED BY <1>1 DEF TypeOK, Request

\* The rows after a customer has gone are reservations where they were.
LEMMA DropFields ==
  ASSUME TypeOK, NEW c \in Customers, NEW into \in Customers \cup {None},
         res' = [r \in Reservations |-> IF res[r] # None /\ res[r].cust = c THEN [res[r] EXCEPT !.cust = into] ELSE res[r]]
  PROVE  /\ res' \in [Reservations -> Reservation \cup {None}]
         /\ \A r \in Reservations :
              /\ res[r] = None => res'[r] = None
              /\ res[r] # None =>
                   /\ res'[r] # None /\ res'[r].status = res[r].status /\ res'[r].override = res[r].override
                   /\ res'[r].km = res[r].km /\ res'[r].vehicle = res[r].vehicle
                   /\ res[r].cust # c => res'[r].cust = res[r].cust
<1>1. ASSUME NEW row \in Reservation
      PROVE  LET new == [row EXCEPT !.cust = into] IN
             /\ new \in Reservation /\ new.status = row.status /\ new.override = row.override
             /\ new.km = row.km /\ new.vehicle = row.vehicle
  BY DEF Reservation
<1>2. ASSUME NEW r \in Reservations
      PROVE  /\ res'[r] \in Reservation \cup {None}
             /\ res[r] = None => res'[r] = None
             /\ res[r] # None =>
                  /\ res'[r] # None /\ res'[r].status = res[r].status /\ res'[r].override = res[r].override
                  /\ res'[r].km = res[r].km /\ res'[r].vehicle = res[r].vehicle
                  /\ res[r].cust # c => res'[r].cust = res[r].cust
  <2>1. CASE res[r] # None /\ res[r].cust = c
    <3>1. res[r] \in Reservation
      BY <2>1 DEF TypeOK
    <3>2. res'[r] = [res[r] EXCEPT !.cust = into]
      BY <2>1
    <3>. QED BY <2>1, <3>1, <3>2, <1>1, NoneAssumption
  <2>2. CASE ~(res[r] # None /\ res[r].cust = c)
    <3>1. res'[r] = res[r]
      BY <2>2
    <3>. QED BY <3>1, <2>2 DEF TypeOK
  <2>. QED BY <2>1, <2>2
<1>. QED BY <1>2

LEMMA CreatedFields ==
  ASSUME TypeOK, CreateReservation
  PROVE  \E r \in Reservations, new \in Reservation :
           /\ res[r] = None /\ res'[r] = new /\ \A x \in Reservations \ {r} : res'[x] = res[x]
           /\ res' \in [Reservations -> Reservation \cup {None}]
           /\ new.km = None /\ new # None
           /\ ungated' = IF new.status = "IN_PROGRESS" THEN ungated \cup {r} ELSE ungated
<1>1. PICK r \in Reservations, status \in Statuses, c \in Customers \cup {None}, v \in Vehicles :
        /\ res[r] = None
        /\ res' = [res EXCEPT ![r] = [status |-> status, override |-> FALSE, km |-> None, cust |-> c, vehicle |-> v]]
        /\ ungated' = IF status = "IN_PROGRESS" THEN ungated \cup {r} ELSE ungated
  BY DEF CreateReservation
<1>2. PICK o \in BOOLEAN : o = FALSE
  OBVIOUS
<1>3. PICK new \in Reservation : new = [status |-> status, override |-> o, km |-> None, cust |-> c, vehicle |-> v]
  BY DEF Reservation
<1>4. new.status = status /\ new.km = None /\ new # None
  BY <1>3, NoneAssumption
<1>5. res' = [res EXCEPT ![r] = new]
  BY <1>1, <1>2, <1>3
<1>6. /\ res'[r] = new /\ \A x \in Reservations \ {r} : res'[x] = res[x]
      /\ res' \in [Reservations -> Reservation \cup {None}]
  BY <1>5 DEF TypeOK
<1>7. ungated' = IF new.status = "IN_PROGRESS" THEN ungated \cup {r} ELSE ungated
  BY <1>1, <1>4
<1>. QED BY <1>1, <1>4, <1>6, <1>7

LEMMA TypeElsewhere == TypeOK /\ Elsewhere => TypeOK'
<1>. SUFFICES ASSUME TypeOK, Elsewhere PROVE TypeOK'
  OBVIOUS
<1>1. Patching \subseteq Requests /\ \A c : Counting(c) \subseteq Requests
  BY DEF Patching, Counting
<1>2. CASE ReportSent
  BY <1>2 DEF TypeOK, ReportSent, history
<1>3. CASE ChangePolicy
  BY <1>1, <1>3 DEF TypeOK, ChangePolicy, Disturbs
<1>4. CASE ChangePapers
  BY <1>1, <1>4 DEF TypeOK, ChangePapers, Disturbs
<1>5. CASE CreateReservation
  <2>1. res' \in [Reservations -> Reservation \cup {None}] /\ ungated' \subseteq Reservations
    BY <1>5, CreatedFields DEF TypeOK
  <2>2. UNCHANGED <<agreement, sent, required, papers, odometer, report, req, signed, overtaken, disturbed, returned, torn, mixed, calls>>
    BY <1>5 DEF CreateReservation, world
  <2>. QED BY <2>1, <2>2 DEF TypeOK
<1>6. CASE DropCustomer
  <2>1. PICK c \in Customers, into \in Customers \cup {None} :
          /\ res' = [r \in Reservations |-> IF res[r] # None /\ res[r].cust = c THEN [res[r] EXCEPT !.cust = into] ELSE res[r]]
          /\ papers' = (papers \ {c}) \cup (IF c \in papers /\ into # None THEN {into} ELSE {})
          /\ Disturbs("papers", Counting(c)) /\ calls < MaxCalls /\ calls' = calls + 1
    BY <1>6 DEF DropCustomer
  <2>2. res' \in [Reservations -> Reservation \cup {None}]
    BY <2>1, DropFields
  <2>3. papers' \subseteq Customers
    BY <2>1 DEF TypeOK
  <2>4. disturbed' \subseteq Requests
    BY <1>1, <2>1 DEF TypeOK, Disturbs
  <2>5. calls' \in 0..MaxCalls
    BY <2>1, HandoverAssumption DEF TypeOK
  <2>6. UNCHANGED <<agreement, sent, required, odometer, report, req, signed, ungated, overtaken, returned, torn, mixed>>
    BY <1>6 DEF DropCustomer
  <2>. QED BY <2>2, <2>3, <2>4, <2>5, <2>6 DEF TypeOK
<1>7. CASE SetOdometer
  <2>1. odometer' \in [Vehicles -> Kms] /\ returned' \in [Vehicles -> Reservations \cup {None}] /\ torn' \subseteq Vehicles
    BY <1>7 DEF SetOdometer, TypeOK
  <2>2. calls' \in 0..MaxCalls
    BY <1>7, HandoverAssumption DEF SetOdometer, TypeOK
  <2>3. UNCHANGED <<res, agreement, sent, required, papers, report, req, signed, ungated, overtaken, disturbed, mixed>>
    BY <1>7 DEF SetOdometer, world
  <2>. QED BY <2>1, <2>2, <2>3 DEF TypeOK
<1>. QED BY <1>2, <1>3, <1>4, <1>5, <1>6, <1>7 DEF Elsewhere

LEMMA TypeAsks ==
  ASSUME TypeOK, Placed, AgreementInv, NEW t \in Requests, AskCreate(t) \/ AskWrite(t) \/ AskPatch(t) \/ AskPut(t)
  PROVE  TypeOK'
<1>1. UNCHANGED <<res, agreement, world, odometer, report, history>>
  BY DEF AskCreate, AskWrite, AskPatch, AskPut
<1>2. req' \in [Requests -> Request] /\ calls' \in 0..MaxCalls
  BY AskCreateFields, AskWriteFields, AskPatchFields, AskPutFields
<1>. QED BY <1>1, <1>2 DEF TypeOK, world, history

LEMMA TypeAgreement ==
  ASSUME TypeOK, Placed, NEW t \in Requests, Create(t) \/ Edit(t) \/ Void(t) \/ Sign(t), Drafting(req[t])
  PROVE  TypeOK'
<1>1. UNCHANGED <<res, sent, required, papers, odometer, report, ungated, returned, torn, mixed, calls>>
  BY DEF Create, Edit, Void, Sign, world, history
<1>2. req' \in [Requests -> Request]
  BY FinishFields DEF Create, Edit, Void, Sign
<1>3. req[t] \in Request /\ req[t].res \in Reservations
  BY RequestFields DEF Create, Edit, Void, Sign, At
<1>4. Patching \subseteq Requests
  BY DEF Patching
<1>5. PICK r \in Reservations : r = req[t].res
  BY <1>3
<1>6. CASE Create(t)
  <2>1. req[t].text \in Texts
    BY <1>3, <1>6 DEF Create, Drafting, Request, At
  <2>2. [status |-> "DRAFT", text |-> req[t].text] \in Agreement
    BY <2>1 DEF Agreement
  <2>3. agreement' \in [Reservations -> Agreement \cup {None}]
    BY <1>5, <1>6, <2>2 DEF Create, TypeOK
  <2>4. UNCHANGED <<signed, overtaken, disturbed>>
    BY <1>6 DEF Create, history
  <2>. QED BY <1>1, <1>2, <2>3, <2>4 DEF TypeOK
<1>7. CASE Edit(t) \/ Void(t) \/ Sign(t)
  <2>1. agreement[r] \in Agreement
    BY <1>5, <1>7 DEF Edit, Void, Sign, Drafting, At, TypeOK
  <2>2. agreement' \in [Reservations -> Agreement \cup {None}]
    <3>1. CASE Edit(t)
      <4>1. req[t].text \in Texts
        BY <1>3, <3>1 DEF Edit, Drafting, Request, At
      <4>2. [agreement[r] EXCEPT !.text = req[t].text] \in Agreement
        BY <2>1, <4>1 DEF Agreement
      <4>. QED BY <1>5, <3>1, <2>1, <4>1, <4>2 DEF Edit, TypeOK
    <3>2. CASE Void(t)
      <4>1. [agreement[r] EXCEPT !.status = "VOID"] \in Agreement
        BY <2>1 DEF Agreement
      <4>. QED BY <1>5, <3>2, <4>1 DEF Void, TypeOK
    <3>3. CASE Sign(t)
      <4>1. [agreement[r] EXCEPT !.status = "SIGNED"] \in Agreement
        BY <2>1 DEF Agreement
      <4>. QED BY <1>5, <3>3, <4>1 DEF Sign, TypeOK
    <3>. QED BY <1>7, <3>1, <3>2, <3>3
  <2>3. signed' \in [Reservations -> Texts \cup {0}]
    BY <1>5, <1>7, <2>1 DEF Edit, Void, Sign, TypeOK, Agreement
  <2>4. overtaken' \subseteq Reservations /\ disturbed' \subseteq Requests
    BY <1>4, <1>5, <1>7 DEF Edit, Void, Sign, Late, Disturbs, TypeOK
  <2>. QED BY <1>1, <1>2, <2>2, <2>3, <2>4 DEF TypeOK
<1>. QED BY <1>6, <1>7

\* What a write puts in place.
LEMMA WrittenFields ==
  ASSUME TypeOK, Placed, NEW t \in Requests, Write(t)
  PROVE  \E r \in Reservations, new \in Reservation :
           /\ r = req[t].res /\ new = Patched(res[r], req[t].body) /\ res[r] \in Reservation
           /\ res' = [res EXCEPT ![r] = new] /\ res'[r] = new /\ \A x \in Reservations \ {r} : res'[x] = res[x]
           /\ new # None /\ new.vehicle \in Vehicles /\ new.km \in Kms \cup {None}
<1>1. req[t].res \in Reservations /\ req[t].body \in Body /\ res[req[t].res] \in Reservation
  BY RequestFields DEF Write, At
<1>2. PICK r \in Reservations, new \in Reservation : r = req[t].res /\ new = Patched(res[r], req[t].body)
  BY <1>1, PatchedFields
<1>3. res' = [res EXCEPT ![r] = new]
  BY <1>2 DEF Write
<1>4. res'[r] = new /\ \A x \in Reservations \ {r} : res'[x] = res[x]
  BY <1>3 DEF TypeOK
<1>5. new # None /\ new.vehicle \in Vehicles /\ new.km \in Kms \cup {None}
  BY NoneAssumption DEF Reservation
<1>. QED BY <1>1, <1>2, <1>3, <1>4, <1>5

\* What is left to a request that has written a reading.
LEMMA SyncerFields ==
  ASSUME NEW r \in Reservations, NEW row, row.km \in Kms, row.vehicle \in Vehicles
  PROVE  /\ ToSync(r, row) \in Request /\ ToSync(r, row).at = "sync" /\ ToSync(r, row).res = r
         /\ ToSync(r, row).body.km = row.km /\ ToSync(r, row).body.vehicle = row.vehicle
<1>1. PICK b : b = [Empty EXCEPT !.km = row.km, !.vehicle = row.vehicle]
  OBVIOUS
<1>2. b = [status |-> Absent, override |-> Absent, km |-> row.km, cust |-> Absent, vehicle |-> row.vehicle]
  BY <1>1 DEF Empty
<1>3. b \in Body /\ b.km = row.km /\ b.vehicle = row.vehicle
  BY <1>2 DEF Body
<1>4. ToSync(r, row) = [Idle EXCEPT !.at = "sync", !.res = r, !.body = b]
  BY <1>1 DEF ToSync
<1>5. ToSync(r, row) = [at |-> "sync", res |-> r, saw |-> "DRAFT", text |-> 0, body |-> b, read |-> None,
                        clear |-> FALSE, lines |-> {}]
  BY <1>4 DEF Idle
<1>. QED BY <1>3, <1>5 DEF Request

LEMMA TypePatch ==
  ASSUME TypeOK, Placed, OdometerInv, NEW t \in Requests, Count(t) \/ Write(t) \/ Sync(t) \/ SyncFails(t)
  PROVE  TypeOK'
<1>1. UNCHANGED <<agreement, sent, required, papers, report, signed, ungated, overtaken, mixed, calls>>
  BY DEF Count, Write, Sync, SyncFails, world, history
<1>2. req[t] \in Request /\ req[t].res \in Reservations
  BY RequestFields DEF Count, Write, Sync, SyncFails, At
<1>3. CASE Count(t)
  <2>1. [req[t] EXCEPT !.at = "write", !.clear = FALSE] \in Request
    BY <1>2 DEF Request
  <2>2. req' \in [Requests -> Request]
    BY <1>3, <2>1, IdleFields DEF Count, Finish, Go, TypeOK
  <2>3. disturbed' \subseteq Requests
    BY <1>3 DEF Count, TypeOK
  <2>4. UNCHANGED <<res, odometer, returned, torn>>
    BY <1>3 DEF Count
  <2>. QED BY <1>1, <2>2, <2>3, <2>4 DEF TypeOK
<1>4. CASE Write(t)
  <2>1. PICK r \in Reservations, new \in Reservation :
          /\ r = req[t].res /\ new = Patched(res[r], req[t].body)
          /\ res' = [res EXCEPT ![r] = new] /\ new.vehicle \in Vehicles /\ new.km \in Kms \cup {None}
    BY <1>4, WrittenFields
  <2>2. res' \in [Reservations -> Reservation \cup {None}]
    BY <2>1 DEF TypeOK
  <2>3. req' \in [Requests -> Request] /\ odometer' \in [Vehicles -> Kms]
    <3>1. CASE Syncs(req[t].body, new)
      <4>1. new.km \in Kms
        BY <2>1, <3>1 DEF Syncs, Reads
      <4>3. ToSync(r, new) \in Request
        BY <2>1, <4>1, SyncerFields
      <4>4. Go(t, ToSync(r, new)) \/ Finish(t)
        BY <1>4, <2>1, <3>1 DEF Write
      <4>5. odometer' = odometer \/ odometer' = [odometer EXCEPT ![new.vehicle] = new.km]
        BY <1>4, <2>1, <3>1 DEF Write
      <4>6. odometer' \in [Vehicles -> Kms]
        BY <4>1, <4>5 DEF TypeOK
      <4>. QED BY <4>3, <4>4, <4>6, GoFields, FinishFields
    <3>2. CASE ~Syncs(req[t].body, new)
      <4>1. Finish(t) /\ UNCHANGED odometer
        BY <1>4, <2>1, <3>2 DEF Write
      <4>. QED BY <4>1, FinishFields DEF TypeOK
    <3>. QED BY <3>1, <3>2
  <2>4. returned' \in [Vehicles -> Reservations \cup {None}] /\ torn' \subseteq Vehicles
    BY <1>4, <2>1 DEF Write, TypeOK
  <2>5. disturbed' \subseteq Requests
    BY <1>4 DEF Write, TypeOK, Patching
  <2>. QED BY <1>1, <2>2, <2>3, <2>4, <2>5 DEF TypeOK
<1>5. CASE Sync(t)
  <2>1. req[t].body.vehicle \in Vehicles /\ req[t].body.km \in Kms
    BY <1>5 DEF Sync, OdometerInv
  <2>2. odometer' \in [Vehicles -> Kms]
    BY <1>5, <2>1 DEF Sync, TypeOK
  <2>3. UNCHANGED <<res, disturbed, returned, torn>> /\ req' \in [Requests -> Request]
    BY <1>5, FinishFields DEF Sync, history
  <2>. QED BY <1>1, <2>2, <2>3 DEF TypeOK
<1>6. CASE SyncFails(t)
  <2>1. UNCHANGED <<odometer, res, disturbed, returned>> /\ torn' \subseteq Vehicles /\ req' \in [Requests -> Request]
    BY <1>6, FinishFields DEF SyncFails, OdometerInv, TypeOK
  <2>. QED BY <1>1, <2>1 DEF TypeOK
<1>. QED BY <1>3, <1>4, <1>5, <1>6

LEMMA TypeDamage ==
  ASSUME TypeOK, Placed, NEW t \in Requests, File(t) \/ Replace(t) \/ Commit(t),
         req[t].at \in {"replace", "commit"} => report[req[t].res] # None
  PROVE  TypeOK'
<1>1. UNCHANGED <<res, agreement, sent, required, papers, odometer, signed, ungated, overtaken, disturbed, returned, torn, calls>>
  BY DEF File, Replace, Commit, world, history
<1>2. req[t] \in Request /\ req[t].res \in Reservations
  BY RequestFields DEF File, Replace, Commit, At
<1>3. PICK r \in Reservations : r = req[t].res
  BY <1>2
<1>4. CASE File(t)
  <2>1. [by |-> t, lines |-> {t}] \in Report
    BY DEF Report
  <2>2. report' \in [Reservations -> Report \cup {None}] /\ UNCHANGED mixed /\ req' \in [Requests -> Request]
    BY <1>3, <1>4, <2>1, FinishFields DEF File, TypeOK, history
  <2>. QED BY <1>1, <2>2 DEF TypeOK
<1>5. CASE Replace(t)
  <2>1. report[r] \in Report
    BY <1>3, <1>5 DEF Replace, At, TypeOK
  <2>2. [req[t] EXCEPT !.at = "commit", !.lines = report[r].lines] \in Request
    BY <1>2, <2>1 DEF Request, Report
  <2>3. req' \in [Requests -> Request]
    BY <1>3, <1>5, <2>2 DEF Replace, Go, TypeOK
  <2>4. mixed' \subseteq Reservations /\ UNCHANGED report
    BY <1>3, <1>5 DEF Replace, TypeOK
  <2>. QED BY <1>1, <2>3, <2>4 DEF TypeOK
<1>6. CASE Commit(t)
  <2>1. report[r] \in Report
    BY <1>3, <1>6 DEF Commit, At, TypeOK
  <2>2. [by |-> t, lines |-> (report[r].lines \ req[t].lines) \cup {t}] \in Report
    BY <2>1 DEF Report
  <2>3. report' \in [Reservations -> Report \cup {None}] /\ UNCHANGED mixed /\ req' \in [Requests -> Request]
    BY <1>3, <1>6, <2>2, FinishFields DEF Commit, TypeOK, history
  <2>. QED BY <1>1, <2>3 DEF TypeOK
<1>. QED BY <1>4, <1>5, <1>6

-----------------------------------------------------------------------------
(***************************************************************************)
(* How each request moves on.                                              *)
(***************************************************************************)

LEMMA CountFields ==
  ASSUME TypeOK, Placed, NEW t \in Requests, Count(t)
  PROVE  /\ req[t].at = "count" /\ \A u \in Requests \ {t} : req'[u] = req[u]
         /\ \/ req'[t].at = "idle"
            \/ /\ req'[t].at = "write" /\ Passes(req[t]) /\ req'[t].res = req[t].res
               /\ req'[t].body = req[t].body /\ req'[t].read = req[t].read
<1>1. req[t] \in Request /\ req[t].at = "count"
  BY RequestFields DEF Count, At
<1>2. CASE Passes(req[t])
  <2>1. req' = [req EXCEPT ![t] = [req[t] EXCEPT !.at = "write", !.clear = FALSE]]
    BY <1>2 DEF Count, Go
  <2>2. req'[t] = [req[t] EXCEPT !.at = "write", !.clear = FALSE] /\ \A u \in Requests \ {t} : req'[u] = req[u]
    BY <2>1 DEF TypeOK
  <2>. QED BY <1>1, <1>2, <2>2 DEF Request
<1>3. CASE ~Passes(req[t])
  BY <1>1, <1>3, FinishFields DEF Count
<1>. QED BY <1>2, <1>3

LEMMA ReplaceFields ==
  ASSUME TypeOK, Placed, NEW t \in Requests, Replace(t)
  PROVE  /\ req[t].at = "replace" /\ \A u \in Requests \ {t} : req'[u] = req[u]
         /\ req'[t].at = "commit" /\ req'[t].res = req[t].res /\ req'[t].lines = report[req[t].res].lines
<1>1. req[t] \in Request /\ req[t].at = "replace"
  BY RequestFields DEF Replace, At
<1>2. /\ req'[t] = [req[t] EXCEPT !.at = "commit", !.lines = report[req[t].res].lines]
      /\ \A u \in Requests \ {t} : req'[u] = req[u]
  BY DEF Replace, Go, TypeOK
<1>. QED BY <1>1, <1>2 DEF Request

LEMMA WriteFields ==
  ASSUME TypeOK, Placed, NEW t \in Requests, Write(t)
  PROVE  LET new == Patched(res[req[t].res], req[t].body) IN
         /\ req[t].at = "write" /\ \A u \in Requests \ {t} : req'[u] = req[u]
         /\ \/ Finish(t) /\ req'[t].at = "idle"
               /\ odometer' = IF Reads(new) THEN [odometer EXCEPT ![new.vehicle] = new.km] ELSE odometer
            \/ /\ Reads(new) /\ UNCHANGED odometer
               /\ req'[t].at = "sync" /\ req'[t].res = req[t].res
               /\ req'[t].body.km = new.km /\ req'[t].body.vehicle = new.vehicle
<1>1. req[t].at = "write"
  BY DEF Write, At
<1>2. PICK r \in Reservations, new \in Reservation :
        r = req[t].res /\ new = Patched(res[r], req[t].body) /\ new.vehicle \in Vehicles /\ new.km \in Kms \cup {None}
  BY WrittenFields
<1>3. PICK next : next = ToSync(r, new)
  OBVIOUS
<1>4. \/ Reads(new) /\ Go(t, next) /\ UNCHANGED odometer
      \/ Reads(new) /\ Finish(t) /\ odometer' = [odometer EXCEPT ![new.vehicle] = new.km]
      \/ ~Reads(new) /\ Finish(t) /\ UNCHANGED odometer
  BY <1>2, <1>3 DEF Write, Syncs, Go
<1>5. CASE Finish(t)
  <2>1. req'[t].at = "idle" /\ \A u \in Requests \ {t} : req'[u] = req[u]
    BY <1>5, FinishFields
  <2>2. CASE ~Go(t, next)
    BY <1>1, <1>2, <1>4, <1>5, <2>1, <2>2
  <2>3. CASE Reads(new) /\ Go(t, next)
    <3>1. new.km \in Kms
      BY <1>2, <2>3 DEF Reads
    <3>2. next \in Request /\ next.at = "sync"
      <4>1. r \in Reservations /\ new.km \in Kms /\ new.vehicle \in Vehicles
        BY <1>2, <3>1
      <4>. QED BY <1>3, <4>1, SyncerFields
    <3>3. req'[t] = next
      BY <2>3, <3>2, GoFields
    <3>. QED BY <2>1, <3>2, <3>3
  <2>. QED BY <1>1, <1>2, <1>4, <2>1, <2>2, <2>3
<1>6. CASE Reads(new) /\ Go(t, next) /\ UNCHANGED odometer
  <2>1. new.km \in Kms
    BY <1>2, <1>6 DEF Reads
  <2>2. next \in Request /\ next.at = "sync" /\ next.res = r /\ next.body.km = new.km /\ next.body.vehicle = new.vehicle
    <3>1. r \in Reservations /\ new.km \in Kms /\ new.vehicle \in Vehicles
      BY <1>2, <2>1
    <3>. QED BY <1>3, <3>1, SyncerFields
  <2>3. req'[t] = next /\ \A u \in Requests \ {t} : req'[u] = req[u]
    BY <1>6, <2>2, GoFields
  <2>. QED BY <1>1, <1>2, <1>6, <2>2, <2>3
<1>. QED BY <1>4, <1>5, <1>6

\* Rows stay, whatever happens.
LEMMA RowsStay ==
  ASSUME TypeOK, Placed, Elsewhere \/ \E t \in Requests : RequestDoes(t), NEW r \in Reservations, res[r] # None
  PROVE  res'[r] # None
<1>1. CASE ReportSent \/ ChangePolicy \/ ChangePapers \/ SetOdometer
  BY <1>1 DEF ReportSent, ChangePolicy, ChangePapers, SetOdometer
<1>2. CASE CreateReservation
  BY <1>2, CreatedFields
<1>3. CASE DropCustomer
  BY <1>3, DropFields DEF DropCustomer
<1>4. ASSUME NEW t \in Requests, RequestDoes(t) PROVE res'[r] # None
  <2>1. CASE Write(t)
    BY <2>1, WrittenFields
  <2>2. CASE ~Write(t)
    <3>1. res' = res
      BY <1>4, <2>2 DEF RequestDoes, AskCreate, Create, AskWrite, Edit, Void, Sign, AskPatch, Count, Sync, SyncFails, AskPut, File, Replace, Commit
    <3>. QED BY <3>1
  <2>. QED BY <2>1, <2>2
<1>. QED BY <1>1, <1>2, <1>3, <1>4 DEF Elsewhere

\* Every step of a request leaves the others alone.
LEMMA Moves ==
  ASSUME TypeOK, Placed, AgreementInv, NEW t \in Requests, RequestDoes(t)
  PROVE  /\ \A u \in Requests \ {t} : req'[u] = req[u]
         /\ req'[t].at # "idle" => req'[t].res \in Reservations /\ res[req'[t].res] # None
<1>1. CASE AskCreate(t) \/ AskWrite(t) \/ AskPatch(t) \/ AskPut(t)
  BY <1>1, AskCreateFields, AskWriteFields, AskPatchFields, AskPutFields
<1>2. CASE Create(t) \/ Edit(t) \/ Void(t) \/ Sign(t) \/ Sync(t) \/ SyncFails(t) \/ File(t) \/ Commit(t)
  BY <1>2, FinishFields DEF Create, Edit, Void, Sign, Sync, SyncFails, File, Commit
<1>3. CASE Count(t) \/ Replace(t) \/ Write(t)
  <2>1. req[t].res \in Reservations /\ res[req[t].res] # None
    BY <1>3 DEF Count, Replace, Write, At, Placed
  <2>. QED BY <1>3, <2>1, CountFields, ReplaceFields, WriteFields
<1>. QED BY <1>1, <1>2, <1>3 DEF RequestDoes

LEMMA PlacedInv == TypeOK /\ Placed /\ AgreementInv /\ (Elsewhere \/ \E t \in Requests : RequestDoes(t)) => Placed'
<1>. SUFFICES ASSUME TypeOK, Placed, AgreementInv, Elsewhere \/ \E t \in Requests : RequestDoes(t) PROVE Placed'
  OBVIOUS
<1>1. \A r \in Reservations : res[r] # None => res'[r] # None
  BY RowsStay
<1>2. CASE Elsewhere
  <2>1. req' = req
    BY <1>2 DEF Elsewhere, CreateReservation, ReportSent, ChangePolicy, ChangePapers, DropCustomer, SetOdometer
  <2>. QED BY <1>1, <2>1 DEF Placed, At
<1>3. ASSUME NEW t \in Requests, RequestDoes(t) PROVE Placed'
  BY <1>1, <1>3, Moves DEF Placed, At
<1>. QED BY <1>2, <1>3

-----------------------------------------------------------------------------
(***************************************************************************)
(* Agreements.                                                             *)
(***************************************************************************)

\* Steps that write to no agreement.
LEMMA AgreementSame ==
  ASSUME AgreementInv, UNCHANGED <<agreement, signed, overtaken>>,
         \A r \in Reservations : res[r] # None => res'[r] # None,
         \A u \in Requests :
           \/ req'[u] = req[u]
           \/ req'[u].at \notin {"create", "edit", "sign", "void"}
           \/ req'[u].at = "create" /\ req'[u].text # 0
           \/ /\ req'[u].at \in {"edit", "sign", "void"} /\ agreement[req'[u].res] # None /\ req'[u].saw = "DRAFT"
              /\ req'[u].at = "edit" => req'[u].text # 0
  PROVE  AgreementInv'
<1>1. (\A t \in Requests : Drafting(req[t]))'
  BY DEF AgreementInv, Drafting
<1>2. (\A r \in Reservations : IsSigned(r) => signed[r] # 0)'
  BY DEF AgreementInv, IsSigned
<1>3. SignedIsFrozen'
  BY DEF AgreementInv, SignedIsFrozen, IsSigned
<1>4. (\A r \in Reservations : agreement[r] # None => res[r] # None)'
  BY DEF AgreementInv
<1>. QED BY <1>1, <1>2, <1>3, <1>4 DEF AgreementInv

\* Steps that write to the agreement r and are done.
LEMMA AgreementWritten ==
  ASSUME TypeOK, Placed, AgreementInv, NEW t \in Requests, Finish(t), NEW r \in Reservations,
         \A x \in Reservations \ {r} : agreement'[x] = agreement[x] /\ signed'[x] = signed[x],
         overtaken \subseteq overtaken', agreement'[r] # None, res' = res, res[r] # None,
         agreement'[r].status = "SIGNED" => signed'[r] # 0,
         signed'[r] # 0 => (agreement'[r].status = "SIGNED" /\ agreement'[r].text = signed'[r]) \/ r \in overtaken'
  PROVE  AgreementInv'
<1>1. req'[t] = Idle /\ req'[t].at = "idle" /\ \A u \in Requests \ {t} : req'[u] = req[u]
  BY FinishFields
<1>2. (\A u \in Requests : Drafting(req[u]))'
  <2>. SUFFICES ASSUME NEW u \in Requests PROVE Drafting(req[u])'
    OBVIOUS
  <2>1. CASE u = t
    BY <1>1, <2>1 DEF Drafting
  <2>2. CASE u # t
    <3>1. Drafting(req[u]) /\ req'[u] = req[u]
      BY <1>1, <2>2 DEF AgreementInv
    <3>2. CASE req[u].at \in {"edit", "sign", "void"} /\ req[u].res \in Reservations
      <4>1. agreement'[req[u].res] # None
        BY <3>1, <3>2 DEF Drafting
      <4>. QED BY <3>1, <4>1 DEF Drafting
    <3>3. CASE req[u].at \notin {"edit", "sign", "void"}
      BY <3>1, <3>3 DEF Drafting
    <3>. QED BY <3>2, <3>3 DEF Placed, At
  <2>. QED BY <2>1, <2>2
<1>3. (\A x \in Reservations : IsSigned(x) => signed[x] # 0)'
  BY DEF AgreementInv, IsSigned
<1>4. SignedIsFrozen'
  BY DEF AgreementInv, SignedIsFrozen, IsSigned
<1>5. (\A x \in Reservations : agreement[x] # None => res[x] # None)'
  BY DEF AgreementInv
<1>. QED BY <1>2, <1>3, <1>4, <1>5 DEF AgreementInv

LEMMA AgreementStep ==
  ASSUME TypeOK, Placed, AgreementInv, NEW t \in Requests, RequestDoes(t)
  PROVE  AgreementInv'
<1>0. \A r \in Reservations : res[r] # None => res'[r] # None
  BY RowsStay
<1>1. CASE AskCreate(t) \/ AskWrite(t) \/ AskPatch(t) \/ AskPut(t)
  <2>1. UNCHANGED <<agreement, signed, overtaken>>
    BY <1>1 DEF AskCreate, AskWrite, AskPatch, AskPut, history
  <2>. QED BY <1>0, <1>1, <2>1, AskCreateFields, AskWriteFields, AskPatchFields, AskPutFields, AgreementSame
<1>2. CASE Sync(t) \/ SyncFails(t) \/ File(t) \/ Commit(t)
  <2>1. UNCHANGED <<agreement, signed, overtaken>> /\ Finish(t)
    BY <1>2 DEF Sync, SyncFails, File, Commit, history
  <2>. QED BY <1>0, <2>1, FinishFields, AgreementSame
<1>3. CASE Count(t) \/ Write(t) \/ Replace(t)
  <2>1. UNCHANGED <<agreement, signed, overtaken>>
    BY <1>3 DEF Count, Write, Replace
  <2>2. req'[t].at \notin {"create", "edit", "sign", "void"}
    BY <1>3, CountFields, WriteFields, ReplaceFields
  <2>. QED BY <1>0, <1>3, <2>1, <2>2, Moves, AgreementSame DEF RequestDoes
<1>4. ASSUME Create(t) \/ Edit(t) \/ Void(t) \/ Sign(t) PROVE AgreementInv'
  <2>1. PICK r \in Reservations : r = req[t].res
    BY <1>4, RequestFields DEF Create, Edit, Void, Sign, At
  <2>2. Finish(t) /\ Drafting(req[t]) /\ req[t] \in Request /\ res' = res /\ res[r] # None
    BY <1>4, <2>1 DEF Create, Edit, Void, Sign, AgreementInv, TypeOK, Placed, At
  <2>3. /\ agreement \in [Reservations -> Agreement \cup {None}]
        /\ signed \in [Reservations -> Texts \cup {0}]
    BY DEF TypeOK
  <2>4. /\ agreement[r] # None /\ agreement[r].status = "SIGNED" => signed[r] # 0
        /\ signed[r] # 0 => (agreement[r] # None /\ agreement[r].status = "SIGNED" /\ agreement[r].text = signed[r]) \/ r \in overtaken
    BY DEF AgreementInv, SignedIsFrozen, IsSigned
  <2>5. CASE Create(t)
    <3>1. UNCHANGED <<signed, overtaken>>
      BY <2>5 DEF Create, history
    <3>2. CASE agreement[r] # None
      BY <2>1, <2>2, <2>4, <2>5, <3>1, <3>2, AgreementWritten DEF Create
    <3>3. CASE agreement[r] = None
      <4>1. agreement'[r] = [status |-> "DRAFT", text |-> req[t].text] /\ \A x \in Reservations \ {r} : agreement'[x] = agreement[x]
        BY <2>1, <2>3, <2>5, <3>3 DEF Create
      <4>2. agreement'[r] # None /\ agreement'[r].status # "SIGNED"
        <5>1. req[t].text \in Texts
          BY <2>2, <2>5 DEF Create, At, Drafting, Request
        <5>. QED BY <4>1, <5>1, NoneAssumption DEF Agreement
      <4>. QED BY <2>2, <2>4, <3>1, <3>3, <4>1, <4>2, AgreementWritten
    <3>. QED BY <3>2, <3>3
  <2>6. ASSUME Edit(t) \/ Void(t) \/ Sign(t)
        PROVE  agreement[r] \in Agreement /\ agreement[r] # None /\ req[t].saw = "DRAFT"
    BY <2>1, <2>2, <2>3, <2>6 DEF Edit, Void, Sign, Drafting, At
  <2>7. CASE Edit(t)
    <3>1. UNCHANGED signed /\ \A x \in Reservations \ {r} : agreement'[x] = agreement[x]
      BY <2>1, <2>3, <2>7 DEF Edit
    <3>2. agreement'[r] = [agreement[r] EXCEPT !.text = req[t].text] /\ req[t].text \in Texts
      BY <2>1, <2>2, <2>3, <2>7 DEF Edit, At, Drafting, Request
    <3>3. agreement'[r] # None /\ agreement'[r].status = agreement[r].status
      BY <2>6, <2>7, <3>2, NoneAssumption DEF Agreement
    <3>4. overtaken \subseteq overtaken' /\ (agreement[r].status = "SIGNED" => r \in overtaken')
      BY <2>1, <2>6, <2>7 DEF Edit, Late, IsSigned
    <3>. QED BY <2>2, <2>4, <2>6, <2>7, <3>1, <3>3, <3>4, AgreementWritten
  <2>8. CASE Void(t)
    <3>1. UNCHANGED signed /\ \A x \in Reservations \ {r} : agreement'[x] = agreement[x]
      BY <2>1, <2>3, <2>8 DEF Void
    <3>2. agreement'[r] = [agreement[r] EXCEPT !.status = "VOID"]
      BY <2>1, <2>3, <2>8 DEF Void
    <3>3. agreement'[r] # None /\ agreement'[r].status = "VOID"
      BY <2>6, <2>8, <3>2, NoneAssumption DEF Agreement
    <3>4. overtaken \subseteq overtaken' /\ (agreement[r].status = "SIGNED" => r \in overtaken')
      BY <2>1, <2>6, <2>8 DEF Void, Late, IsSigned
    <3>. QED BY <2>2, <2>4, <2>6, <2>8, <3>1, <3>3, <3>4, AgreementWritten
  <2>9. CASE Sign(t)
    <3>1. UNCHANGED overtaken
      BY <2>9 DEF Sign
    <3>2. \A x \in Reservations \ {r} : agreement'[x] = agreement[x] /\ signed'[x] = signed[x]
      BY <2>1, <2>3, <2>9 DEF Sign
    <3>3. agreement'[r] = [agreement[r] EXCEPT !.status = "SIGNED"] /\ signed'[r] = agreement[r].text
      BY <2>1, <2>3, <2>9 DEF Sign
    <3>4. agreement'[r] # None /\ agreement'[r].status = "SIGNED" /\ agreement'[r].text = signed'[r] /\ signed'[r] # 0
      BY <2>6, <2>9, <3>3, NoneAssumption DEF Agreement, Texts
    <3>. QED BY <2>2, <3>1, <3>2, <3>4, AgreementWritten
  <2>. QED BY <1>4, <2>5, <2>7, <2>8, <2>9
<1>. QED BY <1>1, <1>2, <1>3, <1>4 DEF RequestDoes

-----------------------------------------------------------------------------
(***************************************************************************)
(* The PATCH and its gates.                                                *)
(***************************************************************************)

\* What the PATCH p has checked is not taken away by this step.
Unharmed(p) ==
  /\ "agreement" \in Demands => (IsSigned(p.res) => agreement'[p.res] # None /\ agreement'[p.res].status = "SIGNED")
  /\ "cargos" \in Demands => /\ p.res \in sent => p.res \in sent'
                             /\ ~required => ~required'
                             /\ res[p.res].override => res'[p.res].override
  /\ "papers" \in Demands => /\ p.read \in papers => p.read \in papers'
                             /\ res[p.res].cust = p.read => res'[p.res].cust = p.read
  /\ Underway(p.res) => res'[p.res] # None /\ res'[p.res].status = "IN_PROGRESS"

LEMMA StillChecked ==
  ASSUME TypeOK, NEW u \in Requests, Checked(u), req'[u] = req[u], ungated \subseteq ungated',
         HandsOver(req[u]) => signed'[req[u].res] # 0 \/ signed[req[u].res] = 0,
         HandsOver(req[u]) => u \in disturbed' \/ (u \notin disturbed /\ Unharmed(req[u]))
  PROVE  Checked(u)'
<1>. SUFFICES ASSUME HandsOver(req[u])
              PROVE  /\ "agreement" \in Demands => signed'[req[u].res] # 0 \/ req[u].res \in ungated'
                     /\ Ready(req[u])' \/ u \in disturbed' \/ Underway(req[u].res)'
  BY DEF Checked, HandsOver, Ready, Underway, IsSigned
<1>1. "agreement" \in Demands => signed'[req[u].res] # 0 \/ req[u].res \in ungated'
  BY DEF Checked
<1>2. CASE u \in disturbed'
  BY <1>1, <1>2
<1>3. CASE u \notin disturbed /\ Unharmed(req[u])
  <2>1. Ready(req[u]) \/ Underway(req[u].res)
    BY <1>3 DEF Checked
  <2>2. CASE Underway(req[u].res)
    BY <1>1, <1>3, <2>2 DEF Unharmed, Underway
  <2>3. CASE Ready(req[u])
    BY <1>1, <1>3, <2>3 DEF Unharmed, Ready, IsSigned
  <2>. QED BY <2>1, <2>2, <2>3
<1>. QED BY <1>2, <1>3

\* A step that writes to nothing that a PATCH has read.
LEMMA SameUnharmed ==
  ASSUME UNCHANGED <<res, agreement, sent, required, papers>>, NEW p
  PROVE  Unharmed(p)
BY DEF Unharmed, IsSigned, Underway

LEMMA HandingOver ==
  ASSUME Placed, NEW u \in Requests, HandsOver(req[u])
  PROVE  u \in Patching /\ req[u].res \in Reservations /\ res[req[u].res] # None
BY DEF HandsOver, Patching, Placed, At

\* Steps of a request that is no PATCH, and writes to no row a PATCH reads.
LEMMA PatchSame ==
  ASSUME TypeOK, PatchInv, NEW t \in Requests, UNCHANGED <<res, agreement, sent, required, papers, signed, ungated>>,
         disturbed' \in {disturbed, disturbed \ {t}}, ~HandsOver(req'[t]), \A u \in Requests \ {t} : req'[u] = req[u]
  PROVE  PatchInv'
<1>1. Checked(t)'
  BY DEF Checked, HandsOver
<1>2. ASSUME NEW u \in Requests \ {t} PROVE Checked(u)'
  <2>1. Checked(u) /\ (u \in disturbed' \/ u \notin disturbed)
    BY DEF PatchInv
  <2>2. Unharmed(req[u])
    BY SameUnharmed
  <2>. QED BY <2>1, <2>2, StillChecked
<1>3. HandedOverSigned'
  BY DEF PatchInv, HandedOverSigned, Underway
<1>. QED BY <1>1, <1>2, <1>3 DEF PatchInv

LEMMA PatchElsewhere == TypeOK /\ Placed /\ PatchInv /\ Elsewhere => PatchInv'
<1>. SUFFICES ASSUME TypeOK, Placed, PatchInv, Elsewhere PROVE PatchInv'
  OBVIOUS
<1>1. UNCHANGED <<agreement, req, signed>> /\ disturbed \subseteq disturbed'
  BY DEF Elsewhere, CreateReservation, ReportSent, ChangePolicy, ChangePapers, DropCustomer, SetOdometer, history, Disturbs
<1>2. ungated \subseteq ungated'
  BY DEF Elsewhere, CreateReservation, ReportSent, ChangePolicy, ChangePapers, DropCustomer, SetOdometer, history
<1>3. HandedOverSigned'
  <2>. SUFFICES ASSUME "agreement" \in Demands, NEW r \in Reservations, Underway(r)'
                PROVE  signed[r] # 0 \/ r \in ungated'
    BY <1>1 DEF HandedOverSigned
  <2>1. CASE ReportSent \/ ChangePolicy \/ ChangePapers \/ SetOdometer
    BY <1>2, <2>1 DEF ReportSent, ChangePolicy, ChangePapers, SetOdometer, PatchInv, HandedOverSigned, Underway
  <2>2. CASE CreateReservation
    <3>1. PICK x \in Reservations, new \in Reservation :
            /\ res'[x] = new /\ \A y \in Reservations \ {x} : res'[y] = res[y]
            /\ ungated' = IF new.status = "IN_PROGRESS" THEN ungated \cup {x} ELSE ungated
      BY <2>2, CreatedFields
    <3>. QED BY <1>2, <3>1 DEF PatchInv, HandedOverSigned, Underway
  <2>3. CASE DropCustomer
    <3>1. Underway(r)
      BY <2>3, DropFields DEF DropCustomer, Underway
    <3>. QED BY <1>2, <3>1 DEF PatchInv, HandedOverSigned
  <2>. QED BY <2>1, <2>2, <2>3 DEF Elsewhere
<1>4. ASSUME NEW u \in Requests PROVE Checked(u)'
  <2>1. Checked(u)
    BY DEF PatchInv
  <2>2. ASSUME HandsOver(req[u]) PROVE u \in disturbed' \/ (u \notin disturbed /\ Unharmed(req[u]))
    <3>1. u \in Patching /\ req[u].res \in Reservations /\ res[req[u].res] # None
      BY <2>2, HandingOver
    <3>2. Unharmed(req[u]) \/ u \in disturbed'
      <4>1. CASE ReportSent
        BY <4>1 DEF ReportSent, Unharmed, IsSigned, Underway
      <4>2. CASE ChangePolicy
        BY <3>1, <4>2 DEF ChangePolicy, Disturbs, Unharmed, IsSigned, Underway
      <4>3. CASE ChangePapers
        <5>1. PICK c \in Customers :
                /\ papers' = IF c \in papers THEN papers \ {c} ELSE papers \cup {c}
                /\ Disturbs("papers", IF c \in papers THEN Counting(c) ELSE {})
                /\ UNCHANGED <<res, agreement, sent, required>>
          BY <4>3 DEF ChangePapers
        <5>2. CASE c \in papers /\ req[u].read = c
          BY <3>1, <5>1, <5>2 DEF Disturbs, Counting, Unharmed, IsSigned, Underway
        <5>3. CASE c \notin papers \/ req[u].read # c
          BY <5>1, <5>3 DEF Unharmed, IsSigned, Underway
        <5>. QED BY <5>2, <5>3
      <4>4. CASE SetOdometer
        BY <4>4, SameUnharmed DEF SetOdometer, world
      <4>5. CASE CreateReservation
        <5>1. PICK x \in Reservations : res[x] = None /\ \A y \in Reservations \ {x} : res'[y] = res[y]
          BY <4>5, CreatedFields
        <5>2. res'[req[u].res] = res[req[u].res]
          BY <3>1, <5>1
        <5>. QED BY <4>5, <5>2 DEF CreateReservation, world, Unharmed, IsSigned, Underway
      <4>6. CASE DropCustomer
        <5>1. PICK c \in Customers, into \in Customers \cup {None} :
                /\ res' = [r \in Reservations |-> IF res[r] # None /\ res[r].cust = c THEN [res[r] EXCEPT !.cust = into] ELSE res[r]]
                /\ papers' = (papers \ {c}) \cup (IF c \in papers /\ into # None THEN {into} ELSE {})
                /\ Disturbs("papers", Counting(c)) /\ UNCHANGED <<agreement, sent, required>>
          BY <4>6 DEF DropCustomer
        <5>2. /\ res'[req[u].res] # None /\ res'[req[u].res].status = res[req[u].res].status
              /\ res'[req[u].res].override = res[req[u].res].override
              /\ res[req[u].res].cust # c => res'[req[u].res].cust = res[req[u].res].cust
          BY <3>1, <5>1, DropFields
        <5>3. CASE req[u].read = c
          BY <3>1, <5>1, <5>2, <5>3 DEF Disturbs, Counting, Unharmed, IsSigned, Underway
        <5>4. CASE req[u].read # c
          BY <5>1, <5>2, <5>4 DEF Unharmed, IsSigned, Underway
        <5>. QED BY <5>3, <5>4
      <4>. QED BY <4>1, <4>2, <4>3, <4>4, <4>5, <4>6 DEF Elsewhere
    <3>. QED BY <1>1, <3>2
  <2>. QED BY <1>1, <1>2, <2>1, <2>2, StillChecked
<1>. QED BY <1>3, <1>4 DEF PatchInv

LEMMA PatchAsks ==
  ASSUME TypeOK, AgreementInv, PatchInv, NEW t \in Requests, AskPatch(t)
  PROVE  PatchInv'
<1>1. UNCHANGED <<res, agreement, sent, required, papers, signed, ungated, disturbed>>
  BY DEF AskPatch, world, history
<1>2. PICK r \in Reservations :
        /\ req'[t].at \in {"count", "write"} /\ req'[t].res = r /\ res[r] # None
        /\ req'[t].body.status = "IN_PROGRESS" => req'[t].read = res[r].cust
        /\ req'[t].at = "count" => (req'[t].clear <=> Clear(r, req'[t].body.override))
        /\ req'[t].at = "write" => req'[t].body.status # "IN_PROGRESS" \/ res[r].status = "IN_PROGRESS"
        /\ \A u \in Requests \ {t} : req'[u] = req[u]
  BY AskPatchFields
<1>3. ASSUME NEW u \in Requests \ {t} PROVE Checked(u)'
  <2>1. Checked(u) /\ (u \in disturbed' \/ u \notin disturbed) /\ Unharmed(req[u])
    BY <1>1, SameUnharmed DEF PatchInv
  <2>. QED BY <1>1, <1>2, <2>1, StillChecked
<1>4. Checked(t)'
  <2>1. CASE req'[t].at = "count" /\ req'[t].clear /\ req'[t].body.status = "IN_PROGRESS"
    <3>1. Ready(req[t])'
      BY <1>1, <1>2, <2>1 DEF Clear, Ready, IsSigned
    <3>2. "agreement" \in Demands => signed[r] # 0
      BY <1>2, <2>1 DEF AgreementInv, Clear
    <3>. QED BY <1>1, <1>2, <3>1, <3>2 DEF Checked
  <2>2. CASE req'[t].at = "write" /\ req'[t].body.status = "IN_PROGRESS"
    <3>1. Underway(r) /\ ("agreement" \in Demands => signed[r] # 0 \/ r \in ungated)
      BY <1>2, <2>2 DEF PatchInv, HandedOverSigned, Underway
    <3>. QED BY <1>1, <1>2, <3>1 DEF Checked, Underway
  <2>. QED BY <1>2, <2>1, <2>2 DEF Checked, HandsOver
<1>5. HandedOverSigned'
  BY <1>1 DEF PatchInv, HandedOverSigned, Underway
<1>. QED BY <1>3, <1>4, <1>5 DEF PatchInv

LEMMA PatchCounts ==
  ASSUME TypeOK, Placed, PatchInv, NEW t \in Requests, Count(t)
  PROVE  PatchInv'
<1>1. UNCHANGED <<res, agreement, sent, required, papers, signed, ungated>>
  BY DEF Count, world
<1>2. CASE Passes(req[t])
  <2>1. UNCHANGED disturbed /\ Checked(t)
    BY <1>2 DEF Count, PatchInv
  <2>2. \A u \in Requests \ {t} : req'[u] = req[u]
    BY CountFields
  <2>3. CASE req'[t].at = "idle"
    BY <1>1, <2>1, <2>2, <2>3, PatchSame DEF HandsOver
  <2>4. CASE /\ req'[t].at = "write" /\ req'[t].res = req[t].res
             /\ req'[t].body = req[t].body /\ req'[t].read = req[t].read
    <3>1. Checked(t)'
      <4>. SUFFICES ASSUME HandsOver(req'[t]) PROVE Checked(t)'
        BY DEF Checked
      <4>1. HandsOver(req[t])
        BY <1>2, <2>4, CountFields DEF HandsOver, Passes
      <4>2. Ready(req[t]) => Ready(req[t])'
        BY <1>1, <1>2, <2>4 DEF Ready, IsSigned, Passes
      <4>3. Underway(req[t].res) => Underway(req[t].res)'
        BY <1>1, <2>4 DEF Underway
      <4>. QED BY <1>1, <2>1, <2>4, <4>1, <4>2, <4>3 DEF Checked
    <3>2. ASSUME NEW u \in Requests \ {t} PROVE Checked(u)'
      <4>1. Checked(u) /\ (u \in disturbed' \/ u \notin disturbed) /\ Unharmed(req[u])
        BY <1>1, <2>1, SameUnharmed DEF PatchInv
      <4>. QED BY <1>1, <2>2, <4>1, StillChecked
    <3>3. HandedOverSigned'
      BY <1>1 DEF PatchInv, HandedOverSigned, Underway
    <3>. QED BY <3>1, <3>2, <3>3 DEF PatchInv
  <2>. QED BY <2>3, <2>4, CountFields
<1>3. CASE ~Passes(req[t])
  <2>1. disturbed' = disturbed \ {t} /\ Finish(t)
    BY <1>3 DEF Count
  <2>2. ~HandsOver(req'[t]) /\ \A u \in Requests \ {t} : req'[u] = req[u]
    BY <2>1, FinishFields DEF HandsOver
  <2>. QED BY <1>1, <2>1, <2>2, PatchSame
<1>. QED BY <1>2, <1>3

LEMMA PatchAgreement ==
  ASSUME TypeOK, Placed, AgreementInv, PatchInv, NEW t \in Requests, Create(t) \/ Edit(t) \/ Void(t) \/ Sign(t)
  PROVE  PatchInv'
<1>1. UNCHANGED <<res, sent, required, papers, ungated>> /\ Finish(t)
  BY DEF Create, Edit, Void, Sign, world, history
<1>2. ~HandsOver(req'[t]) /\ \A u \in Requests \ {t} : req'[u] = req[u]
  BY <1>1, FinishFields DEF HandsOver
<1>3. PICK r \in Reservations : r = req[t].res
  BY RequestFields DEF Create, Edit, Void, Sign, At
<1>4. /\ agreement \in [Reservations -> Agreement \cup {None}]
      /\ signed \in [Reservations -> Texts \cup {0}]
      /\ Edit(t) \/ Void(t) \/ Sign(t) => agreement[r] \in Agreement
  BY <1>3 DEF TypeOK, AgreementInv, Drafting, Edit, Void, Sign, At
<1>5. \A x \in Reservations : signed[x] # 0 => signed'[x] # 0
  <2>1. CASE Sign(t)
    BY <1>3, <1>4, <2>1 DEF Sign, Agreement, Texts
  <2>2. CASE Create(t) \/ Edit(t) \/ Void(t)
    BY <2>2 DEF Create, Edit, Void, history
  <2>. QED BY <2>1, <2>2
<1>6. disturbed \subseteq disturbed'
  BY DEF Create, Edit, Void, Sign, Disturbs, history
<1>7. \A x \in Reservations \ {r} : agreement'[x] = agreement[x]
  BY <1>3, <1>4 DEF Create, Edit, Void, Sign
<1>8. HandedOverSigned'
  BY <1>1, <1>5 DEF PatchInv, HandedOverSigned, Underway
<1>9. Checked(t)'
  BY <1>2 DEF Checked
<1>10. ASSUME NEW u \in Requests \ {t} PROVE Checked(u)'
  <2>1. Checked(u)
    BY DEF PatchInv
  <2>2. ASSUME HandsOver(req[u]) PROVE u \in disturbed' \/ (u \notin disturbed /\ Unharmed(req[u]))
    <3>1. u \in Patching /\ req[u].res \in Reservations
      BY <2>2, HandingOver
    <3>2. CASE /\ "agreement" \in Demands => (IsSigned(r) => agreement'[r] # None /\ agreement'[r].status = "SIGNED")
               \/ req[u].res # r
      <4>1. Unharmed(req[u])
        BY <1>1, <1>7, <3>1, <3>2 DEF Unharmed, IsSigned, Underway
      <4>. QED BY <1>6, <4>1
    <3>3. CASE Void(t) /\ "agreement" \in Demands /\ IsSigned(r) /\ req[u].res = r
      BY <1>3, <3>1, <3>3 DEF Void, Disturbs
    <3>4. CASE ~Void(t)
      <4>1. IsSigned(r) => agreement'[r] # None /\ agreement'[r].status = "SIGNED"
        <5>1. CASE Create(t)
          BY <1>3, <5>1 DEF Create, IsSigned
        <5>2. CASE Edit(t)
          <6>1. agreement'[r] = [agreement[r] EXCEPT !.text = req[t].text]
            BY <1>3, <1>4, <5>2 DEF Edit
          <6>2. req[t].text \in Texts
            BY <1>1, <5>2 DEF Edit, At, AgreementInv, Drafting, TypeOK, Request
          <6>. QED BY <1>4, <5>2, <6>1, <6>2, NoneAssumption DEF Agreement, IsSigned
        <5>3. CASE Sign(t)
          <6>1. agreement'[r] = [agreement[r] EXCEPT !.status = "SIGNED"]
            BY <1>3, <1>4, <5>3 DEF Sign
          <6>. QED BY <1>4, <5>3, <6>1, NoneAssumption DEF Agreement
        <5>. QED BY <3>4, <5>1, <5>2, <5>3
      <4>. QED BY <3>2, <4>1
    <3>. QED BY <3>2, <3>3, <3>4
  <2>. QED BY <1>1, <1>2, <1>5, <2>1, <2>2, StillChecked, HandingOver
<1>. QED BY <1>8, <1>9, <1>10 DEF PatchInv

LEMMA PatchWrites ==
  ASSUME TypeOK, Placed, PatchInv, NEW t \in Requests, Write(t)
  PROVE  PatchInv'
<1>1. UNCHANGED <<agreement, sent, required, papers, signed, ungated>>
  BY DEF Write, world
<1>2. PICK r \in Reservations, new \in Reservation :
        /\ r = req[t].res /\ new = Patched(res[r], req[t].body) /\ res[r] \in Reservation
        /\ res'[r] = new /\ new # None /\ \A x \in Reservations \ {r} : res'[x] = res[x]
  BY WrittenFields
<1>3. /\ req[t].at = "write" /\ ~HandsOver(req'[t]) /\ \A u \in Requests \ {t} : req'[u] = req[u]
      /\ new.status = (IF req[t].body.status = Absent THEN res[r].status ELSE req[t].body.status)
  <2>1. new.status = (IF req[t].body.status = Absent THEN res[r].status ELSE req[t].body.status)
    BY <1>2 DEF Patched
  <2>. QED BY <2>1, WriteFields DEF HandsOver
<1>4. HandedOverSigned'
  <2>1. "agreement" \in Demands /\ new.status = "IN_PROGRESS" => signed[r] # 0 \/ r \in ungated
    <3>1. CASE res[r].status = "IN_PROGRESS"
      BY <1>2, <3>1, NoneAssumption DEF PatchInv, HandedOverSigned, Underway
    <3>2. CASE req[t].body.status = "IN_PROGRESS"
      BY <1>2, <1>3, <3>2 DEF PatchInv, Checked, HandsOver
    <3>. QED BY <1>3, <3>1, <3>2
  <2>. QED BY <1>1, <1>2, <2>1 DEF PatchInv, HandedOverSigned, Underway
<1>5. ASSUME NEW u \in Requests \ {t} PROVE Checked(u)'
  <2>1. Checked(u)
    BY DEF PatchInv
  <2>2. ASSUME HandsOver(req[u]) PROVE u \in disturbed' \/ (u \notin disturbed /\ Unharmed(req[u]))
    <3>1. u \in Patching /\ req[u].res \in Reservations
      BY <2>2, HandingOver
    <3>2. CASE req[u].res = r /\ Spoils(res[r], new)
      BY <1>2, <3>1, <3>2 DEF Write
    <3>3. CASE ~(req[u].res = r /\ Spoils(res[r], new))
      <4>1. Unharmed(req[u])
        BY <1>1, <1>2, <3>1, <3>3 DEF Unharmed, Spoils, IsSigned, Underway
      <4>2. u \in disturbed => u \in disturbed'
        BY DEF Write
      <4>. QED BY <4>1, <4>2
    <3>. QED BY <3>2, <3>3
  <2>. QED BY <1>1, <1>3, <2>1, <2>2, StillChecked
<1>. QED BY <1>3, <1>4, <1>5 DEF PatchInv, Checked, HandsOver

LEMMA PatchStep ==
  ASSUME TypeOK, Placed, AgreementInv, PatchInv, NEW t \in Requests, RequestDoes(t)
  PROVE  PatchInv'
<1>1. CASE AskCreate(t) \/ AskWrite(t) \/ AskPut(t)
  <2>1. UNCHANGED <<res, agreement, sent, required, papers, signed, ungated, disturbed>>
    BY <1>1 DEF AskCreate, AskWrite, AskPut, world, history
  <2>2. ~HandsOver(req'[t]) /\ \A u \in Requests \ {t} : req'[u] = req[u]
    BY <1>1, AskCreateFields, AskWriteFields, AskPutFields DEF HandsOver
  <2>. QED BY <2>1, <2>2, PatchSame
<1>2. CASE Sync(t) \/ SyncFails(t) \/ File(t) \/ Replace(t) \/ Commit(t)
  <2>1. UNCHANGED <<res, agreement, sent, required, papers, signed, ungated, disturbed>>
    BY <1>2 DEF Sync, SyncFails, File, Replace, Commit, world, history
  <2>2. ~HandsOver(req'[t]) /\ \A u \in Requests \ {t} : req'[u] = req[u]
    BY <1>2, FinishFields, ReplaceFields DEF Sync, SyncFails, File, Commit, HandsOver
  <2>. QED BY <2>1, <2>2, PatchSame
<1>. QED BY <1>1, <1>2, PatchAsks, PatchCounts, PatchAgreement, PatchWrites DEF RequestDoes

-----------------------------------------------------------------------------
(***************************************************************************)
(* The odometer.                                                           *)
(***************************************************************************)

\* Until two readings of v overlap, one request at most is to sync it, with the
\* reading it has to show; without one, v shows it.
OneSyncer(v) == \A t, u \in Requests : t \in Syncing(v) /\ u \in Syncing(v) => t = u
Pending(v) == \A t \in Syncing(v) : Stands(v) => req[t].body.km = res[returned[v]].km
Shows(v) == Stands(v) /\ Syncing(v) = {} => odometer[v] = res[returned[v]].km

LEMMA OdometerParts ==
  OdometerInv <=>
    /\ \A v \in Vehicles : returned[v] # None => res[returned[v]] # None
    /\ \A t \in Requests : At(t, "sync") => req[t].body.vehicle \in Vehicles /\ req[t].body.km \in Kms
    /\ \A v \in Vehicles \ torn : OneSyncer(v) /\ Pending(v) /\ Shows(v)
BY DEF OdometerInv, OdometerFollows, OneSyncer, Pending, Shows, Syncing, At

LEMMA OdometerPartsNext ==
  ASSUME (\A v \in Vehicles : returned[v] # None => res[returned[v]] # None)',
         (\A t \in Requests : At(t, "sync") => req[t].body.vehicle \in Vehicles /\ req[t].body.km \in Kms)',
         \A v \in Vehicles \ torn' : (OneSyncer(v) /\ Pending(v) /\ Shows(v))'
  PROVE  OdometerInv'
BY DEF OdometerInv, OdometerFollows, OneSyncer, Pending, Shows, Syncing, At

\* A vehicle whose readings a step leaves alone, but for rows that stand no more.
LEMMA VehicleSame ==
  ASSUME NEW v \in Vehicles, OneSyncer(v), Pending(v), Shows(v), Syncing(v)' = Syncing(v),
         \A t \in Syncing(v) : req'[t].body.km = req[t].body.km, odometer'[v] = odometer[v],
         Stands(v)' => Stands(v) /\ res'[returned'[v]].km = res[returned[v]].km
  PROVE  (OneSyncer(v) /\ Pending(v) /\ Shows(v))'
<1>1. OneSyncer(v)'
  BY DEF OneSyncer
<1>2. Pending(v)'
  BY DEF Pending
<1>3. Shows(v)'
  BY DEF Shows
<1>. QED BY <1>1, <1>2, <1>3

\* Steps after which the same requests are to sync, and the rows are the same or
\* stand no more.
LEMMA OdometerSame ==
  ASSUME TypeOK, OdometerInv, UNCHANGED <<odometer, returned, torn>>,
         \A u \in Requests : req'[u] = req[u] \/ (req[u].at # "sync" /\ req'[u].at # "sync"),
         \A r \in Reservations : res[r] # None =>
           res'[r] # None /\ (Reads(res'[r]) =>
             Reads(res[r]) /\ res'[r].vehicle = res[r].vehicle /\ res'[r].km = res[r].km)
  PROVE  OdometerInv'
<1>1. \A u \in Requests : /\ req'[u].at = "sync" => req'[u] = req[u] /\ req[u].at = "sync"
                          /\ req[u].at = "sync" => req'[u] = req[u]
  OBVIOUS
<1>2. \A v \in Vehicles : returned[v] \in Reservations \cup {None}
  BY DEF TypeOK
<1>3. (\A v \in Vehicles : returned[v] # None => res[returned[v]] # None)'
  BY <1>2, OdometerParts
<1>4. (\A t \in Requests : At(t, "sync") => req[t].body.vehicle \in Vehicles /\ req[t].body.km \in Kms)'
  BY <1>1, OdometerParts DEF At
<1>5. ASSUME NEW v \in Vehicles \ torn PROVE (OneSyncer(v) /\ Pending(v) /\ Shows(v))'
  <2>1. OneSyncer(v) /\ Pending(v) /\ Shows(v) /\ (returned[v] # None => res[returned[v]] # None)
    BY OdometerParts
  <2>2. Syncing(v)' = Syncing(v) /\ \A t \in Syncing(v) : req'[t].body.km = req[t].body.km
    BY <1>1 DEF Syncing, At
  <2>3. Stands(v)' => Stands(v) /\ res'[returned'[v]].km = res[returned[v]].km
    BY <1>2, <2>1 DEF Stands
  <2>. QED BY <2>1, <2>2, <2>3, VehicleSame
<1>. QED BY <1>3, <1>4, <1>5, OdometerPartsNext

LEMMA OdometerElsewhere == TypeOK /\ Placed /\ OdometerInv /\ Elsewhere => OdometerInv'
<1>. SUFFICES ASSUME TypeOK, Placed, OdometerInv, Elsewhere PROVE OdometerInv'
  OBVIOUS
<1>1. req' = req
  BY DEF Elsewhere, CreateReservation, ReportSent, ChangePolicy, ChangePapers, DropCustomer, SetOdometer
<1>2. CASE ReportSent \/ ChangePolicy \/ ChangePapers
  <2>1. UNCHANGED <<res, odometer, returned, torn>>
    BY <1>2 DEF ReportSent, ChangePolicy, ChangePapers, history
  <2>. QED BY <1>1, <2>1, OdometerSame
<1>3. CASE CreateReservation
  <2>1. UNCHANGED <<odometer, returned, torn>>
    BY <1>3 DEF CreateReservation
  <2>2. \A r \in Reservations : res[r] # None => res'[r] = res[r]
    BY <1>3, CreatedFields
  <2>. QED BY <1>1, <2>1, <2>2, OdometerSame
<1>4. CASE DropCustomer
  <2>1. UNCHANGED <<odometer, returned, torn>>
    BY <1>4 DEF DropCustomer
  <2>2. \A r \in Reservations : res[r] # None =>
          /\ res'[r] # None /\ res'[r].status = res[r].status
          /\ res'[r].km = res[r].km /\ res'[r].vehicle = res[r].vehicle
    <3>1. PICK c \in Customers, into \in Customers \cup {None} :
            res' = [r \in Reservations |-> IF res[r] # None /\ res[r].cust = c THEN [res[r] EXCEPT !.cust = into] ELSE res[r]]
      BY <1>4 DEF DropCustomer
    <3>. QED BY <3>1, DropFields
  <2>. QED BY <1>1, <2>1, <2>2, OdometerSame DEF Reads
<1>5. CASE SetOdometer
  <2>1. PICK v \in Vehicles, km \in Kms :
          /\ odometer' = [odometer EXCEPT ![v] = km] /\ returned' = [returned EXCEPT ![v] = None]
          /\ torn' = (IF Syncing(v) = {} THEN torn ELSE torn \cup {v}) /\ res' = res
    BY <1>5 DEF SetOdometer
  <2>2. (\A w \in Vehicles : returned[w] # None => res[returned[w]] # None)'
    BY <2>1, OdometerParts DEF TypeOK
  <2>3. (\A t \in Requests : At(t, "sync") => req[t].body.vehicle \in Vehicles /\ req[t].body.km \in Kms)'
    BY <1>1, OdometerParts DEF At
  <2>4. ASSUME NEW w \in Vehicles \ torn' PROVE (OneSyncer(w) /\ Pending(w) /\ Shows(w))'
    <3>1. OneSyncer(w) /\ Pending(w) /\ Shows(w) /\ Syncing(w)' = Syncing(w)
      BY <1>1, <2>1, OdometerParts DEF Syncing, At
    <3>2. CASE w = v
      <4>1. ~Stands(w)'
        BY <2>1, <3>2 DEF Stands, TypeOK
      <4>. QED BY <3>1, <4>1 DEF OneSyncer, Pending, Shows
    <3>3. CASE w # v
      <4>1. odometer'[w] = odometer[w] /\ returned'[w] = returned[w]
        BY <2>1, <3>3 DEF TypeOK
      <4>2. Stands(w)' => Stands(w) /\ res'[returned'[w]].km = res[returned[w]].km
        BY <2>1, <4>1 DEF Stands
      <4>. QED BY <1>1, <3>1, <4>1, <4>2, VehicleSame
    <3>. QED BY <3>2, <3>3
  <2>. QED BY <2>2, <2>3, <2>4, OdometerPartsNext
<1>. QED BY <1>2, <1>3, <1>4, <1>5 DEF Elsewhere

\* A write that makes a vehicle take a reading is its last; one that does not
\* leaves its reservation without one to show.
LEMMA OdometerWrites ==
  ASSUME TypeOK, Placed, OdometerInv, NEW t \in Requests, Write(t)
  PROVE  OdometerInv'
<1>1. PICK r \in Reservations, new \in Reservation :
        /\ r = req[t].res /\ new = Patched(res[r], req[t].body)
        /\ res'[r] = new /\ new # None /\ (\A x \in Reservations \ {r} : res'[x] = res[x])
        /\ new.vehicle \in Vehicles /\ new.km \in Kms \cup {None}
  BY WrittenFields
<1>2. PICK v \in Vehicles : v = new.vehicle
  BY <1>1
<1>3. /\ returned' = IF Reads(new) THEN [returned EXCEPT ![v] = r] ELSE returned
      /\ torn' = IF Reads(new) /\ Syncing(v) # {} THEN torn \cup {v} ELSE torn
  BY <1>1, <1>2 DEF Write
<1>4. /\ req[t].at = "write" /\ \A u \in Requests \ {t} : req'[u] = req[u]
      /\ \/ req'[t].at = "idle" /\ odometer' = IF Reads(new) THEN [odometer EXCEPT ![v] = new.km] ELSE odometer
         \/ /\ Reads(new) /\ UNCHANGED odometer
            /\ req'[t].at = "sync" /\ req'[t].body.km = new.km /\ req'[t].body.vehicle = v
  <2>1. LET n == Patched(res[req[t].res], req[t].body) IN
        /\ req[t].at = "write" /\ \A u \in Requests \ {t} : req'[u] = req[u]
        /\ \/ Finish(t) /\ req'[t].at = "idle"
              /\ odometer' = IF Reads(n) THEN [odometer EXCEPT ![n.vehicle] = n.km] ELSE odometer
           \/ /\ Reads(n) /\ UNCHANGED odometer
              /\ req'[t].at = "sync" /\ req'[t].res = req[t].res
              /\ req'[t].body.km = n.km /\ req'[t].body.vehicle = n.vehicle
    BY WriteFields
  <2>. QED BY <1>1, <1>2, <2>1
<1>5. \A w \in Vehicles : returned[w] \in Reservations \cup {None} /\ (returned[w] # None => res[returned[w]] # None)
  BY OdometerParts DEF TypeOK
<1>6. (\A w \in Vehicles : returned[w] # None => res[returned[w]] # None)'
  BY <1>1, <1>3, <1>5 DEF TypeOK
<1>7. (\A u \in Requests : At(u, "sync") => req[u].body.vehicle \in Vehicles /\ req[u].body.km \in Kms)'
  <2>1. Reads(new) => new.km \in Kms
    BY <1>1 DEF Reads
  <2>. QED BY <1>2, <1>4, <2>1, OdometerParts DEF At
<1>8. ASSUME NEW w \in Vehicles \ torn' PROVE (OneSyncer(w) /\ Pending(w) /\ Shows(w))'
  <2>1. OneSyncer(w) /\ Pending(w) /\ Shows(w)
    BY <1>3, OdometerParts
  <2>2. CASE w = v /\ Reads(new)
    <3>1. Syncing(v) = {} /\ returned'[w] = r /\ res'[r] = new
      BY <1>1, <1>3, <2>2 DEF TypeOK
    <3>2. \A u \in Syncing(w)' : u = t /\ req'[t].at = "sync" /\ req'[t].body.km = new.km
      BY <1>4, <2>2, <3>1 DEF Syncing, At
    <3>3. Shows(w)'
      <4>1. CASE req'[t].at = "idle" /\ odometer' = [odometer EXCEPT ![v] = new.km]
        BY <2>2, <3>1, <4>1 DEF Shows, TypeOK
      <4>2. CASE req'[t].at = "sync" /\ req'[t].body.vehicle = v
        <5>1. t \in Syncing(w)'
          BY <2>2, <4>2 DEF Syncing, At
        <5>. QED BY <5>1 DEF Shows
      <4>. QED BY <1>4, <2>2, <4>1, <4>2
    <3>4. OneSyncer(w)'
      BY <3>2 DEF OneSyncer
    <3>5. Pending(w)'
      BY <3>1, <3>2 DEF Pending
    <3>. QED BY <3>3, <3>4, <3>5
  <2>3. CASE ~(w = v /\ Reads(new))
    <3>1. returned'[w] = returned[w] /\ odometer'[w] = odometer[w]
      BY <1>3, <1>4, <2>3 DEF TypeOK
    <3>2. Syncing(w)' = Syncing(w) /\ \A u \in Syncing(w) : req'[u].body.km = req[u].body.km
      BY <1>4, <2>3 DEF Syncing, At
    <3>3. Stands(w)' => Stands(w) /\ res'[returned'[w]].km = res[returned[w]].km
      <4>1. CASE returned[w] = r
        BY <1>1, <1>2, <2>3, <3>1, <4>1 DEF Stands
      <4>2. CASE returned[w] # r
        BY <1>1, <1>5, <3>1, <4>2 DEF Stands
      <4>. QED BY <4>1, <4>2
    <3>. QED BY <2>1, <3>1, <3>2, <3>3, VehicleSame
  <2>. QED BY <2>2, <2>3
<1>. QED BY <1>6, <1>7, <1>8, OdometerPartsNext

LEMMA OdometerStep ==
  ASSUME TypeOK, Placed, AgreementInv, OdometerInv, NEW t \in Requests, RequestDoes(t)
  PROVE  OdometerInv'
<1>1. CASE AskCreate(t) \/ AskWrite(t) \/ AskPatch(t) \/ AskPut(t)
  <2>1. UNCHANGED <<res, odometer, returned, torn>>
    BY <1>1 DEF AskCreate, AskWrite, AskPatch, AskPut, history
  <2>2. req[t].at # "sync" /\ req'[t].at # "sync" /\ \A u \in Requests \ {t} : req'[u] = req[u]
    BY <1>1, AskCreateFields, AskWriteFields, AskPatchFields, AskPutFields
  <2>. QED BY <2>1, <2>2, OdometerSame
<1>2. CASE Create(t) \/ Edit(t) \/ Void(t) \/ Sign(t) \/ File(t) \/ Commit(t)
  <2>1. UNCHANGED <<res, odometer, returned, torn>>
    BY <1>2 DEF Create, Edit, Void, Sign, File, Commit, history
  <2>2. req[t].at # "sync" /\ req'[t].at # "sync" /\ \A u \in Requests \ {t} : req'[u] = req[u]
    BY <1>2, FinishFields DEF Create, Edit, Void, Sign, File, Commit, At
  <2>. QED BY <2>1, <2>2, OdometerSame
<1>3. CASE Count(t) \/ Replace(t)
  <2>1. UNCHANGED <<res, odometer, returned, torn>>
    BY <1>3 DEF Count, Replace
  <2>2. req[t].at # "sync" /\ req'[t].at # "sync" /\ \A u \in Requests \ {t} : req'[u] = req[u]
    BY <1>3, CountFields, ReplaceFields
  <2>. QED BY <2>1, <2>2, OdometerSame
<1>4. ASSUME Sync(t) \/ SyncFails(t) PROVE OdometerInv'
  <2>1. At(t, "sync") /\ Finish(t) /\ UNCHANGED <<res, returned>>
    BY <1>4 DEF Sync, SyncFails, history
  <2>2. req'[t].at = "idle" /\ \A u \in Requests \ {t} : req'[u] = req[u]
    BY <2>1, FinishFields
  <2>3. PICK v \in Vehicles, km \in Kms : req[t].body.vehicle = v /\ req[t].body.km = km
    BY <2>1, OdometerParts
  <2>4. /\ torn' = IF SyncFails(t) THEN torn \cup {v} ELSE torn
        /\ ~SyncFails(t) => odometer' = [odometer EXCEPT ![v] = km]
        /\ SyncFails(t) => odometer' = odometer
    BY <1>4, <2>3 DEF Sync, SyncFails, history
  <2>5. (\A w \in Vehicles : returned[w] # None => res[returned[w]] # None)'
    BY <2>1, OdometerParts
  <2>6. (\A u \in Requests : At(u, "sync") => req[u].body.vehicle \in Vehicles /\ req[u].body.km \in Kms)'
    BY <2>2, OdometerParts DEF At
  <2>7. ASSUME NEW w \in Vehicles \ torn' PROVE (OneSyncer(w) /\ Pending(w) /\ Shows(w))'
    <3>1. OneSyncer(w) /\ Pending(w) /\ Shows(w)
      BY <2>4, OdometerParts
    <3>2. CASE w = v
      <4>1. t \in Syncing(w)
        BY <2>1, <2>3, <3>2 DEF Syncing
      <4>2. Syncing(w)' = {}
        BY <2>2, <3>1, <4>1 DEF OneSyncer, Syncing, At
      <4>3. odometer'[w] = km
        BY <2>4, <3>2 DEF TypeOK
      <4>4. Stands(w)' <=> Stands(w)
        BY <2>1 DEF Stands
      <4>. QED BY <2>1, <2>3, <3>1, <4>1, <4>2, <4>3, <4>4 DEF OneSyncer, Pending, Shows
    <3>3. CASE w # v
      <4>1. Syncing(w)' = Syncing(w) /\ \A u \in Syncing(w) : req'[u].body.km = req[u].body.km
        BY <2>1, <2>2, <2>3, <3>3 DEF Syncing, At
      <4>2. odometer'[w] = odometer[w]
        BY <2>4, <3>3 DEF TypeOK
      <4>3. Stands(w)' => Stands(w) /\ res'[returned'[w]].km = res[returned[w]].km
        BY <2>1 DEF Stands
      <4>. QED BY <3>1, <4>1, <4>2, <4>3, VehicleSame
    <3>. QED BY <3>2, <3>3
  <2>. QED BY <2>5, <2>6, <2>7, OdometerPartsNext
<1>. QED BY <1>1, <1>2, <1>3, <1>4, OdometerWrites DEF RequestDoes

-----------------------------------------------------------------------------
(***************************************************************************)
(* The damage report.                                                      *)
(***************************************************************************)

\* Steps that put no report.
LEMMA LinesSame ==
  ASSUME LinesInv, UNCHANGED <<report, mixed>>,
         \A u \in Requests :
           \/ req'[u] = req[u] \/ req'[u].at \notin {"replace", "commit"}
           \/ req'[u].at = "replace" /\ report[req'[u].res] # None
  PROVE  LinesInv'
<1>1. \A u \in Requests : req'[u].at = "commit" => req'[u] = req[u]
  OBVIOUS
<1>2. (\A t \in Requests : req[t].at \in {"replace", "commit"} => report[req[t].res] # None)'
  BY DEF LinesInv
<1>3. (\A t \in Requests : At(t, "commit") /\ req[t].res \notin mixed =>
         /\ req[t].lines = report[req[t].res].lines
         /\ \A u \in Requests : At(u, "commit") /\ req[u].res = req[t].res => t = u)'
  BY <1>1 DEF LinesInv, At
<1>4. LinesAreOnePut'
  BY DEF LinesInv, LinesAreOnePut
<1>. QED BY <1>2, <1>3, <1>4 DEF LinesInv

LEMMA LinesStep ==
  ASSUME TypeOK, Placed, AgreementInv, LinesInv, NEW t \in Requests, RequestDoes(t)
  PROVE  LinesInv'
<1>1. CASE AskCreate(t) \/ AskWrite(t) \/ AskPatch(t) \/ AskPut(t)
  <2>1. UNCHANGED <<report, mixed>>
    BY <1>1 DEF AskCreate, AskWrite, AskPatch, AskPut, history
  <2>. QED BY <1>1, <2>1, AskCreateFields, AskWriteFields, AskPatchFields, AskPutFields, LinesSame
<1>2. CASE Create(t) \/ Edit(t) \/ Void(t) \/ Sign(t) \/ Sync(t) \/ SyncFails(t)
  <2>1. UNCHANGED <<report, mixed>> /\ Finish(t)
    BY <1>2 DEF Create, Edit, Void, Sign, Sync, SyncFails, history
  <2>. QED BY <2>1, FinishFields, LinesSame
<1>3. CASE Count(t) \/ Write(t)
  <2>1. UNCHANGED <<report, mixed>>
    BY <1>3 DEF Count, Write
  <2>. QED BY <1>3, <2>1, CountFields, WriteFields, LinesSame
<1>4. CASE File(t)
  <2>1. UNCHANGED mixed /\ Finish(t) /\ req[t].at = "file"
    BY <1>4 DEF File, history, At
  <2>2. req'[t].at = "idle" /\ \A u \in Requests \ {t} : req'[u] = req[u]
    BY <2>1, FinishFields
  <2>3. PICK r \in Reservations : r = req[t].res
    BY <2>1, RequestFields DEF At
  <2>4. CASE report[r] # None
    <3>1. UNCHANGED report
      BY <1>4, <2>3, <2>4 DEF File
    <3>. QED BY <2>1, <2>2, <3>1, LinesSame
  <2>5. CASE report[r] = None
    <3>1. report'[r] = [by |-> t, lines |-> {t}] /\ \A x \in Reservations \ {r} : report'[x] = report[x]
      BY <1>4, <2>3, <2>5 DEF File, TypeOK
    <3>2. report'[r] # None
      BY <3>1, NoneAssumption DEF Report
    <3>3. \A u \in Requests : req'[u].at \in {"replace", "commit"} =>
            req'[u] = req[u] /\ req[u].res \in Reservations \ {r} /\ report[req[u].res] # None
      BY <2>2, <2>5 DEF LinesInv, Placed, At
    <3>4. LinesAreOnePut'
      BY <2>1, <3>1 DEF LinesInv, LinesAreOnePut
    <3>. QED BY <2>1, <3>1, <3>3, <3>4 DEF LinesInv, At
  <2>. QED BY <2>4, <2>5
<1>5. CASE Replace(t)
  <2>1. UNCHANGED report
    BY <1>5 DEF Replace
  <2>2. PICK r \in Reservations : r = req[t].res
    BY <1>5, RequestFields DEF Replace, At
  <2>3. /\ req[t].at = "replace" /\ req'[t].at = "commit" /\ req'[t].res = r /\ req'[t].lines = report[r].lines
        /\ \A u \in Requests \ {t} : req'[u] = req[u]
    BY <1>5, <2>2, ReplaceFields
  <2>4. mixed' = IF \E u \in Requests : req[u].at = "commit" /\ req[u].res = r THEN mixed \cup {r} ELSE mixed
    BY <1>5, <2>2 DEF Replace, At
  <2>5. (\A v \in Requests : req[v].at \in {"replace", "commit"} => report[req[v].res] # None)'
    BY <2>1, <2>2, <2>3 DEF LinesInv
  <2>6. (\A v \in Requests : At(v, "commit") /\ req[v].res \notin mixed =>
           /\ req[v].lines = report[req[v].res].lines
           /\ \A u \in Requests : At(u, "commit") /\ req[u].res = req[v].res => v = u)'
    <3>1. ASSUME NEW v \in Requests, req'[v].at = "commit", req'[v].res \notin mixed'
          PROVE  req'[v].lines = report[req'[v].res].lines
                 /\ \A u \in Requests : req'[u].at = "commit" /\ req'[u].res = req'[v].res => v = u
      <4>1. CASE v = t
        BY <2>3, <2>4, <3>1, <4>1
      <4>2. CASE v # t
        BY <2>3, <2>4, <3>1, <4>2 DEF LinesInv, At
      <4>. QED BY <4>1, <4>2
    <3>. QED BY <2>1, <3>1 DEF At
  <2>7. LinesAreOnePut'
    BY <2>1, <2>4 DEF LinesInv, LinesAreOnePut
  <2>. QED BY <2>5, <2>6, <2>7 DEF LinesInv
<1>6. CASE Commit(t)
  <2>1. UNCHANGED mixed /\ Finish(t) /\ req[t].at = "commit"
    BY <1>6 DEF Commit, history, At
  <2>2. req'[t].at = "idle" /\ \A u \in Requests \ {t} : req'[u] = req[u]
    BY <2>1, FinishFields
  <2>3. PICK r \in Reservations : r = req[t].res
    BY <2>1, RequestFields DEF At
  <2>4. report'[r] = [by |-> t, lines |-> (report[r].lines \ req[t].lines) \cup {t}]
        /\ \A x \in Reservations \ {r} : report'[x] = report[x]
    BY <1>6, <2>3 DEF Commit, TypeOK
  <2>5. report'[r] # None
    <3>1. report[r] \in Report
      BY <2>1, <2>3 DEF LinesInv, TypeOK
    <3>. QED BY <2>4, <3>1, NoneAssumption DEF Report
  <2>6. (\A v \in Requests : req[v].at \in {"replace", "commit"} => report[req[v].res] # None)'
    BY <2>2, <2>4, <2>5 DEF LinesInv, Placed, At
  <2>7. ASSUME NEW v \in Requests, req'[v].at = "commit", req'[v].res \notin mixed'
        PROVE  req'[v].lines = report'[req'[v].res].lines
               /\ \A u \in Requests : req'[u].at = "commit" /\ req'[u].res = req'[v].res => v = u
    <3>1. v # t /\ req'[v] = req[v] /\ req[v].res \in Reservations /\ req[v].res \notin mixed
      BY <2>1, <2>2, <2>7 DEF Placed, At
    <3>2. req[v].res # r
      BY <2>1, <2>3, <2>7, <3>1 DEF LinesInv, At
    <3>. QED BY <2>2, <2>4, <2>7, <3>1, <3>2 DEF LinesInv, At
  <2>8. LinesAreOnePut'
    <3>1. report'[r].lines = {report'[r].by} \/ r \in mixed
      BY <2>1, <2>3, <2>4 DEF LinesInv, At
    <3>. QED BY <2>1, <2>4, <3>1 DEF LinesInv, LinesAreOnePut
  <2>. QED BY <2>6, <2>7, <2>8 DEF LinesInv, At
<1>. QED BY <1>1, <1>2, <1>3, <1>4, <1>5, <1>6 DEF RequestDoes

-----------------------------------------------------------------------------
(***************************************************************************)
(* The theorems.                                                           *)
(***************************************************************************)

LEMMA InitInv == Init => HandoverInv
<1>. SUFFICES ASSUME Init PROVE HandoverInv
  OBVIOUS
<1>1. \A t \in Requests : req[t] = Idle /\ req[t].at = "idle"
  BY IdleFields DEF Init
<1>2. TypeOK
  <2>1. 0 \in Kms /\ calls \in 0..MaxCalls
    BY HandoverAssumption DEF Kms, Init
  <2>2. req \in [Requests -> Request] /\ odometer \in [Vehicles -> Kms]
    BY <2>1, IdleFields DEF Init
  <2>. QED BY <2>1, <2>2 DEF Init, TypeOK
<1>3. Placed /\ AgreementInv
  BY <1>1 DEF Init, Placed, AgreementInv, Drafting, SignedIsFrozen, IsSigned, At
<1>4. PatchInv
  BY <1>1 DEF Init, PatchInv, HandedOverSigned, Checked, HandsOver, Underway
<1>5. OdometerInv
  BY <1>1 DEF Init, OdometerInv, OdometerFollows, Stands, Syncing, At
<1>6. LinesInv
  BY <1>1 DEF Init, LinesInv, LinesAreOnePut, At
<1>. QED BY <1>2, <1>3, <1>4, <1>5, <1>6 DEF HandoverInv

LEMMA StepInv == HandoverInv /\ Next => HandoverInv'
<1>. SUFFICES ASSUME HandoverInv, Next PROVE HandoverInv'
  OBVIOUS
<1>1. TypeOK /\ Placed /\ AgreementInv /\ PatchInv /\ OdometerInv /\ LinesInv
  BY DEF HandoverInv
<1>2. Placed'
  BY <1>1, NextSplit, PlacedInv
<1>3. CASE Elsewhere
  <2>1. UNCHANGED <<agreement, report, req, signed, overtaken, mixed>>
    BY <1>3 DEF Elsewhere, CreateReservation, ReportSent, ChangePolicy, ChangePapers, DropCustomer, SetOdometer, history
  <2>2. AgreementInv'
    <3>1. \A r \in Reservations : res[r] # None => res'[r] # None
      BY <1>1, <1>3, RowsStay
    <3>. QED BY <1>1, <2>1, <3>1, AgreementSame
  <2>3. LinesInv'
    BY <1>1, <2>1, LinesSame
  <2>4. TypeOK' /\ PatchInv' /\ OdometerInv'
    BY <1>1, <1>3, TypeElsewhere, PatchElsewhere, OdometerElsewhere
  <2>. QED BY <1>2, <2>2, <2>3, <2>4 DEF HandoverInv
<1>4. ASSUME NEW t \in Requests, RequestDoes(t) PROVE HandoverInv'
  <2>1. TypeOK'
    <3>1. Drafting(req[t]) /\ (req[t].at \in {"replace", "commit"} => report[req[t].res] # None)
      BY <1>1 DEF AgreementInv, LinesInv
    <3>. QED BY <1>1, <1>4, <3>1, TypeAsks, TypeAgreement, TypePatch, TypeDamage DEF RequestDoes
  <2>. QED BY <1>1, <1>2, <1>4, <2>1, AgreementStep, PatchStep, OdometerStep, LinesStep DEF HandoverInv
<1>. QED BY <1>3, <1>4, NextSplit

LEMMA StutterInv == HandoverInv /\ UNCHANGED vars => HandoverInv'
<1>. SUFFICES ASSUME HandoverInv, UNCHANGED vars PROVE HandoverInv'
  OBVIOUS
<1>1. UNCHANGED <<res, agreement, sent, required, papers, odometer, report, req, signed, ungated, overtaken, disturbed, returned, torn, mixed, calls>>
  BY DEF vars
<1>2. TypeOK /\ Placed /\ AgreementInv /\ PatchInv /\ OdometerInv /\ LinesInv
  BY DEF HandoverInv
<1>3. TypeOK' /\ Placed'
  BY <1>1, <1>2 DEF TypeOK, Placed, At
<1>4. AgreementInv' /\ OdometerInv' /\ LinesInv'
  BY <1>1, <1>2, AgreementSame, OdometerSame, LinesSame
<1>5. PatchInv'
  <2>1. ASSUME NEW u \in Requests PROVE Checked(u)'
    <3>1. Checked(u)
      BY <1>2 DEF PatchInv
    <3>2. Unharmed(req[u]) /\ (u \in disturbed' \/ u \notin disturbed)
      BY <1>1, SameUnharmed
    <3>. QED BY <1>1, <1>2, <3>1, <3>2, StillChecked
  <2>2. HandedOverSigned'
    BY <1>1, <1>2 DEF PatchInv, HandedOverSigned, Underway
  <2>. QED BY <2>1, <2>2 DEF PatchInv
<1>. QED BY <1>3, <1>4, <1>5 DEF HandoverInv

\* The inductive invariant holds in every reachable state.
THEOREM HandoverInvariant == Spec => []HandoverInv
BY InitInv, StepInv, StutterInv, PTL DEF Spec

\* A signed agreement stays as it was signed, but for edits and voids that had
\* read a draft.
THEOREM SignaturesHold == Spec => []SignedIsFrozen
<1>1. HandoverInv => SignedIsFrozen
  BY DEF HandoverInv, AgreementInv
<1>. QED BY <1>1, HandoverInvariant, PTL

\* With HANDOVER_REQUIRE_SIGNED_AGREEMENT no rental is under way whose agreement was
\* never signed, but for those created as IN_PROGRESS.
THEOREM NobodyLeavesUnsigned == Spec => []HandedOverSigned
<1>1. HandoverInv => HandedOverSigned
  BY DEF HandoverInv, PatchInv
<1>. QED BY <1>1, HandoverInvariant, PTL

\* A vehicle shows what its last return says while that stands, unless two
\* readings of it overlapped or one died between its two writes.
THEOREM ReadingsArrive == Spec => []OdometerFollows
<1>1. HandoverInv => OdometerFollows
  BY DEF HandoverInv, OdometerInv
<1>. QED BY <1>1, HandoverInvariant, PTL

\* A damage report never mixes the lines of two puts that did not overlap.
THEOREM ReportsAreWhole == Spec => []LinesAreOnePut
<1>1. HandoverInv => LinesAreOnePut
  BY DEF HandoverInv, LinesInv
<1>. QED BY <1>1, HandoverInvariant, PTL

\* The write that hands over finds true all that its gates had asked for, of the
\* customer they asked about, unless something was taken away meanwhile.
THEOREM HandoversAreReady == Spec => HandoverIsReady
<1>. DEFINE Opens(t, r) == /\ At(t, "write") /\ req'[t].at # "write" /\ req[t].res = r
                          /\ res[r].status # "IN_PROGRESS" /\ res'[r].status = "IN_PROGRESS"
            Holds(t, r) == \/ /\ "agreement" \in Demands => IsSigned(r)
                              /\ "cargos" \in Demands => ~required \/ r \in sent \/ res'[r].override
                              /\ "papers" \in Demands => res'[r].cust \in papers \/ req[t].body.cust \notin {Absent, req[t].read}
                           \/ t \in disturbed
<1>1. ASSUME HandoverInv, Next, NEW t \in Requests, NEW r \in Reservations, Opens(t, r) PROVE Holds(t, r)
  <2>1. TypeOK /\ Placed /\ AgreementInv /\ Checked(t) /\ req[t].at = "write"
    BY <1>1 DEF HandoverInv, PatchInv, At
  <2>2. Write(t)
    <3>1. ~Elsewhere
      BY <1>1, <2>1 DEF Elsewhere, CreateReservation, ReportSent, ChangePolicy, ChangePapers, DropCustomer, SetOdometer
    <3>2. PICK u \in Requests : RequestDoes(u)
      BY <1>1, <3>1, NextSplit
    <3>3. u = t
      BY <1>1, <2>1, <3>2, Moves
    <3>4. ~(AskCreate(t) \/ AskWrite(t) \/ AskPatch(t) \/ AskPut(t))
      BY <2>1, AskCreateFields, AskWriteFields, AskPatchFields, AskPutFields
    <3>. QED BY <2>1, <3>2, <3>3, <3>4 DEF RequestDoes, Create, Edit, Void, Sign, Count, Sync, SyncFails, File, Replace, Commit, At
  <2>3. res'[r] = Patched(res[r], req[t].body) /\ ~Underway(r)
    BY <1>1, <2>1, <2>2, WrittenFields DEF Underway
  <2>4. /\ res'[r].status = (IF req[t].body.status = Absent THEN res[r].status ELSE req[t].body.status)
        /\ res'[r].override = (IF req[t].body.override = Absent THEN res[r].override ELSE req[t].body.override = "set")
        /\ res'[r].cust = (IF req[t].body.cust = Absent THEN res[r].cust ELSE req[t].body.cust)
    BY <2>3 DEF Patched
  <2>5. HandsOver(req[t])
    BY <1>1, <2>1, <2>4 DEF HandsOver
  <2>6. Ready(req[t]) \/ t \in disturbed
    BY <1>1, <2>1, <2>3, <2>5 DEF Checked
  <2>7. CASE Ready(req[t])
    <3>1. "agreement" \in Demands => IsSigned(r)
      BY <1>1, <2>7 DEF Ready
    <3>2. "cargos" \in Demands => ~required \/ r \in sent \/ res'[r].override
      <4>1. PICK b : b = req[t].body
        OBVIOUS
      <4>2. "cargos" \in Demands =>
              ~required \/ r \in sent \/ b.override = "set" \/ (b.override = Absent /\ res[r].override)
        BY <1>1, <2>7, <4>1 DEF Ready
      <4>3. b.override = "set" => res'[r].override
        BY <2>4, <4>1, NoneAssumption
      <4>4. b.override = Absent => res'[r].override = res[r].override
        BY <2>4, <4>1
      <4>. QED BY <4>2, <4>3, <4>4, Zenon
    <3>3. "papers" \in Demands => res'[r].cust \in papers \/ req[t].body.cust \notin {Absent, req[t].read}
      BY <1>1, <2>1, <2>4, <2>7 DEF Ready
    <3>. QED BY <3>1, <3>2, <3>3
  <2>. QED BY <2>6, <2>7
<1>2. HandoverInv /\ [Next]_vars =>
        [\A t \in Requests, r \in Reservations :
           At(t, "write") /\ req'[t].at # "write" /\ req[t].res = r
             /\ res[r].status # "IN_PROGRESS" /\ res'[r].status = "IN_PROGRESS" =>
             \/ /\ "agreement" \in Demands => IsSigned(r)
                /\ "cargos" \in Demands => ~required \/ r \in sent \/ res'[r].override
                /\ "papers" \in Demands => res'[r].cust \in papers \/ req[t].body.cust \notin {Absent, req[t].read}
             \/ t \in disturbed]_vars
  BY <1>1
<1>. QED BY <1>2, HandoverInvariant, PTL DEF Spec, HandoverIsReady

-----------------------------------------------------------------------------
(***************************************************************************)
(* One request at a time.                                                  *)
(***************************************************************************)

\* The agreement is as it was, or the request that wrote it has ended and no
\* other is under way.
LEMMA SerialKept ==
  ASSUME TypeOK, SerialInv, OneAtATime, NEW t \in Requests, NEW n, Go(t, n), UNCHANGED <<overtaken, mixed>>,
         agreement' = agreement \/ ~At(t, "idle"),
         n.at \in {"edit", "void"} => agreement' = agreement /\ agreement[n.res].status = "DRAFT"
  PROVE  SerialInv'
<1>. SUFFICES ASSUME NEW u \in Requests, req'[u].at \in {"edit", "void"}
              PROVE  agreement'[req'[u].res].status = "DRAFT"
  BY DEF SerialInv
<1>1. CASE u = t
  <2>1. req'[u] = n
    BY <1>1 DEF Go, TypeOK
  <2>. QED BY <2>1
<1>2. CASE u # t
  <2>1. req'[u] = req[u]
    BY <1>2 DEF Go, TypeOK
  <2>2. agreement' = agreement
    BY <1>2, <2>1 DEF OneAtATime, At
  <2>. QED BY <2>1, <2>2 DEF SerialInv
<1>. QED BY <1>1, <1>2

LEMMA IdleIsIdle == Idle.at = "idle"
BY DEF Idle

\* Requests about agreements: an edit or a void finds the draft it has read.
LEMMA AgreementKeepsSerial ==
  ASSUME HandoverInv, SerialInv, OneAtATime, NEW t \in Requests,
         AskCreate(t) \/ Create(t) \/ AskWrite(t) \/ Edit(t) \/ Void(t) \/ Sign(t)
  PROVE  SerialInv'
<1>1. TypeOK /\ req[t] \in Request
  BY DEF HandoverInv, TypeOK
<1>2. CASE AskCreate(t)
  <2>. PICK r \in Reservations :
         /\ Go(t, [Idle EXCEPT !.at = "create", !.res = r, !.text = 1])
         /\ UNCHANGED <<agreement, overtaken, mixed>>
    BY <1>2 DEF AskCreate, Begin, history
  <2>. DEFINE n == [Idle EXCEPT !.at = "create", !.res = r, !.text = 1]
  <2>1. n.at = "create"
    BY DEF Idle
  <2>. HIDE DEF n
  <2>. QED BY <1>1, <2>1, SerialKept DEF n
<1>3. CASE AskWrite(t)
  <2>. PICK r \in Reservations, step \in {"edit", "sign", "void"}, x \in Texts \cup {0} :
         /\ agreement[r] # None /\ agreement[r].status = "DRAFT"
         /\ Ask("agreement", t, [Idle EXCEPT !.at = step, !.res = r, !.saw = agreement[r].status, !.text = x])
         /\ UNCHANGED <<res, agreement, world, odometer, report, history>>
    BY <1>3 DEF AskWrite
  <2>. DEFINE n == [Idle EXCEPT !.at = step, !.res = r, !.saw = agreement[r].status, !.text = x]
  <2>1. n.res = r
    BY DEF Idle
  <2>2. Go(t, n) /\ UNCHANGED <<agreement, overtaken, mixed>>
    BY DEF Ask, Begin, history
  <2>. HIDE DEF n
  <2>. QED BY <1>1, <2>1, <2>2, SerialKept
<1>4. CASE Create(t) \/ Sign(t)
  <2>1. Go(t, Idle) /\ ~At(t, "idle") /\ UNCHANGED <<overtaken, mixed>>
    BY <1>4 DEF Create, Sign, Finish, At, history
  <2>. QED BY <1>1, <2>1, IdleIsIdle, SerialKept
<1>5. CASE Edit(t) \/ Void(t)
  <2>1. Go(t, Idle) /\ ~At(t, "idle") /\ mixed' = mixed /\ overtaken' = Late(t, req[t].res)
    BY <1>5 DEF Edit, Void, Finish, At
  <2>2. ~IsSigned(req[t].res)
    BY <1>5 DEF Edit, Void, At, SerialInv, IsSigned
  <2>3. overtaken' = overtaken
    BY <2>1, <2>2 DEF Late
  <2>. QED BY <1>1, <2>1, <2>3, IdleIsIdle, SerialKept
<1>. QED BY <1>2, <1>3, <1>4, <1>5

\* PATCHes and damage reports do not write agreements; a put finds no other one
\* about to commit.
LEMMA OtherRequestsKeepSerial ==
  ASSUME HandoverInv, SerialInv, OneAtATime, NEW t \in Requests,
         \/ AskPatch(t) \/ Count(t) \/ Write(t) \/ Sync(t) \/ SyncFails(t)
         \/ AskPut(t) \/ File(t) \/ Replace(t) \/ Commit(t)
  PROVE  SerialInv'
<1>1. TypeOK /\ req[t] \in Request
  BY DEF HandoverInv, TypeOK
<1>2. UNCHANGED <<agreement, overtaken>>
  BY DEF AskPatch, Count, Write, Sync, SyncFails, AskPut, File, Replace, Commit, history
<1>3. mixed' = mixed
  <2>1. CASE Replace(t)
    <3>1. ~\E u \in Requests : At(u, "commit") /\ req[u].res = req[t].res
      BY <2>1 DEF Replace, At, OneAtATime
    <3>. QED BY <2>1, <3>1 DEF Replace
  <2>. QED BY <2>1 DEF AskPatch, Count, Write, Sync, SyncFails, AskPut, File, Commit, history
<1>4. PICK n : Go(t, n) /\ n.at \notin {"edit", "void"}
  <2>2. CASE AskPatch(t)
    <3>1. PICK m : m = req'[t]
      OBVIOUS
    <3>2. /\ req' \in [Requests -> Request] /\ req'[t].at \in {"count", "write"}
          /\ \A u \in Requests \ {t} : req'[u] = req[u]
      BY <1>1, <2>2, AskPatchFields
    <3>3. Go(t, m)
      BY <1>1, <3>1, <3>2 DEF Go, TypeOK
    <3>. QED BY <3>1, <3>2, <3>3
  <2>3. CASE Count(t)
    <3>. DEFINE m == [req[t] EXCEPT !.at = "write", !.clear = FALSE]
    <3>1. m.at = "write"
      BY <1>1 DEF Request
    <3>2. Go(t, m) \/ Go(t, Idle)
      BY <2>3 DEF Count, Finish
    <3>. HIDE DEF m
    <3>. QED BY <3>1, <3>2, IdleIsIdle
  <2>4. CASE Write(t)
    <3>1. \A r, row : ToSync(r, row).at = "sync"
      BY DEF ToSync, Idle
    <3>. QED BY <2>4, <3>1, IdleIsIdle DEF Write, Finish
  <2>5. CASE AskPut(t)
    <3>. PICK r \in Reservations :
           Ask("damage", t, [Idle EXCEPT !.at = IF report[r] = None THEN "file" ELSE "replace", !.res = r])
      BY <2>5 DEF AskPut
    <3>. DEFINE m == [Idle EXCEPT !.at = IF report[r] = None THEN "file" ELSE "replace", !.res = r]
    <3>1. m.at \in {"file", "replace"}
      BY DEF Idle
    <3>2. Go(t, m)
      BY DEF Ask, Begin
    <3>. HIDE DEF m
    <3>. QED BY <3>1, <3>2
  <2>6. CASE Replace(t)
    <3>. DEFINE m == [req[t] EXCEPT !.at = "commit", !.lines = report[req[t].res].lines]
    <3>1. m.at = "commit"
      BY <1>1 DEF Request
    <3>2. Go(t, m)
      BY <2>6 DEF Replace
    <3>. HIDE DEF m
    <3>. QED BY <3>1, <3>2
  <2>7. CASE Finish(t)
    BY <2>7, IdleIsIdle DEF Finish
  <2>. QED BY <2>2, <2>3, <2>4, <2>5, <2>6, <2>7 DEF Sync, SyncFails, File, Commit
<1>. QED BY <1>1, <1>2, <1>3, <1>4, SerialKept

LEMMA SerialNext == HandoverInv /\ SerialInv /\ OneAtATime /\ [Next]_vars => SerialInv'
<1>. SUFFICES ASSUME HandoverInv, SerialInv, OneAtATime, [Next]_vars PROVE SerialInv'
  OBVIOUS
<1>1. CASE CreateReservation \/ ReportSent \/ ChangePolicy \/ ChangePapers \/ DropCustomer \/ SetOdometer \/ UNCHANGED vars
  <2>1. UNCHANGED <<agreement, req, overtaken, mixed>>
    BY <1>1 DEF CreateReservation, ReportSent, ChangePolicy, ChangePapers, DropCustomer, SetOdometer, vars, history
  <2>. QED BY <2>1 DEF SerialInv
<1>. QED BY <1>1, AgreementKeepsSerial, OtherRequestsKeepSerial DEF Next

\* While requests do not overlap, a signed agreement is frozen (update, sign and
\* voidDraft check DRAFT and write by id), and a damage report shows the lines of
\* one put (putDamage replaces them): the exceptions of the other theorems
\* need two requests at once.
THEOREM SerialDesk == Spec /\ []OneAtATime => [](SignedStays /\ LinesStayWhole)
<1>1. Init => SerialInv
  BY DEF Init, SerialInv, Idle
<1>2. HandoverInv /\ SerialInv => SignedStays /\ LinesStayWhole
  BY DEF HandoverInv, AgreementInv, LinesInv, SerialInv, SignedIsFrozen, LinesAreOnePut, SignedStays, LinesStayWhole
<1>. QED BY <1>1, <1>2, SerialNext, HandoverInvariant, PTL DEF Spec

\* While PATCHes do not overlap, none dies between its two writes and the fleet
\* desk sets no odometer there, a vehicle shows the reading of the rental it was
\* last to take one from, as long as that rental stands: completed, with its
\* reading, and the vehicle's (syncVehicleOdometerIfCompleted).
THEOREM SerialOdometer == Spec /\ []OneAtATime /\ SyncUndisturbed => []OdometerShows
<1>1. Init => torn = {}
  BY DEF Init
<1>2. OneAtATime /\ torn = {} /\ [Next]_vars /\ [~Disturbance]_vars => (torn = {})'
  <2>. SUFFICES ASSUME OneAtATime, torn = {}, [Next]_vars, [~Disturbance]_vars PROVE torn' = {}
    OBVIOUS
  <2>1. ASSUME NEW t \in Requests, Write(t) PROVE torn' = {}
    <3>1. \A v : Syncing(v) = {}
      BY <2>1 DEF Write, Syncing, At, OneAtATime
    <3>. QED BY <2>1, <3>1 DEF Write
  <2>2. CASE UNCHANGED vars
    BY <2>2 DEF vars
  <2>3. CASE CreateReservation \/ ReportSent \/ ChangePolicy \/ ChangePapers \/ DropCustomer
    BY <2>3 DEF CreateReservation, ReportSent, ChangePolicy, ChangePapers, DropCustomer, history
  <2>4. CASE SetOdometer /\ ~\E t \in Requests : At(t, "sync")
    <3>1. \A v : Syncing(v) = {}
      BY <2>4 DEF Syncing
    <3>. QED BY <2>4, <3>1 DEF SetOdometer
  <2>5. ASSUME NEW t \in Requests, AskCreate(t) \/ Create(t) \/ AskWrite(t) \/ Edit(t) \/ Void(t) \/ Sign(t)
        PROVE  torn' = {}
    BY <2>5 DEF AskCreate, Create, AskWrite, Edit, Void, Sign, history
  <2>6. ASSUME NEW t \in Requests,
               AskPatch(t) \/ Count(t) \/ Sync(t) \/ AskPut(t) \/ File(t) \/ Replace(t) \/ Commit(t)
        PROVE  torn' = {}
    BY <2>6 DEF AskPatch, Count, Sync, AskPut, File, Replace, Commit, history
  <2>. QED BY <2>1, <2>2, <2>3, <2>4, <2>5, <2>6 DEF Next, Disturbance
<1>3. HandoverInv /\ torn = {} => OdometerShows
  <2>. SUFFICES ASSUME HandoverInv, torn = {} PROVE OdometerShows
    OBVIOUS
  <2>1. \A v \in Vehicles : Stands(v) /\ Syncing(v) = {} => odometer[v] = res[returned[v]].km
    BY DEF HandoverInv, OdometerInv, OdometerFollows
  <2>. QED BY <2>1 DEF OdometerShows
<1>. QED BY <1>1, <1>2, <1>3, HandoverInvariant, PTL DEF Spec, SyncUndisturbed
=============================================================================
