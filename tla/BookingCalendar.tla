--------------------------- MODULE BookingCalendar ---------------------------
(***************************************************************************)
(* The rental calendar: the tables Reservation, CalendarBlock, Vehicle     *)
(* (its status) and PartnerReservationIdempotency, and the handlers that   *)
(* read and write them.  The API runs on PostgreSQL at READ COMMITTED and  *)
(* takes no row lock, so every awaited query is a step of its own: what a  *)
(* request has read may be stale when it writes.                           *)
(***************************************************************************)
EXTENDS Naturals

CONSTANTS
  Vehicles,        \* the vehicles of one company and station
  Classes,         \* vehicle classes
  ClassOf,         \* the class of each vehicle
  Bookings,        \* ids of Reservation rows (uuids: never used twice)
  Blocks,          \* ids of CalendarBlock rows
  Requests,        \* the requests that can be in flight at the same time
  Keys,            \* Idempotency-Key values of one partner API key
  Horizon,         \* instants are 0..Horizon
  Ops,             \* the operations clients call
  Trips,           \* the slots (vehicle and window) clients ask for
  NewStatuses,     \* the statuses bookings are created with
  Patches,         \* the PATCH bodies of the desk
  FleetStatuses,   \* the vehicle statuses the desk sets
  None             \* null, undefined

NonBlocking == {"CANCELLED", "COMPLETED", "NO_SHOW"}
Statuses == NonBlocking \cup {"QUOTE", "PENDING_PAYMENT", "CONFIRMED", "IN_PROGRESS"}
Sources == {"STAFF", "PARTNER", "PUBLIC_WEB"}
OutOfRental == {"MAINTENANCE", "OUT_OF_FLEET"}
VehicleStatuses == OutOfRental \cup {"AVAILABLE", "RENTED", "TRANSIT"}
Patching == {"patch", "pay"}
AllOps == {"create", "partner", "public", "basket", "cancel", "delete", "block", "moveBlock",
           "cron"} \cup Patching

ASSUME CalendarAssumption ==
  /\ Horizon \in Nat
  /\ ClassOf \in [Vehicles -> Classes]
  /\ Bookings \cap Blocks = {}
  /\ Ops \subseteq AllOps
  /\ Trips \subseteq [vehicle : Vehicles, from : 0..Horizon, to : 0..Horizon]
  /\ NewStatuses \subseteq Statuses
  /\ Patches \subseteq [vehicle : Vehicles \cup {None}, from : (0..Horizon) \cup {None},
                        to : (0..Horizon) \cup {None}, status : Statuses \cup {None}]
  /\ FleetStatuses \subseteq VehicleStatuses
  /\ None \notin Vehicles /\ None \notin Bookings /\ None \notin Blocks /\ None \notin Keys
  /\ None \notin Statuses /\ None \notin 0..Horizon

VARIABLES
  fleet,      \* Vehicle.status
  booking,    \* Reservation: the row of each id, or None
  block,      \* CalendarBlock: the row of each id, or None
  spent,      \* ids that have been given to a row
  idem,       \* PartnerReservationIdempotency: the row of each key, or None
  req,        \* the requests in flight
  missed,     \* history: <<i, j>> when i was last placed by a write that had not seen j
  replied     \* history: for each key, the bookings a partner was answered with

vars == <<fleet, booking, block, spent, idem, req, missed, replied>>

Time == 0..Horizon
Ids == Bookings \cup Blocks
Slot == [vehicle : Vehicles, from : Time, to : Time]
Row == [vehicle : Vehicles, from : Time, to : Time, status : Statuses, source : Sources]
Body == [vehicle : Vehicles \cup {None}, from : Time \cup {None}, to : Time \cup {None},
         status : Statuses \cup {None}]
KeyRow == [body : Body, id : Bookings]
EmptyBody == [vehicle |-> None, from |-> None, to |-> None, status |-> None]
Idle == [op |-> "none", at |-> "idle", id |-> None, key |-> None, body |-> EmptyBody,
         slot |-> None, want |-> {}, pool |-> {}, plan |-> {}, left |-> {}, late |-> {}]
Request ==
  [op : AllOps \cup {"none"},
   at : {"idle", "lookup", "list", "listBlocks", "listBookings", "vehicle", "blocks",
         "bookings", "write", "dup"},
   id : Ids \cup {None}, key : Keys \cup {None}, body : Body, slot : Slot \cup {None},
   want : SUBSET Classes, pool : SUBSET Vehicles, plan : SUBSET Vehicles,
   left : SUBSET Vehicles, late : SUBSET Ids]

\* Null is not a row.
ASSUME NullAssumption == None \notin Row /\ None \notin KeyRow

(***************************************************************************)
(* The timeline of a vehicle.                                              *)
(***************************************************************************)

halfOpenRangesOverlap(a, b) == a.from < b.to /\ b.from < a.to

\* Slots a and b want the same vehicle at the same time.
Collide(a, b) == a.vehicle = b.vehicle /\ halfOpenRangesOverlap(a, b)

Blocking(b) == booking[b] # None /\ booking[b].status \notin NonBlocking
Placed(i) == IF i \in Bookings THEN Blocking(i) ELSE block[i] # None
SlotOf(i) == IF i \in Bookings THEN booking[i] ELSE block[i]
Clash(i, j) == i # j /\ Placed(i) /\ Placed(j) /\ Collide(SlotOf(i), SlotOf(j))

BlockedFor(slot, but) == \E k \in Blocks \ {but} : block[k] # None /\ Collide(slot, block[k])

\* Mutant: drafts do not block.
BookedFirmly(slot, but) ==
  \E b \in Bookings \ {but} : Blocking(b) /\ booking[b].status # "QUOTE" /\ Collide(slot, booking[b])

BookedFor(slot, but) == \E b \in Bookings \ {but} : Blocking(b) /\ Collide(slot, booking[b])

\* The time order every write of a window is preceded by (assertTimeOrder).
Ordered(x) == x.from < x.to

AsSlot(x) == [vehicle |-> x.vehicle, from |-> x.from, to |-> x.to]

Or(new, old) == IF new = None THEN old ELSE new

\* The slot of a row once the fields the body carries are written over it.
Patched(row, body) == [vehicle |-> Or(body.vehicle, row.vehicle), from |-> Or(body.from, row.from),
                       to |-> Or(body.to, row.to)]

WithStatus(slot, status, source) ==
  [vehicle |-> slot.vehicle, from |-> slot.from, to |-> slot.to, status |-> status, source |-> source]

BodyOf(slot, status) ==
  [vehicle |-> slot.vehicle, from |-> slot.from, to |-> slot.to, status |-> status]
TouchesSlot(body) == body.vehicle # None \/ body.from # None \/ body.to # None

(***************************************************************************)
(* Requests.  A request past its block query notes, in "late", every id    *)
(* placed since the query that would have shown it.                        *)
(***************************************************************************)

Checked == {"bookings", "write"}
Checking(r) == r.at \in Checked \/ r.left # {}

Go(p, next) == req' = [req EXCEPT ![p] = next]
Finish(p) == Go(p, Idle)

\* The ids of S have been (re)placed: no request in flight has seen it.
Notice(S) ==
  req' = [q \in Requests |-> IF Checking(req[q]) THEN [req[q] EXCEPT !.late = @ \cup S] ELSE req[q]]

\* ... and request p, which placed them, ends.
FinishPlacing(p, S) ==
  req' = [q \in Requests |->
            IF q = p THEN Idle
            ELSE IF Checking(req[q]) THEN [req[q] EXCEPT !.late = @ \cup S]
            ELSE req[q]]

\* The ids of S are now where a write put them that had not seen the ids of L.
Place(S, L) ==
  missed' = {m \in missed : m[1] \notin S /\ m[2] \notin S} \cup {m \in S \X L : m[1] # m[2]}

Init ==
  /\ fleet \in [Vehicles -> FleetStatuses]
  /\ booking = [b \in Bookings |-> None]
  /\ block = [k \in Blocks |-> None]
  /\ spent = {}
  /\ idem = [k \in Keys |-> None]
  /\ req = [p \in Requests |-> Idle]
  /\ missed = {}
  /\ replied = [k \in Keys |-> {}]

tables == <<fleet, booking, block, spent, idem>>
history == <<missed, replied>>

(***************************************************************************)
(* Arrivals: the body is validated and, where the handler starts with a    *)
(* read of its target row, that row is read.                               *)
(***************************************************************************)

Arrive(p, op, next) ==
  /\ op \in Ops
  /\ req[p].at = "idle"
  /\ Go(p, [next EXCEPT !.op = op])
  /\ UNCHANGED <<tables, history>>


\* Desk (create) and partner (createForPartner): the status is the body's.
RequestBooking(p) ==
  \E op \in {"create", "partner"}, s \in Trips, st \in NewStatuses, k \in Keys \cup {None} :
    /\ Ordered(s)
    /\ op = "create" => k = None
    /\ Arrive(p, op, [Idle EXCEPT !.at = IF k = None THEN "vehicle" ELSE "lookup", !.key = k,
                                  !.slot = s, !.body = BodyOf(s, st)])

\* Public site: one class (createPublicQuote) or a basket of distinct classes
\* (createPublicQuoteBatch).
RequestQuote(p) ==
  \E op \in {"public", "basket"}, lines \in SUBSET Classes \ {{}}, s \in Trips :
    LET body == [vehicle |-> None, from |-> s.from, to |-> s.to, status |-> "QUOTE"] IN
    /\ Ordered(body)
    /\ op = "public" => \E c \in Classes : lines = {c}
    /\ Arrive(p, op, [Idle EXCEPT !.at = "list", !.want = lines, !.body = body])

\* update (PATCH): the calendar is checked only when the body names a vehicle or an instant.
RequestPatch(p) ==
  \E b \in Bookings, body \in Patches :
    /\ booking[b] # None
    /\ body # EmptyBody
    /\ Ordered(Patched(booking[b], body))
    /\ Arrive(p, "patch", [Idle EXCEPT !.at = IF TouchesSlot(body) THEN "vehicle" ELSE "write",
                                       !.id = b, !.body = body,
                                       !.slot = Patched(booking[b], body)])

\* applyCheckoutSessionCompleted (payments), as far as the status goes: it is
\* read, then written; which sessions pay is left to the payments themselves.
RequestPayment(p) ==
  \E b \in Bookings :
    LET row == booking[b]
        next == IF row.status \in {"QUOTE", "PENDING_PAYMENT"} THEN "CONFIRMED" ELSE row.status
    IN
    /\ row # None
    /\ Arrive(p, "pay", [Idle EXCEPT !.at = "write", !.id = b, !.slot = AsSlot(row),
                                     !.body = [EmptyBody EXCEPT !.status = next]])

\* cancelForPartner: the row read must be a partner's, not past CONFIRMED.
RequestCancel(p) ==
  \E b \in Bookings :
    /\ booking[b] # None
    /\ booking[b].source = "PARTNER"
    /\ booking[b].status \in {"QUOTE", "PENDING_PAYMENT", "CONFIRMED"}
    /\ Arrive(p, "cancel", [Idle EXCEPT !.at = "write", !.id = b])

\* removeDraft: the row read must be a QUOTE.
RequestDelete(p) ==
  \E b \in Bookings :
    /\ booking[b] # None
    /\ booking[b].status = "QUOTE"
    /\ Arrive(p, "delete", [Idle EXCEPT !.at = "write", !.id = b])

\* CalendarBlockService.create and update; update keeps the block's vehicle.
RequestBlock(p) ==
  \/ \E s \in Trips :
       /\ Ordered(s)
       /\ Arrive(p, "block", [Idle EXCEPT !.at = "blocks", !.slot = s, !.body = BodyOf(s, None)])
  \/ \E k \in Blocks, body \in Patches :
       /\ block[k] # None
       /\ body # EmptyBody /\ body.vehicle = None /\ body.status = None
       /\ Ordered(Patched(block[k], body))
       /\ Arrive(p, "moveBlock", [Idle EXCEPT !.at = "blocks", !.id = k, !.body = body,
                                              !.slot = Patched(block[k], body)])

(***************************************************************************)
(* createForPartner's look at the idempotency table, before the checks and *)
(* again after the insert ran into the unique key.  A hit with the same    *)
(* body answers with the recorded booking, any other hit is a 409.         *)
(***************************************************************************)

Answer(k, b) == replied' = [replied EXCEPT ![k] = @ \cup {b}]

Lookup(p) ==
  LET r == req[p]  hit == idem[r.key] IN
  /\ r.at \in {"lookup", "dup"}
  /\ \/ hit = None /\ r.at = "lookup" /\ Go(p, [r EXCEPT !.at = "vehicle"]) /\ UNCHANGED replied
     \/ hit = None /\ r.at = "dup" /\ Finish(p) /\ UNCHANGED replied
     \/ hit # None /\ hit.body # r.body /\ Finish(p) /\ UNCHANGED replied
     \/ hit # None /\ hit.body = r.body /\ Finish(p) /\ Answer(r.key, hit.id)
  /\ UNCHANGED <<tables, missed>>

(***************************************************************************)
(* runAvailabilityForStation, once per line of a public quote: three       *)
(* queries, then the line takes a vehicle the basket does not hold yet.    *)
(***************************************************************************)

Listing(p, at) == req[p].at = at /\ UNCHANGED <<tables, history>>

ListVehicles(p) ==
  \E c \in req[p].want :
    LET found == {v \in Vehicles : ClassOf[v] = c /\ fleet[v] = "AVAILABLE"} IN
    /\ Listing(p, "list")
    /\ Go(p, IF found = {} THEN Idle
             ELSE [req[p] EXCEPT !.at = "listBlocks", !.want = @ \ {c}, !.pool = found])

On(v, body) == [vehicle |-> v, from |-> body.from, to |-> body.to]

ListBlocks(p) ==
  LET free == {v \in req[p].pool : ~BlockedFor(On(v, req[p].body), None)} IN
  /\ Listing(p, "listBlocks")
  /\ Go(p, IF free = {} THEN Idle ELSE [req[p] EXCEPT !.at = "listBookings", !.pool = free])

ListBookings(p) ==
  LET free == {v \in req[p].pool : ~BookedFor(On(v, req[p].body), None)} \ req[p].plan IN
  /\ Listing(p, "listBookings")
  /\ \/ free = {} /\ Finish(p)
     \/ \E v \in free :
          Go(p, [req[p] EXCEPT !.at = "vehicle", !.slot = On(v, req[p].body), !.pool = {},
                               !.plan = @ \cup {v}])

(***************************************************************************)
(* assertVehicleFreeTx: three queries; any conflict ends the request.  A   *)
(* basket runs it once per line, and once more per planned vehicle inside  *)
(* the transaction that inserts its rows ("left": vehicles still to do).   *)
(***************************************************************************)

CheckVehicle(p) ==
  LET r == req[p] IN
  /\ r.at = "vehicle"
  /\ Go(p, IF fleet[r.slot.vehicle] \in OutOfRental THEN Idle ELSE [r EXCEPT !.at = "blocks"])
  /\ UNCHANGED <<tables, history>>

\* What was placed before this query no longer counts as unseen, except in
\* the later rounds of a transaction, whose first rows have been checked.
Fresh(r) == r.left \in {{}, r.plan}

\* Also assertNoBlockOverlap: a block is checked against the blocks only.
CheckBlocks(p) ==
  LET r == req[p]  next == IF r.op \in {"block", "moveBlock"} THEN "write" ELSE "bookings" IN
  /\ r.at = "blocks"
  /\ Go(p, IF BlockedFor(r.slot, r.id) THEN Idle
           ELSE [r EXCEPT !.at = next, !.late = IF Fresh(r) THEN {} ELSE @])
  /\ UNCHANGED <<tables, history>>

CheckBookings(p) ==
  LET r == [req[p] EXCEPT !.late = IF Fresh(req[p]) THEN @ \ Bookings ELSE @]
      rest == r.left \ {r.slot.vehicle}
  IN
  /\ r.at = "bookings"
  /\ \/ BookedFor(r.slot, r.id) /\ Finish(p)
     \/ /\ ~BookedFor(r.slot, r.id)
        /\ \/ r.want # {} /\ Go(p, [r EXCEPT !.at = "list", !.late = {}])
           \/ r.op # "basket" /\ r.want = {} /\ Go(p, [r EXCEPT !.at = "write"])
           \/ /\ r.op = "basket" /\ r.want = {} /\ r.left = {}    \* the transaction begins
              /\ \E v \in r.plan : Go(p, [r EXCEPT !.at = "vehicle", !.left = r.plan,
                                                   !.slot = On(v, r.body), !.late = {}])
           \/ /\ r.left # {} /\ rest # {}
              /\ \E v \in rest : Go(p, [r EXCEPT !.at = "vehicle", !.left = rest, !.slot = On(v, r.body)])
           \/ /\ r.left # {} /\ rest = {}
              /\ Go(p, [r EXCEPT !.at = "write", !.left = {}])
  /\ UNCHANGED <<tables, history>>

(***************************************************************************)
(* The writes.                                                             *)
(***************************************************************************)

SourceOf(op) == CASE op = "create" -> "STAFF" [] op = "partner" -> "PARTNER" [] OTHER -> "PUBLIC_WEB"

\* Mutant: the key row is upserted instead of inserted.
InsertUpserting(p) ==
  LET r == req[p] IN
  /\ r.at = "write" /\ r.op \in {"create", "partner", "public"}
  /\ \E b \in Bookings \ spent :
       /\ booking' = [booking EXCEPT ![b] = WithStatus(r.slot, r.body.status, SourceOf(r.op))]
       /\ spent' = spent \cup {b}
       /\ FinishPlacing(p, {b})
       /\ Place({b}, r.late)
       /\ IF r.key = None THEN UNCHANGED <<idem, replied>>
          ELSE idem' = [idem EXCEPT ![r.key] = [body |-> r.body, id |-> b]] /\ Answer(r.key, b)
  /\ UNCHANGED <<fleet, block>>

\* One insert; a partner's also takes the key, in the same transaction.
InsertBooking(p) ==
  LET r == req[p] IN
  /\ r.at = "write" /\ r.op \in {"create", "partner", "public"}
  /\ r.key # None => idem[r.key] = None
  /\ \E b \in Bookings \ spent :
       /\ booking' = [booking EXCEPT ![b] = WithStatus(r.slot, r.body.status, SourceOf(r.op))]
       /\ spent' = spent \cup {b}
       /\ FinishPlacing(p, {b})
       /\ Place({b}, r.late)
       /\ IF r.key = None THEN UNCHANGED <<idem, replied>>
          ELSE idem' = [idem EXCEPT ![r.key] = [body |-> r.body, id |-> b]] /\ Answer(r.key, b)
  /\ UNCHANGED <<fleet, block>>

\* The insert of the key row violates its unique index: rolled back (P2002).
InsertDuplicate(p) ==
  /\ req[p].at = "write" /\ req[p].key # None /\ idem[req[p].key] # None
  /\ Go(p, [req[p] EXCEPT !.at = "dup", !.late = {}])
  /\ UNCHANGED <<tables, history>>

\* The commit of a basket: one row per planned vehicle.
InsertBasket(p) ==
  LET r == req[p] IN
  /\ r.at = "write" /\ r.op = "basket"
  /\ \E ids \in [r.plan -> Bookings \ spent] :
       LET new == {ids[v] : v \in r.plan} IN
       /\ \A v, w \in r.plan : ids[v] = ids[w] => v = w
       /\ booking' = [b \in Bookings |->
                        IF b \in new
                        THEN LET v == CHOOSE v \in r.plan : ids[v] = b IN
                             WithStatus(On(v, r.body), "QUOTE", "PUBLIC_WEB")
                        ELSE booking[b]]
       /\ spent' = spent \cup new
       /\ FinishPlacing(p, new)
       /\ Place(new, r.late)
  /\ UNCHANGED <<fleet, block, idem, replied>>

\* PATCH, or a payment, writes the fields of the body over the row as it is now.
PatchBooking(p) ==
  LET r == req[p]  old == booking[r.id]  slot == Patched(old, r.body)  status == Or(r.body.status, old.status)
      vetted == TouchesSlot(r.body) /\ slot = r.slot
      moved == slot # AsSlot(old)
      revived == old.status \in NonBlocking /\ status \notin NonBlocking
  IN
  /\ r.at = "write" /\ r.op \in Patching
  /\ IF old = None THEN Finish(p) /\ UNCHANGED <<booking, missed>>
     ELSE /\ booking' = [booking EXCEPT ![r.id] = WithStatus(slot, status, old.source)]
          /\ IF vetted \/ moved \/ revived
             THEN FinishPlacing(p, {r.id}) /\ Place({r.id}, IF vetted THEN r.late ELSE Ids)
             ELSE Finish(p) /\ UNCHANGED missed
  /\ UNCHANGED <<fleet, block, spent, idem, replied>>

CancelBooking(p) ==
  LET r == req[p] IN
  /\ r.at = "write" /\ r.op = "cancel"
  /\ Finish(p)
  /\ booking' = [booking EXCEPT ![r.id] = IF @ = None THEN None ELSE [@ EXCEPT !.status = "CANCELLED"]]
  /\ UNCHANGED <<fleet, block, spent, idem, history>>

\* Mutant: the key row stays behind.
DeleteBookingOnly(p) ==
  LET r == req[p] IN
  /\ r.at = "write" /\ r.op = "delete"
  /\ Finish(p)
  /\ booking' = [booking EXCEPT ![r.id] = None]
  /\ UNCHANGED <<fleet, block, spent, idem, history>>

\* The delete cascades to the idempotency row.
DeleteBooking(p) ==
  LET r == req[p] IN
  /\ r.at = "write" /\ r.op = "delete"
  /\ Finish(p)
  /\ booking' = [booking EXCEPT ![r.id] = None]
  /\ idem' = [k \in Keys |-> IF idem[k] # None /\ idem[k].id = r.id THEN None ELSE idem[k]]
  /\ UNCHANGED <<fleet, block, spent, history>>

WriteBlock(p) ==
  LET r == req[p] IN
  /\ r.at = "write" /\ r.op \in {"block", "moveBlock"}
  /\ \/ \E k \in Blocks \ spent :
          /\ r.op = "block"
          /\ block' = [block EXCEPT ![k] = r.slot]
          /\ spent' = spent \cup {k}
          /\ FinishPlacing(p, {k})
          /\ Place({k}, Bookings \cup r.late)
     \/ /\ r.op = "moveBlock" /\ block[r.id] # None
        /\ LET new == Patched(block[r.id], r.body) IN
           /\ block' = [block EXCEPT ![r.id] = new]
           /\ FinishPlacing(p, {r.id})
           /\ Place({r.id}, IF new = r.slot THEN Bookings \cup r.late ELSE Ids)
        /\ UNCHANGED spent
     \/ /\ r.op = "moveBlock" /\ block[r.id] = None
        /\ Finish(p)
        /\ UNCHANGED <<block, spent, missed>>
  /\ UNCHANGED <<fleet, booking, idem, replied>>

\* processDueAutoBlocks (cron): a maintenance block from now, or from the end of
\* the ongoing rental it has read; it looks at nothing else on the timeline.
AutoBlock(k) ==
  /\ "cron" \in Ops /\ k \notin spent
  /\ \E s \in Trips : Ordered(s) /\ block' = [block EXCEPT ![k] = s]
  /\ spent' = spent \cup {k}
  /\ Notice({k})
  /\ Place({k}, Ids)
  /\ UNCHANGED <<fleet, booking, idem, replied>>

RemoveBlock(k) ==
  /\ block[k] # None
  /\ block' = [block EXCEPT ![k] = None]
  /\ UNCHANGED <<fleet, booking, spent, idem, req, history>>

\* VehicleService.update sets any status, whatever is booked.
SetVehicleStatus(v) ==
  /\ \E s \in FleetStatuses : fleet' = [fleet EXCEPT ![v] = s]
  /\ UNCHANGED <<booking, block, spent, idem, req, history>>

\* The API process dies, or a query fails: the request ends, a transaction rolls back.
Abort(p) ==
  /\ req[p].at # "idle"
  /\ Finish(p)
  /\ UNCHANGED <<tables, history>>

Step(p) ==
  \/ Lookup(p) \/ ListVehicles(p) \/ ListBlocks(p) \/ ListBookings(p)
  \/ CheckVehicle(p) \/ CheckBlocks(p) \/ CheckBookings(p)
  \/ InsertBooking(p) \/ InsertDuplicate(p) \/ InsertBasket(p)
  \/ PatchBooking(p) \/ CancelBooking(p) \/ DeleteBooking(p) \/ WriteBlock(p) \/ Abort(p)

Next ==
  \/ \E p \in Requests :
       \/ RequestBooking(p) \/ RequestQuote(p) \/ RequestPatch(p) \/ RequestPayment(p)
       \/ RequestCancel(p) \/ RequestDelete(p) \/ RequestBlock(p) \/ Step(p)
  \/ \E k \in Blocks : AutoBlock(k) \/ RemoveBlock(k)
  \/ \E v \in Vehicles : SetVehicleStatus(v)

Spec == Init /\ [][Next]_vars

-----------------------------------------------------------------------------
(***************************************************************************)
(* Properties.                                                             *)
(***************************************************************************)

\* Every variable keeps its shape.
TypeOK ==
  /\ fleet \in [Vehicles -> VehicleStatuses]
  /\ booking \in [Bookings -> Row \cup {None}]
  /\ block \in [Blocks -> Slot \cup {None}]
  /\ spent \in SUBSET Ids
  /\ idem \in [Keys -> KeyRow \cup {None}]
  /\ req \in [Requests -> Request]
  /\ missed \in SUBSET (Ids \X Ids)
  /\ replied \in [Keys -> SUBSET Bookings]

\* Two rows that hold one vehicle at one time were placed by writes that did
\* not see each other: the later of the two was not checked against the
\* earlier one's placement, or its check ran before it (assertVehicleFreeTx
\* and assertNoBlockOverlap let nothing through that they could have seen).
ClashesWereUnseen ==
  \A i, j \in Ids : Clash(i, j) => <<i, j>> \in missed \/ <<j, i>> \in missed

\* Every live booking a partner was answered with under an Idempotency-Key is
\* the one its key row records: retries, however they interleave, never
\* leave a key with two bookings (createForPartner's unique index and P2002 path).
OneBookingPerKey ==
  \A k \in Keys : \A b \in replied[k] :
    booking[b] # None => idem[k] # None /\ idem[k].id = b

\* An Idempotency-Key row never outlives its reservation.
KeyRowsPoint == \A k \in Keys : idem[k] # None => booking[idem[k].id] # None

-----------------------------------------------------------------------------
(***************************************************************************)
(* The inductive invariant behind ClashesWereUnseen and OneBookingPerKey.  *)
(***************************************************************************)

Quoting == {"public", "basket"}
Inserting == {"create", "partner"} \cup Quoting
Vetting == {"vehicle", "blocks", "bookings"}
Listings == {"list", "listBlocks", "listBookings"}

\* Which operation may be where, with which fields filled.
Shaped(r) ==
  /\ r.op \in {"create", "partner", "patch", "block", "moveBlock"} => r.slot \in Slot
  /\ r.at \in Vetting => r.slot \in Slot
  /\ r.at = "write" /\ r.op \notin {"cancel", "delete"} => r.slot \in Slot
  /\ r.op \in Inserting => r.body.status \in Statuses /\ r.id = None
  /\ r.op \in Quoting => /\ r.body.from \in Time /\ r.body.to \in Time /\ r.body.status = "QUOTE"
                         /\ r.at \in Vetting => r.slot = On(r.slot.vehicle, r.body)
  /\ r.op \in Patching \cup {"cancel", "delete"} => r.id \in Bookings
  /\ r.op = "block" => r.id = None
  /\ r.op = "moveBlock" => r.id \in Blocks
  /\ r.at \in {"lookup", "dup"} => r.key # None
  /\ r.key # None => r.op = "partner"
  /\ r.at \in Listings => r.op \in Quoting
  /\ r.want # {} => r.op \in Quoting /\ r.left = {}
  /\ r.at = "bookings" => r.op \notin {"block", "moveBlock"}
  /\ r.left # {} => r.at \in Vetting /\ r.op = "basket" /\ r.left \subseteq r.plan /\ r.slot.vehicle \in r.left

\* Nothing placed on the ids of S collides with the slot.
Clear(slot, S) == \A i \in S : Placed(i) => ~Collide(slot, SlotOf(i))

\* The vehicles a basket's transaction has been through.
Vetted(r) == IF r.at = "write" THEN r.plan ELSE IF r.left = {} THEN {} ELSE r.plan \ r.left

\* What the queries of request r found still holds, but for what came later.
ChecksHold(r) ==
  /\ r.at = "bookings" => Clear(r.slot, Blocks \ (r.late \cup {r.id}))
  /\ r.at = "write" =>
       /\ r.op \in {"create", "partner", "public"} => Clear(r.slot, Ids \ r.late)
       /\ r.op \in Patching /\ TouchesSlot(r.body) =>
            Clear(r.slot, Ids \ (r.late \cup {r.id}))
       /\ r.op \in {"block", "moveBlock"} => Clear(r.slot, Blocks \ (r.late \cup {r.id}))
  /\ r.op = "basket" => \A v \in Vetted(r) : Clear(On(v, r.body), Ids \ r.late)

\* Only ids that have been given out are in the table and in the answers.
SpentOnce ==
  /\ \A b \in Bookings : booking[b] # None => b \in spent
  /\ \A k \in Keys : replied[k] \subseteq spent

RequestsSound == \A p \in Requests : Shaped(req[p]) /\ ChecksHold(req[p])

\* Inductive: requests in flight (the handlers' own variables) hold what their
\* checks established, whatever the others have written since.
CalendarInv == TypeOK /\ RequestsSound /\ SpentOnce /\ ClashesWereUnseen /\ KeyRowsPoint /\ OneBookingPerKey

-----------------------------------------------------------------------------
(***************************************************************************)
(* What ARCHITECTURE.md says, and the code does not keep.                  *)
(***************************************************************************)

\* ARCHITECTURE.md: an assigned vehicle's timeline is free of overlapping
\* reservations.
NoDoubleBooking == \A b, c \in Bookings : ~Clash(b, c)

\* Two things only let the code break it: requests that overlap in time, and
\* a PATCH that names neither vehicle nor instant and takes a cancelled,
\* completed or no-show booking back, which update does not check.

\* No request begins while another is under way.
OneAtATime == \A p, q \in Requests : req[p].at # "idle" /\ req[q].at # "idle" => p = q

Revival(p) ==
  LET r == req[p]  old == booking[r.id] IN
  /\ PatchBooking(p)
  /\ r.op = "patch" /\ ~TouchesSlot(r.body)
  /\ old # None /\ old.status \in NonBlocking
  /\ Or(r.body.status, old.status) \notin NonBlocking

NoRevivals == [][~\E p \in Requests : Revival(p)]_vars

\* What the one request under way has read of its booking is as it was, and
\* only the cron has placed anything since its checks.
Current(r) ==
  /\ r.late \cap Bookings = {}
  /\ r.at # "idle" /\ r.op \in Patching =>
       /\ booking[r.id] # None
       /\ r.slot = Patched(booking[r.id], r.body)
       /\ r.op = "pay" =>
            ~TouchesSlot(r.body) /\ (booking[r.id].status \in NonBlocking => r.body.status \in NonBlocking)

SerialInv ==
  /\ \A b, c \in Bookings : <<b, c>> \notin missed
  /\ \A p \in Requests : Current(req[p])
=============================================================================
