------------------------ MODULE BookingCalendarProofs ------------------------
(***************************************************************************)
(* Proofs about BookingCalendar, for every value of its constants.         *)
(***************************************************************************)
EXTENDS BookingCalendar, TLAPS

Sound(r) == r \in Request /\ Shaped(r)

RequestsShaped == \A p \in Requests : Shaped(req[p])

LEMMA IdleSound == Sound(Idle)
BY CalendarAssumption DEF Sound, Request, Shaped, Idle, EmptyBody, Body, AllOps, Patching, Quoting, Inserting,
   Vetting, Listings

LEMMA GoSound ==
  ASSUME TypeOK, RequestsShaped, NEW p \in Requests, NEW n, Sound(n), Go(p, n)
  PROVE  /\ req' \in [Requests -> Request]
         /\ \A q \in Requests : Shaped(req'[q])
BY DEF TypeOK, RequestsShaped, Sound, Go

LEMMA RequestBookingSound ==
  ASSUME TypeOK, RequestsShaped, NEW p \in Requests, RequestBooking(p)
  PROVE  TypeOK' /\ \A q \in Requests : Shaped(req'[q])
<1>. PICK op \in {"create", "partner"}, s \in Trips, st \in NewStatuses, k \in Keys \cup {None} :
       /\ Ordered(s)
       /\ op = "create" => k = None
       /\ Arrive(p, op, [Idle EXCEPT !.at = IF k = None THEN "vehicle" ELSE "lookup", !.key = k,
                                     !.slot = s, !.body = BodyOf(s, st)])
  BY DEF RequestBooking
<1>. DEFINE m == [Idle EXCEPT !.at = IF k = None THEN "vehicle" ELSE "lookup", !.key = k,
                              !.slot = s, !.body = BodyOf(s, st)]
            n == [m EXCEPT !.op = op]
<1>1. Go(p, n) /\ UNCHANGED <<tables, history>>
  BY DEF Arrive
<1>2. Sound(n)
  <2>1. s \in Slot /\ st \in Statuses
    BY CalendarAssumption DEF Slot, Time
  <2>2. BodyOf(s, st) \in Body /\ BodyOf(s, st).status = st
    BY <2>1 DEF Body, BodyOf, Slot, Time
  <2>3. n \in Request
    BY <2>1, <2>2, CalendarAssumption DEF Request, AllOps, Patching, Idle
  <2>4. Shaped(n)
    BY <2>1, <2>2, CalendarAssumption DEF Idle, Shaped, Quoting, Inserting, Vetting, Listings, Patching
  <2>. QED BY <2>3, <2>4 DEF Sound
<1>. HIDE DEF n
<1>. QED BY <1>1, <1>2, GoSound DEF TypeOK, tables, history

LEMMA RequestQuoteSound ==
  ASSUME TypeOK, RequestsShaped, NEW p \in Requests, RequestQuote(p)
  PROVE  TypeOK' /\ \A q \in Requests : Shaped(req'[q])
<1>. DEFINE body(s) == [vehicle |-> None, from |-> s.from, to |-> s.to, status |-> "QUOTE"]
<1>. PICK op \in {"public", "basket"}, lines \in SUBSET Classes \ {{}}, s \in Trips :
       Arrive(p, op, [Idle EXCEPT !.at = "list", !.want = lines, !.body = body(s)])
  BY DEF RequestQuote
<1>. DEFINE m == [Idle EXCEPT !.at = "list", !.want = lines, !.body = body(s)]
            n == [m EXCEPT !.op = op]
<1>1. Go(p, n) /\ UNCHANGED <<tables, history>>
  BY DEF Arrive
<1>2. Sound(n)
  <2>1. s \in Slot
    BY CalendarAssumption DEF Slot, Time
  <2>2. body(s) \in Body
    BY <2>1 DEF Body, Slot, Statuses
  <2>. QED BY <2>1, <2>2, CalendarAssumption
       DEF Sound, Request, AllOps, Patching, Idle, Shaped, Quoting, Inserting, Vetting, Listings, Slot, Statuses
<1>. HIDE DEF n
<1>. QED BY <1>1, <1>2, GoSound DEF TypeOK, tables, history

LEMMA PatchedSlot ==
  ASSUME NEW row, row.vehicle \in Vehicles, row.from \in Time, row.to \in Time, NEW body \in Body
  PROVE  Patched(row, body) \in Slot
BY DEF Patched, Or, Slot, Body

LEMMA RequestPatchSound ==
  ASSUME TypeOK, RequestsShaped, NEW p \in Requests, RequestPatch(p)
  PROVE  TypeOK' /\ \A q \in Requests : Shaped(req'[q])
<1>. PICK b \in Bookings, body \in Patches :
       /\ booking[b] # None
       /\ Arrive(p, "patch", [Idle EXCEPT !.at = IF TouchesSlot(body) THEN "vehicle" ELSE "write",
                                          !.id = b, !.body = body, !.slot = Patched(booking[b], body)])
  BY DEF RequestPatch
<1>. DEFINE m == [Idle EXCEPT !.at = IF TouchesSlot(body) THEN "vehicle" ELSE "write",
                              !.id = b, !.body = body, !.slot = Patched(booking[b], body)]
            n == [m EXCEPT !.op = "patch"]
<1>1. Go(p, n) /\ UNCHANGED <<tables, history>>
  BY DEF Arrive
<1>2. Sound(n)
  <2>1. body \in Body
    BY CalendarAssumption DEF Body, Time
  <2>2. Patched(booking[b], body) \in Slot
    BY <2>1, PatchedSlot DEF TypeOK, Row
  <2>. QED BY <2>1, <2>2, CalendarAssumption
       DEF Sound, Request, AllOps, Patching, Idle, Ids, Shaped, Quoting, Inserting, Vetting, Listings
<1>. HIDE DEF n
<1>. QED BY <1>1, <1>2, GoSound DEF TypeOK, tables, history

LEMMA RequestPaymentSound ==
  ASSUME TypeOK, RequestsShaped, NEW p \in Requests, RequestPayment(p)
  PROVE  TypeOK' /\ \A q \in Requests : Shaped(req'[q])
<1>. PICK b \in Bookings : LET row == booking[b]
                              next == IF row.status \in {"QUOTE", "PENDING_PAYMENT"} THEN "CONFIRMED" ELSE row.status
                          IN  /\ row # None
                              /\ Arrive(p, "pay", [Idle EXCEPT !.at = "write", !.id = b, !.slot = AsSlot(row),
                                                               !.body = [EmptyBody EXCEPT !.status = next]])
  BY DEF RequestPayment
<1>. DEFINE row == booking[b]
            next == IF row.status \in {"QUOTE", "PENDING_PAYMENT"} THEN "CONFIRMED" ELSE row.status
            body == [EmptyBody EXCEPT !.status = next]
            m == [Idle EXCEPT !.at = "write", !.id = b, !.slot = AsSlot(row), !.body = body]
            n == [m EXCEPT !.op = "pay"]
<1>1. Go(p, n) /\ UNCHANGED <<tables, history>>
  BY DEF Arrive
<1>2. Sound(n)
  <2>1. row \in Row
    BY DEF TypeOK
  <2>2. AsSlot(row) \in Slot /\ body \in Body
    BY <2>1 DEF AsSlot, Slot, Row, Body, EmptyBody, Statuses
  <2>. HIDE DEF row, body
  <2>. QED BY <2>2, CalendarAssumption
       DEF Sound, Request, AllOps, Patching, Idle, Ids, Shaped, Quoting, Inserting, Vetting, Listings
<1>. HIDE DEF n
<1>. QED BY <1>1, <1>2, GoSound DEF TypeOK, tables, history

LEMMA RequestOnRowSound ==
  ASSUME TypeOK, RequestsShaped, NEW p \in Requests, RequestCancel(p) \/ RequestDelete(p)
  PROVE  TypeOK' /\ \A q \in Requests : Shaped(req'[q])
<1>. PICK b \in Bookings, op \in {"cancel", "delete"} :
       Arrive(p, op, [Idle EXCEPT !.at = "write", !.id = b])
  BY DEF RequestCancel, RequestDelete
<1>. DEFINE m == [Idle EXCEPT !.at = "write", !.id = b]
            n == [m EXCEPT !.op = op]
<1>1. Go(p, n) /\ UNCHANGED <<tables, history>>
  BY DEF Arrive
<1>2. Sound(n)
  BY CalendarAssumption DEF Sound, Request, AllOps, Patching, Idle, Ids, EmptyBody, Body, Shaped, Quoting,
     Inserting, Vetting, Listings
<1>. HIDE DEF n
<1>. QED BY <1>1, <1>2, GoSound DEF TypeOK, tables, history

LEMMA RequestBlockSound ==
  ASSUME TypeOK, RequestsShaped, NEW p \in Requests, RequestBlock(p)
  PROVE  TypeOK' /\ \A q \in Requests : Shaped(req'[q])
<1>1. CASE \E s \in Trips :
             /\ Ordered(s)
             /\ Arrive(p, "block", [Idle EXCEPT !.at = "blocks", !.slot = s, !.body = BodyOf(s, None)])
  <2>. PICK s \in Trips :
         Arrive(p, "block", [Idle EXCEPT !.at = "blocks", !.slot = s, !.body = BodyOf(s, None)])
    BY <1>1
  <2>. DEFINE m == [Idle EXCEPT !.at = "blocks", !.slot = s, !.body = BodyOf(s, None)]
              n == [m EXCEPT !.op = "block"]
  <2>1. Go(p, n) /\ UNCHANGED <<tables, history>>
    BY DEF Arrive
  <2>2. Sound(n)
    <3>1. s \in Slot /\ BodyOf(s, None) \in Body
      BY CalendarAssumption DEF Slot, Time, Body, BodyOf
    <3>. QED BY <3>1, CalendarAssumption
         DEF Sound, Request, AllOps, Patching, Idle, Shaped, Quoting, Inserting, Vetting, Listings
  <2>. HIDE DEF n
  <2>. QED BY <2>1, <2>2, GoSound DEF TypeOK, tables, history
<1>2. CASE \E k \in Blocks, body \in Patches :
             /\ block[k] # None
             /\ body # EmptyBody /\ body.vehicle = None /\ body.status = None
             /\ Ordered(Patched(block[k], body))
             /\ Arrive(p, "moveBlock", [Idle EXCEPT !.at = "blocks", !.id = k, !.body = body,
                                                    !.slot = Patched(block[k], body)])
  <2>. PICK k \in Blocks, body \in Patches :
         /\ block[k] # None
         /\ Arrive(p, "moveBlock", [Idle EXCEPT !.at = "blocks", !.id = k, !.body = body,
                                                !.slot = Patched(block[k], body)])
    BY <1>2
  <2>. DEFINE m == [Idle EXCEPT !.at = "blocks", !.id = k, !.body = body, !.slot = Patched(block[k], body)]
              n == [m EXCEPT !.op = "moveBlock"]
  <2>1. Go(p, n) /\ UNCHANGED <<tables, history>>
    BY DEF Arrive
  <2>2. Sound(n)
    <3>1. body \in Body
      BY CalendarAssumption DEF Body, Time
    <3>2. Patched(block[k], body) \in Slot
      BY <3>1, PatchedSlot DEF TypeOK, Slot
    <3>. QED BY <3>1, <3>2, CalendarAssumption
         DEF Sound, Request, AllOps, Patching, Idle, Ids, Shaped, Quoting, Inserting, Vetting, Listings
  <2>. HIDE DEF n
  <2>. QED BY <2>1, <2>2, GoSound DEF TypeOK, tables, history
<1>. QED BY <1>1, <1>2 DEF RequestBlock

LEMMA LookupSound ==
  ASSUME TypeOK, RequestsShaped, NEW p \in Requests, Lookup(p)
  PROVE  TypeOK' /\ \A q \in Requests : Shaped(req'[q])
<1>. DEFINE r == req[p]
<1>1. r \in Request /\ Shaped(r) /\ r.key \in Keys
  BY DEF TypeOK, RequestsShaped, Shaped, Request, Lookup
<1>2. r.at = "lookup" => Sound([r EXCEPT !.at = "vehicle"])
  BY <1>1 DEF Sound, Request, Shaped, Vetting, Quoting, Inserting, Listings
<1>3. PICK n : Sound(n) /\ Go(p, n)
  BY <1>2, IdleSound DEF Lookup, Finish
<1>4. replied' \in [Keys -> SUBSET Bookings]
  BY <1>1 DEF Lookup, Answer, TypeOK, KeyRow
<1>5. UNCHANGED <<tables, missed>>
  BY DEF Lookup
<1>. QED BY <1>3, <1>4, <1>5, GoSound DEF TypeOK, tables

LEMMA ListingSound ==
  ASSUME TypeOK, RequestsShaped, NEW p \in Requests,
         ListVehicles(p) \/ ListBlocks(p) \/ ListBookings(p)
  PROVE  TypeOK' /\ \A q \in Requests : Shaped(req'[q])
<1>. DEFINE r == req[p]
<1>1. r \in Request /\ Shaped(r)
  BY DEF TypeOK, RequestsShaped
<1>2. PICK n : Sound(n) /\ Go(p, n)
  <2>1. CASE ListVehicles(p)
    <3>1. PICK c \in r.want : Go(p, IF {v \in Vehicles : ClassOf[v] = c /\ fleet[v] = "AVAILABLE"} = {} THEN Idle
                   ELSE [r EXCEPT !.at = "listBlocks", !.want = @ \ {c},
                                  !.pool = {v \in Vehicles : ClassOf[v] = c /\ fleet[v] = "AVAILABLE"}])
      BY <2>1 DEF ListVehicles
    <3>2. \A S \in SUBSET Vehicles : Sound([r EXCEPT !.at = "listBlocks", !.want = @ \ {c}, !.pool = S])
      BY <1>1, <2>1 DEF ListVehicles, Listing, Sound, Request, Shaped, Listings, Vetting, Quoting, Inserting
    <3>. QED BY <3>1, <3>2, IdleSound
  <2>2. CASE ListBlocks(p)
    <3>1. \A S \in SUBSET Vehicles : Sound([r EXCEPT !.at = "listBookings", !.pool = S])
      BY <1>1, <2>2 DEF ListBlocks, Listing, Sound, Request, Shaped, Listings, Vetting, Quoting, Inserting
    <3>2. r.pool \subseteq Vehicles
      BY <1>1 DEF Request
    <3>. QED BY <2>2, <3>1, <3>2, IdleSound DEF ListBlocks
  <2>3. CASE ListBookings(p)
    <3>1. \A v \in Vehicles : Sound([r EXCEPT !.at = "vehicle", !.slot = On(v, r.body), !.pool = {},
                                              !.plan = @ \cup {v}])
      <4>. TAKE v \in Vehicles
      <4>1. On(v, r.body) \in Slot
        BY <1>1, <2>3 DEF ListBookings, Listing, Shaped, Listings, On, Slot
      <4>. QED BY <1>1, <2>3, <4>1 DEF ListBookings, Listing, Sound, Request, Shaped, Listings, Vetting,
                  Quoting, Inserting, On
    <3>2. r.pool \subseteq Vehicles
      BY <1>1 DEF Request
    <3>. QED BY <2>3, <3>1, <3>2, IdleSound DEF ListBookings, Finish
  <2>. QED BY <2>1, <2>2, <2>3
<1>3. UNCHANGED <<tables, history>>
  BY DEF ListVehicles, ListBlocks, ListBookings, Listing
<1>. QED BY <1>2, <1>3, GoSound DEF TypeOK, tables, history

LEMMA CheckSound ==
  ASSUME TypeOK, RequestsShaped, NEW p \in Requests, CheckVehicle(p) \/ CheckBlocks(p) \/ CheckBookings(p)
  PROVE  TypeOK' /\ \A q \in Requests : Shaped(req'[q])
<1>. DEFINE r == req[p]
<1>1. r \in Request /\ Shaped(r)
  BY DEF TypeOK, RequestsShaped
<1>. USE DEF Request, Shaped, Listings, Vetting, Quoting, Inserting
<1>2. PICK n : Sound(n) /\ Go(p, n)
  <2>1. CASE CheckVehicle(p)
    <3>1. Sound([r EXCEPT !.at = "blocks"])
      BY <1>1, <2>1 DEF CheckVehicle, Sound
    <3>. QED BY <2>1, <3>1, IdleSound DEF CheckVehicle
  <2>2. CASE CheckBlocks(p)
    <3>. DEFINE next == IF r.op \in {"block", "moveBlock"} THEN "write" ELSE "bookings"
                m == [r EXCEPT !.at = next, !.late = IF Fresh(r) THEN {} ELSE @]
    <3>1. Sound(m)
      BY <1>1, <2>2 DEF CheckBlocks, Sound
    <3>. HIDE DEF m
    <3>2. Go(p, m) \/ Go(p, Idle)
      BY <2>2 DEF CheckBlocks, m
    <3>. QED BY <3>1, <3>2, IdleSound
  <2>3. CASE CheckBookings(p)
    <3>. DEFINE c == [r EXCEPT !.late = IF Fresh(r) THEN @ \ Bookings ELSE @]
                rest == c.left \ {c.slot.vehicle}
    <3>1. Sound(c) /\ c.at = "bookings"
      BY <1>1, <2>3 DEF CheckBookings, Sound
    <3>2. \/ Go(p, Idle)
          \/ c.want # {} /\ Go(p, [c EXCEPT !.at = "list", !.late = {}])
          \/ c.op # "basket" /\ c.want = {} /\ Go(p, [c EXCEPT !.at = "write"])
          \/ /\ c.op = "basket" /\ c.want = {} /\ c.left = {}
             /\ \E v \in c.plan : Go(p, [c EXCEPT !.at = "vehicle", !.left = c.plan, !.slot = On(v, c.body),
                                                  !.late = {}])
          \/ /\ c.left # {}
             /\ \E v \in rest : Go(p, [c EXCEPT !.at = "vehicle", !.left = rest, !.slot = On(v, c.body)])
          \/ c.left # {} /\ Go(p, [c EXCEPT !.at = "write", !.left = {}])
      BY <2>3 DEF CheckBookings, Finish
    <3>. HIDE DEF c, rest
    <3>3. c.want # {} => Sound([c EXCEPT !.at = "list", !.late = {}])
      BY <3>1 DEF Sound
    <3>4. c.op # "basket" /\ c.want = {} => Sound([c EXCEPT !.at = "write"])
      BY <3>1 DEF Sound
    <3>5. ASSUME c.op = "basket", c.want = {}, c.left = {}, NEW v \in c.plan
          PROVE  Sound([c EXCEPT !.at = "vehicle", !.left = c.plan, !.slot = On(v, c.body), !.late = {}])
      BY <3>1, <3>5 DEF Sound, Slot, On, rest
    <3>6. ASSUME c.left # {}, NEW v \in rest
          PROVE  Sound([c EXCEPT !.at = "vehicle", !.left = rest, !.slot = On(v, c.body)])
      BY <3>1, <3>6 DEF Sound, Slot, On, rest
    <3>7. c.left # {} => Sound([c EXCEPT !.at = "write", !.left = {}])
      BY <3>1 DEF Sound
    <3>. QED BY <3>2, <3>3, <3>4, <3>5, <3>6, <3>7, IdleSound
  <2>. QED BY <2>1, <2>2, <2>3
<1>3. UNCHANGED <<tables, history>>
  BY DEF CheckVehicle, CheckBlocks, CheckBookings
<1>. QED BY <1>2, <1>3, GoSound DEF TypeOK, tables, history

LEMMA FinishPlacingSound ==
  ASSUME TypeOK, RequestsShaped, NEW p \in Requests, NEW S \in SUBSET Ids, FinishPlacing(p, S)
  PROVE  /\ req' \in [Requests -> Request]
         /\ \A q \in Requests : Shaped(req'[q])
<1>1. ASSUME NEW r, Sound(r) PROVE Sound([r EXCEPT !.late = @ \cup S])
  BY <1>1 DEF Sound, Request, Shaped, Quoting, Inserting, Vetting, Listings
<1>2. ASSUME NEW q \in Requests PROVE Sound(req'[q])
  <2>1. Sound(req[q])
    BY DEF TypeOK, RequestsShaped, Sound
  <2>. QED BY <2>1, <1>1, IdleSound DEF FinishPlacing
<1>. QED BY <1>2 DEF Sound, FinishPlacing

LEMMA PlaceType ==
  ASSUME TypeOK, NEW S \in SUBSET Ids, NEW L \in SUBSET Ids, Place(S, L)
  PROVE  missed' \in SUBSET (Ids \X Ids)
BY DEF TypeOK, Place

LEMMA InsertBookingSound ==
  ASSUME TypeOK, RequestsShaped, NEW p \in Requests, InsertBooking(p)
  PROVE  TypeOK' /\ \A q \in Requests : Shaped(req'[q])
<1>. DEFINE r == req[p]
<1>1. r \in Request /\ Shaped(r) /\ r.at = "write" /\ r.op \in {"create", "partner", "public"}
  BY DEF TypeOK, RequestsShaped, InsertBooking
<1>2. r.slot \in Slot /\ r.body \in Body /\ r.body.status \in Statuses /\ r.late \in SUBSET Ids
  BY <1>1 DEF Shaped, Inserting, Quoting, Request
<1>3. PICK b \in Bookings \ spent :
       /\ booking' = [booking EXCEPT ![b] = WithStatus(r.slot, r.body.status, SourceOf(r.op))]
       /\ spent' = spent \cup {b}
       /\ FinishPlacing(p, {b})
       /\ Place({b}, r.late)
       /\ IF r.key = None THEN UNCHANGED <<idem, replied>>
          ELSE idem' = [idem EXCEPT ![r.key] = [body |-> r.body, id |-> b]] /\ Answer(r.key, b)
  BY DEF InsertBooking
<1>4. WithStatus(r.slot, r.body.status, SourceOf(r.op)) \in Row
  BY <1>1, <1>2 DEF WithStatus, SourceOf, Row, Slot, Sources
<1>5. booking' \in [Bookings -> Row \cup {None}] /\ spent' \in SUBSET Ids
  BY <1>3, <1>4 DEF TypeOK, Ids
<1>6. /\ idem' \in [Keys -> [body : Body, id : Bookings] \cup {None}]
      /\ replied' \in [Keys -> SUBSET Bookings]
  BY <1>1, <1>2, <1>3 DEF TypeOK, Request, Answer, KeyRow
<1>7. UNCHANGED <<fleet, block>>
  BY DEF InsertBooking
<1>. QED BY <1>2, <1>3, <1>5, <1>6, <1>7, FinishPlacingSound, PlaceType DEF TypeOK, Ids, KeyRow

LEMMA InsertBasketSound ==
  ASSUME TypeOK, RequestsShaped, NEW p \in Requests, InsertBasket(p)
  PROVE  TypeOK' /\ \A q \in Requests : Shaped(req'[q])
<1>. DEFINE r == req[p]
<1>1. /\ r \in Request /\ r.plan \in SUBSET Vehicles /\ r.late \in SUBSET Ids
      /\ r.body.from \in Time /\ r.body.to \in Time
  BY DEF TypeOK, RequestsShaped, InsertBasket, Shaped, Quoting, Request
<1>2. PICK ids \in [r.plan -> Bookings \ spent] :
       LET new == {ids[v] : v \in r.plan} IN
       /\ booking' = [b \in Bookings |->
                        IF b \in new
                        THEN LET v == CHOOSE v \in r.plan : ids[v] = b IN
                             WithStatus(On(v, r.body), "QUOTE", "PUBLIC_WEB")
                        ELSE booking[b]]
       /\ spent' = spent \cup new
       /\ FinishPlacing(p, new)
       /\ Place(new, r.late)
  BY DEF InsertBasket
<1>. DEFINE new == {ids[v] : v \in r.plan}
<1>3. new \in SUBSET Ids
  BY <1>2 DEF Ids
<1>4. \A v \in r.plan : WithStatus(On(v, r.body), "QUOTE", "PUBLIC_WEB") \in Row
  BY <1>1 DEF WithStatus, On, Row, Statuses, Sources
<1>5. \A b \in new : (CHOOSE v \in r.plan : ids[v] = b) \in r.plan
  OBVIOUS
<1>6. booking' \in [Bookings -> Row \cup {None}]
  BY <1>2, <1>4, <1>5 DEF TypeOK
<1>7. spent' \in SUBSET Ids
  BY <1>2, <1>3 DEF TypeOK
<1>8. FinishPlacing(p, new) /\ Place(new, r.late)
  BY <1>2
<1>9. UNCHANGED <<fleet, block, idem, replied>>
  BY DEF InsertBasket
<1>. HIDE DEF new
<1>. QED BY <1>1, <1>3, <1>6, <1>7, <1>8, <1>9, FinishPlacingSound, PlaceType DEF TypeOK

LEMMA PatchBookingSound ==
  ASSUME TypeOK, RequestsShaped, NEW p \in Requests, PatchBooking(p)
  PROVE  TypeOK' /\ \A q \in Requests : Shaped(req'[q])
<1>. DEFINE r == req[p]
            old == booking[r.id]
            slot == Patched(old, r.body)
            row == WithStatus(slot, Or(r.body.status, old.status), old.source)
<1>1. r \in Request /\ r.id \in Bookings /\ r.body \in Body /\ r.late \in SUBSET Ids
  BY DEF TypeOK, RequestsShaped, PatchBooking, Shaped, Request
<1>2. UNCHANGED <<fleet, block, spent, idem, replied>>
  BY DEF PatchBooking
<1>3. CASE old = None
  BY <1>2, <1>3, IdleSound, GoSound DEF PatchBooking, Finish, TypeOK
<1>4. CASE old # None
  <2>1. old \in Row
    BY <1>1, <1>4 DEF TypeOK
  <2>2. slot \in Slot
    BY <1>1, <2>1, PatchedSlot DEF Row
  <2>3. row \in Row
    BY <1>1, <2>1, <2>2 DEF WithStatus, Or, Row, Slot, Body
  <2>4. booking' = [booking EXCEPT ![r.id] = row]
    BY <1>4 DEF PatchBooking
  <2>5. booking' \in [Bookings -> Row \cup {None}]
    BY <1>1, <2>3, <2>4 DEF TypeOK
  <2>6. \/ Go(p, Idle) /\ UNCHANGED missed
        \/ FinishPlacing(p, {r.id}) /\ \E L \in {r.late, Ids} : Place({r.id}, L)
    BY <1>4 DEF PatchBooking, Finish
  <2>7. {r.id} \in SUBSET Ids
    BY <1>1 DEF Ids
  <2>. HIDE DEF row
  <2>. QED BY <1>1, <1>2, <2>5, <2>6, <2>7, IdleSound, GoSound, FinishPlacingSound, PlaceType DEF TypeOK
<1>. QED BY <1>3, <1>4

LEMMA WriteBlockSound ==
  ASSUME TypeOK, RequestsShaped, NEW p \in Requests, WriteBlock(p)
  PROVE  TypeOK' /\ \A q \in Requests : Shaped(req'[q])
<1>. DEFINE r == req[p]
<1>1. r \in Request /\ r.slot \in Slot /\ r.body \in Body /\ r.late \in SUBSET Ids
  BY DEF TypeOK, RequestsShaped, WriteBlock, Shaped, Request
<1>2. UNCHANGED <<fleet, booking, idem, replied>>
  BY DEF WriteBlock
<1>3. ASSUME NEW k \in Blocks \ spent, block' = [block EXCEPT ![k] = r.slot], spent' = spent \cup {k},
             FinishPlacing(p, {k}), Place({k}, Bookings \cup r.late)
      PROVE  TypeOK' /\ \A q \in Requests : Shaped(req'[q])
  <2>1. {k} \in SUBSET Ids /\ Bookings \cup r.late \in SUBSET Ids
    BY <1>1 DEF Ids
  <2>. QED BY <1>1, <1>2, <1>3, <2>1, FinishPlacingSound, PlaceType DEF TypeOK
<1>4. ASSUME r.op = "moveBlock", block[r.id] # None
      PROVE  TypeOK' /\ \A q \in Requests : Shaped(req'[q])
  <2>. DEFINE new == Patched(block[r.id], r.body)
  <2>1. r.id \in Blocks
    BY <1>4 DEF RequestsShaped, Shaped
  <2>2. block[r.id] \in Slot
    BY <1>4, <2>1 DEF TypeOK
  <2>3. new \in Slot
    BY <1>1, <2>2, PatchedSlot DEF Slot
  <2>4. /\ block' = [block EXCEPT ![r.id] = new] /\ FinishPlacing(p, {r.id}) /\ UNCHANGED spent
        /\ \E L \in {Bookings \cup r.late, Ids} : Place({r.id}, L)
    BY <1>4 DEF WriteBlock
  <2>5. {r.id} \in SUBSET Ids /\ Bookings \cup r.late \in SUBSET Ids
    BY <1>1, <2>1 DEF Ids
  <2>. HIDE DEF new
  <2>. QED BY <1>2, <2>1, <2>3, <2>4, <2>5, FinishPlacingSound, PlaceType DEF TypeOK
<1>5. ASSUME Finish(p), UNCHANGED <<block, spent, missed>>
      PROVE  TypeOK' /\ \A q \in Requests : Shaped(req'[q])
  BY <1>2, <1>5, IdleSound, GoSound DEF Finish, TypeOK
<1>. QED BY <1>3, <1>4, <1>5 DEF WriteBlock

LEMMA AutoBlockSound ==
  ASSUME TypeOK, RequestsShaped, NEW k \in Blocks, AutoBlock(k)
  PROVE  TypeOK' /\ \A q \in Requests : Shaped(req'[q])
<1>1. ASSUME NEW r, Sound(r) PROVE Sound([r EXCEPT !.late = @ \cup {k}])
  BY <1>1 DEF Sound, Request, Shaped, Quoting, Inserting, Vetting, Listings, Ids
<1>2. ASSUME NEW q \in Requests PROVE Sound(req'[q])
  <2>1. Sound(req[q])
    BY DEF TypeOK, RequestsShaped, Sound
  <2>. QED BY <2>1, <1>1 DEF AutoBlock, Notice
<1>3. \A s \in Trips : s \in Slot
  BY CalendarAssumption DEF Slot, Time
<1>4. block' \in [Blocks -> Slot \cup {None}] /\ spent' \in SUBSET Ids
  BY <1>3 DEF AutoBlock, TypeOK, Ids
<1>5. missed' \in SUBSET (Ids \X Ids)
  BY PlaceType DEF AutoBlock, Ids
<1>. QED BY <1>2, <1>4, <1>5 DEF Sound, AutoBlock, Notice, TypeOK

LEMMA OtherWritesSound ==
  ASSUME TypeOK, RequestsShaped, NEW p \in Requests,
         InsertDuplicate(p) \/ CancelBooking(p) \/ DeleteBooking(p) \/ Abort(p)
  PROVE  TypeOK' /\ \A q \in Requests : Shaped(req'[q])
<1>. DEFINE r == req[p]
<1>1. r \in Request /\ Shaped(r)
  BY DEF TypeOK, RequestsShaped
<1>2. CASE InsertDuplicate(p)
  <2>1. Sound([r EXCEPT !.at = "dup", !.late = {}])
    BY <1>1, <1>2 DEF InsertDuplicate, Sound, Request, Shaped, Quoting, Inserting, Vetting, Listings
  <2>. QED BY <1>2, <2>1, GoSound DEF InsertDuplicate, TypeOK, tables, history
<1>3. CASE CancelBooking(p)
  <2>1. r.id \in Bookings
    BY <1>1, <1>3 DEF CancelBooking, Shaped
  <2>2. booking' \in [Bookings -> Row \cup {None}]
    BY <1>3, <2>1 DEF CancelBooking, TypeOK, Row, Statuses, NonBlocking
  <2>. QED BY <1>3, <2>2, IdleSound, GoSound DEF CancelBooking, Finish, TypeOK, history
<1>4. CASE DeleteBooking(p)
  BY <1>4, IdleSound, GoSound DEF DeleteBooking, Finish, TypeOK, history
<1>5. CASE Abort(p)
  BY <1>5, IdleSound, GoSound DEF Abort, Finish, TypeOK, tables, history
<1>. QED BY <1>2, <1>3, <1>4, <1>5

LEMMA NextSound ==
  ASSUME TypeOK, RequestsShaped, [Next]_vars
  PROVE  TypeOK' /\ \A q \in Requests : Shaped(req'[q])
<1>1. CASE \E k \in Blocks : RemoveBlock(k)
  BY <1>1 DEF RemoveBlock, TypeOK, RequestsShaped, history
<1>4. CASE \E k \in Blocks : AutoBlock(k)
  BY <1>4, AutoBlockSound
<1>2. CASE \E v \in Vehicles : SetVehicleStatus(v)
  BY <1>2, CalendarAssumption DEF SetVehicleStatus, TypeOK, RequestsShaped, history
<1>3. CASE UNCHANGED vars
  BY <1>3 DEF vars, TypeOK, RequestsShaped
<1>. QED BY <1>1, <1>2, <1>3, <1>4, RequestBookingSound, RequestQuoteSound, RequestPatchSound,
     RequestPaymentSound, RequestOnRowSound, RequestBlockSound, LookupSound, ListingSound, CheckSound, InsertBookingSound,
     InsertBasketSound, PatchBookingSound, WriteBlockSound, OtherWritesSound DEF Next, Step

\* Every reachable state is well typed, and every request in flight carries
\* the fields its handler has filled by then.
THEOREM TypeCorrect == Spec => []TypeOK
<1>1. Init => TypeOK /\ RequestsShaped
  <2>. SUFFICES ASSUME Init PROVE TypeOK /\ RequestsShaped
    OBVIOUS
  <2>. QED BY IdleSound, CalendarAssumption DEF Init, TypeOK, RequestsShaped, Sound
<1>2. TypeOK /\ RequestsShaped /\ [Next]_vars => (TypeOK /\ RequestsShaped)'
  BY NextSound DEF RequestsShaped
<1>. QED BY <1>1, <1>2, PTL DEF Spec

-----------------------------------------------------------------------------
(***************************************************************************)
(* ClashesWereUnseen.  The predicates of the invariant, as functions of    *)
(* the two tables, so that the tables before and after a step can be named.*)
(***************************************************************************)

PlacedIn(bk, bl, i) ==
  IF i \in Bookings THEN bk[i] # None /\ bk[i].status \notin NonBlocking ELSE bl[i] # None
SlotIn(bk, bl, i) == IF i \in Bookings THEN bk[i] ELSE bl[i]
ClearIn(bk, bl, slot, S) == \A i \in S : PlacedIn(bk, bl, i) => ~Collide(slot, SlotIn(bk, bl, i))

HoldIn(bk, bl, r) ==
  /\ r.at = "bookings" => ClearIn(bk, bl, r.slot, Blocks \ (r.late \cup {r.id}))
  /\ r.at = "write" =>
       /\ r.op \in {"create", "partner", "public"} => ClearIn(bk, bl, r.slot, Ids \ r.late)
       /\ r.op \in Patching /\ TouchesSlot(r.body) => ClearIn(bk, bl, r.slot, Ids \ (r.late \cup {r.id}))
       /\ r.op \in {"block", "moveBlock"} => ClearIn(bk, bl, r.slot, Blocks \ (r.late \cup {r.id}))
  /\ r.op = "basket" => \A v \in Vetted(r) : ClearIn(bk, bl, On(v, r.body), Ids \ r.late)

\* From tables bk, bl to tables bk2, bl2 only the ids of S were placed.
Settled(bk, bl, bk2, bl2, S) ==
  \A i \in Ids \ S : PlacedIn(bk2, bl2, i) =>
    PlacedIn(bk, bl, i) /\ AsSlot(SlotIn(bk2, bl2, i)) = AsSlot(SlotIn(bk, bl, i))

LEMMA ClearKept ==
  ASSUME NEW bk, NEW bl, NEW bk2, NEW bl2, NEW S, Settled(bk, bl, bk2, bl2, S),
         NEW slot, NEW T \in SUBSET Ids, ClearIn(bk, bl, slot, T)
  PROVE  ClearIn(bk2, bl2, slot, T \ S)
<1>1. ASSUME NEW a, NEW b, AsSlot(a) = AsSlot(b), ~Collide(slot, b) PROVE ~Collide(slot, a)
  <2>1. a.vehicle = b.vehicle /\ a.from = b.from /\ a.to = b.to
    BY <1>1 DEF AsSlot
  <2>. QED BY <1>1, <2>1 DEF Collide, halfOpenRangesOverlap
<1>. QED BY <1>1 DEF Settled, ClearIn

LEMMA HoldKept ==
  ASSUME NEW bk, NEW bl, NEW bk2, NEW bl2, NEW S \in SUBSET Ids, Settled(bk, bl, bk2, bl2, S),
         NEW r \in Request, HoldIn(bk, bl, r)
  PROVE  HoldIn(bk2, bl2, [r EXCEPT !.late = @ \cup S])
<1>. DEFINE n == [r EXCEPT !.late = @ \cup S]
<1>1. /\ n.at = r.at /\ n.op = r.op /\ n.slot = r.slot /\ n.body = r.body /\ n.id = r.id
      /\ n.plan = r.plan /\ n.left = r.left /\ n.late = r.late \cup S /\ r.late \in SUBSET Ids
  BY DEF Request
<1>2. \A T \in SUBSET Ids : \A slot : ClearIn(bk, bl, slot, T) => ClearIn(bk2, bl2, slot, T \ S)
  BY ClearKept
<1>3. \A slot : ClearIn(bk, bl, slot, Blocks \ (r.late \cup {r.id})) =>
                ClearIn(bk2, bl2, slot, Blocks \ (n.late \cup {n.id}))
  BY <1>1, <1>2 DEF Ids, ClearIn
<1>4. \A slot : ClearIn(bk, bl, slot, Ids \ (r.late \cup {r.id})) =>
                ClearIn(bk2, bl2, slot, Ids \ (n.late \cup {n.id}))
  BY <1>1, <1>2 DEF ClearIn
<1>5. \A slot : ClearIn(bk, bl, slot, Ids \ r.late) => ClearIn(bk2, bl2, slot, Ids \ n.late)
  BY <1>1, <1>2 DEF ClearIn
<1>6. Vetted(n) = Vetted(r)
  BY <1>1 DEF Vetted
<1>. HIDE DEF n
<1>7. HoldIn(bk2, bl2, n)
  BY <1>1, <1>3, <1>4, <1>5, <1>6 DEF HoldIn
<1>. QED BY <1>7 DEF n

LEMMA HoldUnchecked ==
  ASSUME NEW bk, NEW bl, NEW r, ~Checking(r)
  PROVE  HoldIn(bk, bl, r)
BY DEF HoldIn, Checking, Checked, Vetted

HoldsBefore == \A q \in Requests : HoldIn(booking, block, req[q])
HoldsAfter == \A q \in Requests : HoldIn(booking', block', req'[q])
SettledBut(S) == Settled(booking, block, booking', block', S)

LEMMA FinishPlacingHolds ==
  ASSUME TypeOK, HoldsBefore, NEW p \in Requests, NEW S \in SUBSET Ids, FinishPlacing(p, S), SettledBut(S)
  PROVE  HoldsAfter
<1>. SUFFICES ASSUME NEW q \in Requests PROVE HoldIn(booking', block', req'[q])
  BY DEF HoldsAfter
<1>1. req[q] \in Request
  BY DEF TypeOK
<1>2. CASE q = p
  <2>1. ~Checking(Idle)
    BY DEF Checking, Checked, Idle
  <2>. QED BY <1>2, <2>1, HoldUnchecked DEF FinishPlacing
<1>3. CASE q # p /\ Checking(req[q])
  <2>1. req'[q] = [req[q] EXCEPT !.late = @ \cup S]
    BY <1>3 DEF FinishPlacing
  <2>. QED BY <1>1, <2>1, HoldKept DEF HoldsBefore, SettledBut
<1>4. CASE q # p /\ ~Checking(req[q])
  BY <1>4, HoldUnchecked DEF FinishPlacing
<1>. QED BY <1>2, <1>3, <1>4

LEMMA GoHolds ==
  ASSUME TypeOK, HoldsBefore, NEW p \in Requests, NEW n, Go(p, n), SettledBut({}),
         HoldIn(booking', block', n)
  PROVE  HoldsAfter
<1>. SUFFICES ASSUME NEW q \in Requests PROVE HoldIn(booking', block', req'[q])
  BY DEF HoldsAfter
<1>1. CASE q = p
  BY <1>1 DEF Go, TypeOK
<1>2. CASE q # p
  <2>1. req[q] \in Request /\ req'[q] = req[q]
    BY <1>2 DEF TypeOK, Go
  <2>2. [req[q] EXCEPT !.late = @ \cup {}] = req[q]
    BY <2>1 DEF Request
  <2>. QED BY <2>1, <2>2, HoldKept DEF HoldsBefore, SettledBut
<1>. QED BY <1>1, <1>2

ClashIn(bk, bl, i, j) ==
  i # j /\ PlacedIn(bk, bl, i) /\ PlacedIn(bk, bl, j) /\ Collide(SlotIn(bk, bl, i), SlotIn(bk, bl, j))

\* The step from one calendar to the next when the ids of S are placed.
LEMMA PlaceKeepsClashes ==
  ASSUME TypeOK, ClashesWereUnseen, NEW S \in SUBSET Ids, NEW L \in SUBSET Ids, Place(S, L), SettledBut(S),
         \A i \in S : \A j \in Ids \ L : ~ClashIn(booking', block', i, j)
  PROVE  ClashesWereUnseen'
<1>1. \A i, j : ClashIn(booking', block', i, j) => ClashIn(booking', block', j, i)
  BY DEF ClashIn, Collide, halfOpenRangesOverlap
<1>2. \A i, j : Clash(i, j)' => ClashIn(booking', block', i, j)
  BY DEF Clash, ClashIn, Placed, PlacedIn, Blocking, SlotOf, SlotIn
<1>3. \A i \in S, j \in L : i # j => <<i, j>> \in missed'
  BY DEF Place
<1>. SUFFICES ASSUME NEW i \in Ids, NEW j \in Ids, Clash(i, j)'
              PROVE  <<i, j>> \in missed' \/ <<j, i>> \in missed'
  BY DEF ClashesWereUnseen
<1>4. ClashIn(booking', block', i, j) /\ ClashIn(booking', block', j, i) /\ i # j
  BY <1>1, <1>2 DEF ClashIn
<1>5. CASE i \in S
  BY <1>3, <1>4, <1>5
<1>6. CASE j \in S
  BY <1>3, <1>4, <1>6
<1>7. CASE i \notin S /\ j \notin S
  <2>1. ClashIn(booking, block, i, j)
    <3>1. /\ PlacedIn(booking, block, i) /\ PlacedIn(booking, block, j)
          /\ AsSlot(SlotIn(booking', block', i)) = AsSlot(SlotIn(booking, block, i))
          /\ AsSlot(SlotIn(booking', block', j)) = AsSlot(SlotIn(booking, block, j))
      BY <1>4, <1>7 DEF ClashIn, SettledBut, Settled
    <3>. DEFINE a == SlotIn(booking, block, i)   a2 == SlotIn(booking', block', i)
                b == SlotIn(booking, block, j)   b2 == SlotIn(booking', block', j)
    <3>2. /\ a.vehicle = a2.vehicle /\ a.from = a2.from /\ a.to = a2.to
          /\ b.vehicle = b2.vehicle /\ b.from = b2.from /\ b.to = b2.to
      BY <3>1 DEF AsSlot
    <3>3. Collide(a2, b2)
      BY <1>4 DEF ClashIn
    <3>. QED BY <1>4, <3>1, <3>2, <3>3 DEF ClashIn, Collide, halfOpenRangesOverlap
  <2>2. <<i, j>> \in missed \/ <<j, i>> \in missed
    BY <2>1 DEF ClashesWereUnseen, Clash, ClashIn, Placed, PlacedIn, Blocking, SlotOf, SlotIn
  <2>. QED BY <1>7, <2>2 DEF Place
<1>. QED BY <1>5, <1>6, <1>7

\* A step that places nothing and forgets no history.
LEMMA StillUnseen ==
  ASSUME ClashesWereUnseen, SettledBut({}), missed' = missed
  PROVE  ClashesWereUnseen'
<1>. SUFFICES ASSUME NEW i \in Ids, NEW j \in Ids, Clash(i, j)'
              PROVE  Clash(i, j)
  BY DEF ClashesWereUnseen
<1>1. ClashIn(booking', block', i, j)
  BY DEF Clash, ClashIn, Placed, PlacedIn, Blocking, SlotOf, SlotIn
<1>. DEFINE a == SlotIn(booking, block, i)   a2 == SlotIn(booking', block', i)
            b == SlotIn(booking, block, j)   b2 == SlotIn(booking', block', j)
<1>2. PlacedIn(booking, block, i) /\ PlacedIn(booking, block, j) /\ AsSlot(a2) = AsSlot(a) /\ AsSlot(b2) = AsSlot(b)
  BY <1>1 DEF ClashIn, SettledBut, Settled
<1>3. /\ a.vehicle = a2.vehicle /\ a.from = a2.from /\ a.to = a2.to
      /\ b.vehicle = b2.vehicle /\ b.from = b2.from /\ b.to = b2.to
  BY <1>2 DEF AsSlot
<1>4. Collide(a2, b2)
  BY <1>1 DEF ClashIn
<1>5. ClashIn(booking, block, i, j)
  BY <1>1, <1>2, <1>3, <1>4 DEF ClashIn, Collide, halfOpenRangesOverlap
<1>. QED BY <1>5 DEF Clash, ClashIn, Placed, PlacedIn, Blocking, SlotOf, SlotIn

\* A step that leaves both tables alone.
LEMMA NothingPlaced ==
  ASSUME UNCHANGED <<booking, block>>
  PROVE  SettledBut({})
BY DEF SettledBut, Settled

\* A step of request p that touches neither the tables nor the history.
LEMMA GoKeeps ==
  ASSUME TypeOK, HoldsBefore, ClashesWereUnseen, NEW p \in Requests, NEW n, Go(p, n),
         UNCHANGED <<booking, block, missed>>, HoldIn(booking, block, n)
  PROVE  HoldsAfter /\ ClashesWereUnseen'
BY NothingPlaced, GoHolds, StillUnseen

LEMMA IdleHolds == ASSUME NEW bk, NEW bl PROVE HoldIn(bk, bl, Idle)
BY DEF HoldIn, Idle, Vetted

LEMMA ArrivalHolds ==
  ASSUME TypeOK, HoldsBefore, ClashesWereUnseen, NEW p \in Requests,
         RequestBooking(p) \/ RequestQuote(p) \/ RequestPatch(p) \/ RequestPayment(p)
           \/ RequestCancel(p) \/ RequestDelete(p) \/ RequestBlock(p)
  PROVE  HoldsAfter /\ ClashesWereUnseen'
<1>1. ASSUME NEW op, NEW at, at \notin Checked, NEW key, NEW slot, NEW body,
             Arrive(p, op, [Idle EXCEPT !.at = at, !.key = key, !.slot = slot, !.body = body])
      PROVE  HoldsAfter /\ ClashesWereUnseen'
  <2>. DEFINE m == [Idle EXCEPT !.at = at, !.key = key, !.slot = slot, !.body = body]
              n == [m EXCEPT !.op = op]
  <2>1. HoldIn(booking, block, n)
    BY <1>1 DEF HoldIn, Idle, Vetted, Checked
  <2>2. Go(p, n) /\ UNCHANGED <<booking, block, missed>>
    BY <1>1 DEF Arrive, tables, history
  <2>. HIDE DEF n
  <2>. QED BY <2>1, <2>2, GoKeeps
<1>2. CASE RequestBooking(p)
  <2>1. PICK op, s, st, k :
          Arrive(p, op, [Idle EXCEPT !.at = IF k = None THEN "vehicle" ELSE "lookup", !.key = k,
                                     !.slot = s, !.body = BodyOf(s, st)])
    BY <1>2 DEF RequestBooking
  <2>2. (IF k = None THEN "vehicle" ELSE "lookup") \notin Checked
    BY DEF Checked
  <2>. QED BY <1>1, <2>1, <2>2
<1>3. CASE RequestQuote(p)
  <2>. PICK op, lines, body : Arrive(p, op, [Idle EXCEPT !.at = "list", !.want = lines, !.body = body])
    BY <1>3 DEF RequestQuote
  <2>. DEFINE m == [Idle EXCEPT !.at = "list", !.want = lines, !.body = body]
              n == [m EXCEPT !.op = op]
  <2>1. HoldIn(booking, block, n)
    BY DEF HoldIn, Idle, Vetted
  <2>2. Go(p, n) /\ UNCHANGED <<booking, block, missed>>
    BY DEF Arrive, tables, history
  <2>. HIDE DEF n
  <2>. QED BY <2>1, <2>2, GoKeeps
<1>4. CASE RequestPatch(p)
  <2>. PICK b, body, slot :
         Arrive(p, "patch", [Idle EXCEPT !.at = IF TouchesSlot(body) THEN "vehicle" ELSE "write",
                                         !.id = b, !.body = body, !.slot = slot])
    BY <1>4 DEF RequestPatch
  <2>. DEFINE m == [Idle EXCEPT !.at = IF TouchesSlot(body) THEN "vehicle" ELSE "write",
                                !.id = b, !.body = body, !.slot = slot]
              n == [m EXCEPT !.op = "patch"]
  <2>1. HoldIn(booking, block, n)
    BY DEF HoldIn, Idle, Vetted
  <2>2. Go(p, n) /\ UNCHANGED <<booking, block, missed>>
    BY DEF Arrive, tables, history
  <2>. HIDE DEF n
  <2>. QED BY <2>1, <2>2, GoKeeps
<1>5. CASE RequestCancel(p) \/ RequestDelete(p)
  <2>. PICK b \in Bookings, op \in {"cancel", "delete"} : Arrive(p, op, [Idle EXCEPT !.at = "write", !.id = b])
    BY <1>5 DEF RequestCancel, RequestDelete
  <2>. DEFINE m == [Idle EXCEPT !.at = "write", !.id = b]
              n == [m EXCEPT !.op = op]
  <2>1. HoldIn(booking, block, n)
    BY DEF HoldIn, Idle, Vetted, Patching
  <2>2. Go(p, n) /\ UNCHANGED <<booking, block, missed>>
    BY DEF Arrive, tables, history
  <2>. HIDE DEF n
  <2>. QED BY <2>1, <2>2, GoKeeps
<1>6. CASE RequestBlock(p)
  <2>. PICK op, k, slot, body :
         \/ Arrive(p, op, [Idle EXCEPT !.at = "blocks", !.slot = slot, !.body = body])
         \/ Arrive(p, op, [Idle EXCEPT !.at = "blocks", !.id = k, !.body = body, !.slot = slot])
    BY <1>6 DEF RequestBlock
  <2>. DEFINE m1 == [Idle EXCEPT !.at = "blocks", !.slot = slot, !.body = body]
              m2 == [Idle EXCEPT !.at = "blocks", !.id = k, !.body = body, !.slot = slot]
              n1 == [m1 EXCEPT !.op = op]
              n2 == [m2 EXCEPT !.op = op]
  <2>1. HoldIn(booking, block, n1) /\ HoldIn(booking, block, n2)
    BY DEF HoldIn, Idle, Vetted
  <2>2. (Go(p, n1) \/ Go(p, n2)) /\ UNCHANGED <<booking, block, missed>>
    BY DEF Arrive, tables, history
  <2>. HIDE DEF n1, n2
  <2>. QED BY <2>1, <2>2, GoKeeps
<1>7. CASE RequestPayment(p)
  <2>. PICK b, next, slot :
         Arrive(p, "pay", [Idle EXCEPT !.at = "write", !.id = b, !.slot = slot,
                                       !.body = [EmptyBody EXCEPT !.status = next]])
    BY <1>7 DEF RequestPayment
  <2>. DEFINE m == [Idle EXCEPT !.at = "write", !.id = b, !.slot = slot,
                                !.body = [EmptyBody EXCEPT !.status = next]]
              n == [m EXCEPT !.op = "pay"]
  <2>1. HoldIn(booking, block, n)
    BY DEF HoldIn, Idle, Vetted, TouchesSlot, EmptyBody
  <2>2. Go(p, n) /\ UNCHANGED <<booking, block, missed>>
    BY DEF Arrive, tables, history
  <2>. HIDE DEF n
  <2>. QED BY <2>1, <2>2, GoKeeps
<1>. QED BY <1>2, <1>3, <1>4, <1>5, <1>6, <1>7

LEMMA LookingHolds ==
  ASSUME TypeOK, RequestsShaped, HoldsBefore, ClashesWereUnseen, NEW p \in Requests,
         Lookup(p) \/ ListVehicles(p) \/ ListBlocks(p) \/ ListBookings(p) \/ CheckVehicle(p)
           \/ InsertDuplicate(p) \/ Abort(p)
  PROVE  HoldsAfter /\ ClashesWereUnseen'
<1>. DEFINE r == req[p]
<1>1. r \in Request /\ Shaped(r) /\ HoldIn(booking, block, r)
  BY DEF TypeOK, RequestsShaped, HoldsBefore
<1>2. UNCHANGED <<booking, block, missed>>
  BY DEF Lookup, ListVehicles, ListBlocks, ListBookings, Listing, CheckVehicle, InsertDuplicate, Abort,
     tables, history
<1>3. PICK n : Go(p, n) /\ HoldIn(booking, block, n)
  <2>1. CASE Lookup(p)
    <3>1. ~Checking([r EXCEPT !.at = "vehicle"])
      BY <1>1, <2>1 DEF Lookup, Request, Shaped, Checking, Checked, Vetting
    <3>. QED BY <2>1, <3>1, IdleHolds, HoldUnchecked DEF Lookup, Finish
  <2>2. CASE ListVehicles(p)
    <3>1. \A c, S : ~Checking([r EXCEPT !.at = "listBlocks", !.want = @ \ {c}, !.pool = S])
      BY <1>1, <2>2 DEF ListVehicles, Listing, Request, Shaped, Checking, Checked, Vetting
    <3>. QED BY <2>2, <3>1, IdleHolds, HoldUnchecked DEF ListVehicles
  <2>3. CASE ListBlocks(p)
    <3>1. \A S : ~Checking([r EXCEPT !.at = "listBookings", !.pool = S])
      BY <1>1, <2>3 DEF ListBlocks, Listing, Request, Shaped, Checking, Checked, Vetting
    <3>. QED BY <2>3, <3>1, IdleHolds, HoldUnchecked DEF ListBlocks
  <2>4. CASE ListBookings(p)
    <3>1. \A v : ~Checking([r EXCEPT !.at = "vehicle", !.slot = On(v, r.body), !.pool = {}, !.plan = @ \cup {v}])
      BY <1>1, <2>4 DEF ListBookings, Listing, Request, Shaped, Checking, Checked, Vetting
    <3>. QED BY <2>4, <3>1, IdleHolds, HoldUnchecked DEF ListBookings, Finish
  <2>5. CASE CheckVehicle(p)
    <3>1. HoldIn(booking, block, [r EXCEPT !.at = "blocks"])
      BY <1>1, <2>5 DEF CheckVehicle, Request, HoldIn, Vetted
    <3>. QED BY <2>5, <3>1, IdleHolds DEF CheckVehicle
  <2>6. CASE InsertDuplicate(p)
    <3>1. ~Checking([r EXCEPT !.at = "dup", !.late = {}])
      BY <1>1, <2>6 DEF InsertDuplicate, Request, Shaped, Checking, Checked, Vetting
    <3>. QED BY <2>6, <3>1, HoldUnchecked DEF InsertDuplicate
  <2>7. CASE Abort(p)
    BY <2>7, IdleHolds DEF Abort, Finish
  <2>. QED BY <2>1, <2>2, <2>3, <2>4, <2>5, <2>6, <2>7
<1>. QED BY <1>2, <1>3, GoKeeps

LEMMA CheckBlocksHolds ==
  ASSUME TypeOK, RequestsShaped, HoldsBefore, ClashesWereUnseen, NEW p \in Requests, CheckBlocks(p)
  PROVE  HoldsAfter /\ ClashesWereUnseen'
<1>. DEFINE r == req[p]
            next == IF r.op \in {"block", "moveBlock"} THEN "write" ELSE "bookings"
            n == [r EXCEPT !.at = next, !.late = IF Fresh(r) THEN {} ELSE @]
<1>1. r \in Request /\ Shaped(r) /\ HoldIn(booking, block, r) /\ r.at = "blocks"
  BY DEF TypeOK, RequestsShaped, HoldsBefore, CheckBlocks
<1>2. UNCHANGED <<booking, block, missed>>
  BY DEF CheckBlocks, tables, history
<1>3. CASE BlockedFor(r.slot, r.id)
  BY <1>2, <1>3, IdleHolds, GoKeeps DEF CheckBlocks
<1>4. CASE ~BlockedFor(r.slot, r.id)
  <2>1. ClearIn(booking, block, r.slot, Blocks \ {r.id})
    BY <1>4, CalendarAssumption DEF BlockedFor, ClearIn, PlacedIn, SlotIn
  <2>2. /\ n.at = next /\ n.op = r.op /\ n.slot = r.slot /\ n.body = r.body /\ n.id = r.id
        /\ n.plan = r.plan /\ n.left = r.left /\ n.late = IF Fresh(r) THEN {} ELSE r.late
    BY <1>1 DEF Request
  <2>3. Go(p, n)
    BY <1>4 DEF CheckBlocks
  <2>. HIDE DEF n
  <2>4. ClearIn(booking, block, n.slot, Blocks \ (n.late \cup {n.id}))
    BY <2>1, <2>2 DEF ClearIn
  <2>5. r.op = "basket" => \A v \in Vetted(n) : ClearIn(booking, block, On(v, n.body), Ids \ n.late)
    <3>1. CASE Fresh(r)
      BY <2>2, <3>1 DEF Fresh, Vetted
    <3>2. CASE ~Fresh(r)
      BY <1>1, <2>2, <3>2 DEF HoldIn, Vetted
    <3>. QED BY <3>1, <3>2
  <2>6. HoldIn(booking, block, n)
    BY <2>2, <2>4, <2>5 DEF HoldIn, Patching
  <2>. QED BY <1>2, <2>3, <2>6, GoKeeps
<1>. QED BY <1>3, <1>4

LEMMA CheckBookingsHolds ==
  ASSUME TypeOK, RequestsShaped, HoldsBefore, ClashesWereUnseen, NEW p \in Requests, CheckBookings(p)
  PROVE  HoldsAfter /\ ClashesWereUnseen'
<1>. DEFINE r == req[p]
            c == [r EXCEPT !.late = IF Fresh(r) THEN @ \ Bookings ELSE @]
            rest == c.left \ {c.slot.vehicle}
<1>1. r \in Request /\ Shaped(r) /\ HoldIn(booking, block, r) /\ r.at = "bookings"
  <2>1. r \in Request /\ Shaped(r) /\ HoldIn(booking, block, r)
    BY DEF TypeOK, RequestsShaped, HoldsBefore
  <2>2. c.at = "bookings"
    BY DEF CheckBookings
  <2>. QED BY <2>1, <2>2 DEF Request
<1>2. UNCHANGED <<booking, block, missed>>
  BY DEF CheckBookings, tables, history
<1>3. /\ c.at = "bookings" /\ c.op = r.op /\ c.slot = r.slot /\ c.body = r.body /\ c.id = r.id
      /\ c.plan = r.plan /\ c.left = r.left /\ c.late = IF Fresh(r) THEN r.late \ Bookings ELSE r.late
      /\ c \in Request /\ c.want = r.want
  BY <1>1 DEF Request
<1>4. \/ Go(p, Idle)
      \/ /\ ~BookedFor(c.slot, c.id)
         /\ \/ c.want # {} /\ Go(p, [c EXCEPT !.at = "list", !.late = {}])
            \/ c.op # "basket" /\ c.want = {} /\ Go(p, [c EXCEPT !.at = "write"])
            \/ \E v \in c.plan : Go(p, [c EXCEPT !.at = "vehicle", !.left = c.plan, !.slot = On(v, c.body),
                                                   !.late = {}])
            \/ /\ c.left # {} /\ rest # {}
               /\ \E v \in rest : Go(p, [c EXCEPT !.at = "vehicle", !.left = rest, !.slot = On(v, c.body)])
            \/ c.left # {} /\ rest = {} /\ Go(p, [c EXCEPT !.at = "write", !.left = {}])
  BY DEF CheckBookings, Finish
<1>. HIDE DEF c
<1>5. CASE Go(p, Idle)
  BY <1>2, <1>5, IdleHolds, GoKeeps
<1>6. CASE ~BookedFor(c.slot, c.id)
  <2>1. ClearIn(booking, block, c.slot, Bookings \ {c.id})
    BY <1>6 DEF BookedFor, Blocking, ClearIn, PlacedIn, SlotIn
  <2>2. ClearIn(booking, block, c.slot, Blocks \ (c.late \cup {c.id}))
    BY <1>1, <1>3, CalendarAssumption DEF HoldIn, ClearIn
  <2>3. ClearIn(booking, block, c.slot, Ids \ (c.late \cup {c.id}))
    BY <2>1, <2>2 DEF ClearIn, Ids
  <2>4. c.op \in Inserting => ClearIn(booking, block, c.slot, Ids \ c.late)
    BY <1>1, <1>3, <2>3, CalendarAssumption DEF Shaped, Ids, ClearIn
  <2>5. ASSUME c.left # {}
        PROVE  \A v \in (c.plan \ c.left) \cup {c.slot.vehicle} :
                 ClearIn(booking, block, On(v, c.body), Ids \ c.late)
    <3>1. c.op = "basket" /\ c.slot = On(c.slot.vehicle, c.body)
      BY <1>1, <1>3, <2>5 DEF Shaped, Vetting, Quoting
    <3>2. ClearIn(booking, block, On(c.slot.vehicle, c.body), Ids \ c.late)
      BY <2>4, <3>1 DEF Inserting, Quoting
    <3>3. CASE Fresh(r)
      BY <1>3, <2>5, <3>2, <3>3 DEF Fresh
    <3>4. CASE ~Fresh(r)
      BY <1>1, <1>3, <2>5, <3>1, <3>2, <3>4 DEF HoldIn, Vetted
    <3>. QED BY <3>3, <3>4
  <2>6. c.left # {} => c.left \subseteq c.plan /\ c.slot.vehicle \in c.left
    BY <1>1, <1>3 DEF Shaped
  <2>7. PICK n : Go(p, n) /\ HoldIn(booking, block, n)
    <3>1. c.want # {} => HoldIn(booking, block, [c EXCEPT !.at = "list", !.late = {}])
      <4>1. c.want # {} => ~Checking([c EXCEPT !.at = "list", !.late = {}])
        BY <1>1, <1>3 DEF Shaped, Checking, Checked, Request
      <4>. QED BY <4>1, HoldUnchecked
    <3>2. c.op # "basket" => HoldIn(booking, block, [c EXCEPT !.at = "write"])
      BY <1>1, <1>3, <2>3, <2>4 DEF HoldIn, Shaped, Inserting, Quoting, Request
    <3>3. \A v : HoldIn(booking, block, [c EXCEPT !.at = "vehicle", !.left = c.plan, !.slot = On(v, c.body),
                                                  !.late = {}])
      BY <1>3 DEF HoldIn, Vetted, Request
    <3>4. ASSUME c.left # {}, rest # {}, NEW v
          PROVE  HoldIn(booking, block, [c EXCEPT !.at = "vehicle", !.left = rest, !.slot = On(v, c.body)])
      <4>. DEFINE n == [c EXCEPT !.at = "vehicle", !.left = rest, !.slot = On(v, c.body)]
      <4>1. n.at = "vehicle" /\ n.left = rest /\ n.late = c.late /\ n.plan = c.plan /\ n.body = c.body
        BY <1>3 DEF Request
      <4>. HIDE DEF n
      <4>2. Vetted(n) \subseteq (c.plan \ c.left) \cup {c.slot.vehicle}
        BY <2>6, <3>4, <4>1 DEF Vetted
      <4>3. HoldIn(booking, block, n)
        BY <2>5, <3>4, <4>1, <4>2 DEF HoldIn
      <4>. QED BY <4>3 DEF n
    <3>5. ASSUME c.left # {}, rest = {}
          PROVE  HoldIn(booking, block, [c EXCEPT !.at = "write", !.left = {}])
      <4>. DEFINE n == [c EXCEPT !.at = "write", !.left = {}]
      <4>1. n.at = "write" /\ n.late = c.late /\ n.plan = c.plan /\ n.body = c.body /\ n.op = c.op
        BY <1>3 DEF Request
      <4>2. c.op = "basket"
        BY <1>1, <1>3, <3>5 DEF Shaped
      <4>. HIDE DEF n
      <4>3. Vetted(n) \subseteq (c.plan \ c.left) \cup {c.slot.vehicle}
        BY <2>6, <3>5, <4>1 DEF Vetted
      <4>4. HoldIn(booking, block, n)
        BY <2>5, <3>5, <4>1, <4>2, <4>3 DEF HoldIn, Patching
      <4>. QED BY <4>4 DEF n
    <3>. HIDE DEF rest
    <3>. QED BY <1>4, <1>6, <3>1, <3>2, <3>3, <3>4, <3>5, IdleHolds
  <2>. QED BY <1>2, <2>7, GoKeeps
<1>. QED BY <1>4, <1>5, <1>6

\* Id i now holds a slot that was clear of everything outside L.
LEMMA PlacedClear ==
  ASSUME NEW i \in Ids, NEW L \in SUBSET Ids, NEW slot, ClearIn(booking, block, slot, Ids \ (L \cup {i})),
         SettledBut({i}), AsSlot(SlotIn(booking', block', i)) = AsSlot(slot)
  PROVE  \A j \in Ids \ L : ~ClashIn(booking', block', i, j)
<1>. SUFFICES ASSUME NEW j \in Ids \ L, ClashIn(booking', block', i, j) PROVE FALSE
  OBVIOUS
<1>. DEFINE a == SlotIn(booking', block', i)
            b == SlotIn(booking, block, j)   b2 == SlotIn(booking', block', j)
<1>1. j # i /\ PlacedIn(booking', block', j) /\ Collide(a, b2)
  BY DEF ClashIn
<1>2. PlacedIn(booking, block, j) /\ AsSlot(b2) = AsSlot(b)
  BY <1>1 DEF SettledBut, Settled
<1>3. /\ a.vehicle = slot.vehicle /\ a.from = slot.from /\ a.to = slot.to
      /\ b.vehicle = b2.vehicle /\ b.from = b2.from /\ b.to = b2.to
  BY <1>2 DEF AsSlot
<1>4. Collide(slot, b)
  BY <1>1, <1>3 DEF Collide, halfOpenRangesOverlap
<1>. QED BY <1>1, <1>2, <1>4 DEF ClearIn

LEMMA InsertBookingHolds ==
  ASSUME TypeOK, RequestsShaped, HoldsBefore, ClashesWereUnseen, NEW p \in Requests, InsertBooking(p)
  PROVE  HoldsAfter /\ ClashesWereUnseen'
<1>. DEFINE r == req[p]
<1>1. /\ r \in Request /\ HoldIn(booking, block, r) /\ r.at = "write"
      /\ r.op \in {"create", "partner", "public"} /\ r.late \in SUBSET Ids
  BY DEF TypeOK, HoldsBefore, InsertBooking, Request
<1>2. PICK b \in Bookings :
       /\ booking' = [booking EXCEPT ![b] = WithStatus(r.slot, r.body.status, SourceOf(r.op))]
       /\ FinishPlacing(p, {b})
       /\ Place({b}, r.late)
  BY DEF InsertBooking
<1>3. block' = block /\ booking' \in [Bookings -> Row \cup {None}] /\ b \in Ids /\ {b} \in SUBSET Ids
  BY InsertBookingSound DEF InsertBooking, TypeOK, Ids
<1>4. SettledBut({b})
  BY <1>2, <1>3 DEF TypeOK, SettledBut, Settled, PlacedIn, SlotIn, Ids
<1>5. ClearIn(booking, block, r.slot, Ids \ (r.late \cup {b}))
  BY <1>1 DEF HoldIn, ClearIn
<1>6. AsSlot(SlotIn(booking', block', b)) = AsSlot(r.slot)
  BY <1>2 DEF SlotIn, AsSlot, WithStatus, TypeOK
<1>7. \A j \in Ids \ r.late : ~ClashIn(booking', block', b, j)
  BY <1>1, <1>3, <1>4, <1>5, <1>6, PlacedClear
<1>8. HoldsAfter
  BY <1>2, <1>3, <1>4, FinishPlacingHolds
<1>9. ClashesWereUnseen'
  <2>1. \A i \in {b} : \A j \in Ids \ r.late : ~ClashIn(booking', block', i, j)
    BY <1>7
  <2>. QED BY <1>1, <1>2, <1>3, <1>4, <2>1, PlaceKeepsClashes
<1>. QED BY <1>8, <1>9

LEMMA InsertBasketHolds ==
  ASSUME TypeOK, RequestsShaped, HoldsBefore, ClashesWereUnseen, NEW p \in Requests, InsertBasket(p)
  PROVE  HoldsAfter /\ ClashesWereUnseen'
<1>. DEFINE r == req[p]
<1>1. /\ r \in Request /\ HoldIn(booking, block, r) /\ r.at = "write" /\ r.op = "basket"
      /\ r.late \in SUBSET Ids
  BY DEF TypeOK, HoldsBefore, InsertBasket, Request
<1>2. PICK ids \in [r.plan -> Bookings \ spent] :
       LET new == {ids[v] : v \in r.plan} IN
       /\ booking' = [b \in Bookings |->
                        IF b \in new
                        THEN LET v == CHOOSE v \in r.plan : ids[v] = b IN
                             WithStatus(On(v, r.body), "QUOTE", "PUBLIC_WEB")
                        ELSE booking[b]]
       /\ FinishPlacing(p, new)
       /\ Place(new, r.late)
  BY DEF InsertBasket
<1>. DEFINE new == {ids[v] : v \in r.plan}
            veh(b) == CHOOSE v \in r.plan : ids[v] = b
<1>3. block' = block /\ new \in SUBSET Ids /\ new \subseteq Bookings
  BY <1>2 DEF InsertBasket, Ids
<1>4. \A b \in new : veh(b) \in r.plan /\ ids[veh(b)] = b
  OBVIOUS
<1>5. \A b \in new : booking'[b] = WithStatus(On(veh(b), r.body), "QUOTE", "PUBLIC_WEB")
  BY <1>2, <1>3
<1>6. \A b \in Bookings \ new : booking'[b] = booking[b]
  BY <1>2
<1>7. FinishPlacing(p, new) /\ Place(new, r.late)
  BY <1>2
<1>. HIDE DEF new, veh
<1>8. SettledBut(new)
  BY <1>3, <1>6 DEF SettledBut, Settled, PlacedIn, SlotIn, Ids
<1>9. ASSUME NEW i \in new, NEW j \in Ids \ r.late PROVE ~ClashIn(booking', block', i, j)
  <2>1. SlotIn(booking', block', i) = WithStatus(On(veh(i), r.body), "QUOTE", "PUBLIC_WEB")
    BY <1>3, <1>5 DEF SlotIn
  <2>2. CASE j \in new
    <3>1. i # j => veh(i) # veh(j)
      BY <1>4, <2>2
    <3>2. SlotIn(booking', block', j) = WithStatus(On(veh(j), r.body), "QUOTE", "PUBLIC_WEB")
      BY <1>3, <1>5, <2>2 DEF SlotIn
    <3>. QED BY <2>1, <3>1, <3>2 DEF ClashIn, Collide, WithStatus, On
  <2>3. CASE j \notin new
    <3>1. ClearIn(booking, block, On(veh(i), r.body), Ids \ r.late)
      BY <1>1, <1>4 DEF HoldIn, Vetted
    <3>. DEFINE b == SlotIn(booking, block, j)
    <3>2. PlacedIn(booking', block', j) => PlacedIn(booking, block, j)
      BY <1>3, <1>6, <2>3 DEF PlacedIn, Ids
    <3>3. SlotIn(booking', block', j) = b
      BY <1>3, <1>6, <2>3 DEF SlotIn, Ids
    <3>4. PlacedIn(booking, block, j) => ~Collide(On(veh(i), r.body), b)
      BY <3>1 DEF ClearIn
    <3>. HIDE DEF b
    <3>. QED BY <2>1, <3>2, <3>3, <3>4 DEF ClashIn, Collide, halfOpenRangesOverlap, WithStatus
  <2>. QED BY <2>2, <2>3
<1>10. HoldsAfter
  BY <1>3, <1>7, <1>8, FinishPlacingHolds
<1>11. ClashesWereUnseen'
  BY <1>1, <1>3, <1>7, <1>8, <1>9, PlaceKeepsClashes
<1>. QED BY <1>10, <1>11

LEMMA PatchBookingHolds ==
  ASSUME TypeOK, RequestsShaped, HoldsBefore, ClashesWereUnseen, NEW p \in Requests, PatchBooking(p)
  PROVE  HoldsAfter /\ ClashesWereUnseen'
<1>. DEFINE r == req[p]
            old == booking[r.id]
            slot == Patched(old, r.body)
            status == Or(r.body.status, old.status)
            vetted == TouchesSlot(r.body) /\ slot = r.slot
            moved == slot # AsSlot(old)
            revived == old.status \in NonBlocking /\ status \notin NonBlocking
<1>1. /\ r \in Request /\ HoldIn(booking, block, r) /\ r.at = "write" /\ r.op \in Patching
      /\ r.late \in SUBSET Ids /\ r.id \in Bookings
  BY DEF TypeOK, HoldsBefore, RequestsShaped, Shaped, PatchBooking, Request
<1>2. block' = block /\ r.id \in Ids /\ {r.id} \in SUBSET Ids
  BY <1>1 DEF PatchBooking, Ids
<1>3. CASE old = None
  BY <1>2, <1>3, IdleHolds, GoKeeps DEF PatchBooking, Finish
<1>4. CASE old # None
  <2>1. /\ booking' = [booking EXCEPT ![r.id] = WithStatus(slot, status, old.source)]
        /\ IF vetted \/ moved \/ revived
           THEN FinishPlacing(p, {r.id}) /\ Place({r.id}, IF vetted THEN r.late ELSE Ids)
           ELSE Finish(p) /\ UNCHANGED missed
    BY <1>4 DEF PatchBooking
  <2>2. booking'[r.id] = WithStatus(slot, status, old.source)
    BY <1>1, <2>1 DEF TypeOK
  <2>3. \A b \in Bookings \ {r.id} : booking'[b] = booking[b]
    BY <2>1 DEF TypeOK
  <2>4. AsSlot(SlotIn(booking', block', r.id)) = AsSlot(slot)
    BY <1>1, <2>2 DEF SlotIn, AsSlot, WithStatus
  <2>5. SettledBut({r.id})
    BY <1>2, <2>3 DEF SettledBut, Settled, PlacedIn, SlotIn, Ids
  <2>6. CASE vetted
    <3>1. ClearIn(booking, block, slot, Ids \ (r.late \cup {r.id}))
      BY <1>1, <2>6 DEF HoldIn
    <3>. HIDE DEF slot
    <3>2. \A j \in Ids \ r.late : ~ClashIn(booking', block', r.id, j)
      BY <1>1, <1>2, <2>4, <2>5, <3>1, PlacedClear
    <3>3. FinishPlacing(p, {r.id}) /\ Place({r.id}, r.late)
      BY <2>1, <2>6
    <3>. QED BY <1>1, <1>2, <2>5, <3>2, <3>3, FinishPlacingHolds, PlaceKeepsClashes
  <2>7. CASE ~vetted /\ (moved \/ revived)
    <3>1. FinishPlacing(p, {r.id}) /\ Place({r.id}, Ids)
      BY <2>1, <2>7
    <3>2. \A i \in {r.id} : \A j \in Ids \ Ids : ~ClashIn(booking', block', i, j)
      OBVIOUS
    <3>. QED BY <1>2, <2>5, <3>1, <3>2, FinishPlacingHolds, PlaceKeepsClashes
  <2>8. CASE ~vetted /\ ~moved /\ ~revived
    <3>1. Go(p, Idle) /\ missed' = missed
      BY <2>1, <2>8 DEF Finish
    <3>2. PlacedIn(booking', block', r.id) => PlacedIn(booking, block, r.id)
      BY <1>1, <1>4, <2>2, <2>8 DEF PlacedIn, WithStatus
    <3>3. AsSlot(SlotIn(booking', block', r.id)) = AsSlot(SlotIn(booking, block, r.id))
      <4>1. slot = AsSlot(old) /\ AsSlot(AsSlot(old)) = AsSlot(old)
        BY <2>8 DEF AsSlot
      <4>. HIDE DEF slot
      <4>. QED BY <1>1, <2>4, <4>1 DEF SlotIn
    <3>4. SettledBut({})
      BY <2>5, <3>2, <3>3 DEF SettledBut, Settled
    <3>. QED BY <3>1, <3>4, IdleHolds, GoHolds, StillUnseen
  <2>. QED BY <2>6, <2>7, <2>8
<1>. QED BY <1>3, <1>4

LEMMA WriteBlockHolds ==
  ASSUME TypeOK, RequestsShaped, HoldsBefore, ClashesWereUnseen, NEW p \in Requests, WriteBlock(p)
  PROVE  HoldsAfter /\ ClashesWereUnseen'
<1>. DEFINE r == req[p]
<1>1. /\ r \in Request /\ HoldIn(booking, block, r) /\ Shaped(r) /\ r.at = "write"
      /\ r.op \in {"block", "moveBlock"} /\ r.late \in SUBSET Ids
  BY DEF TypeOK, HoldsBefore, RequestsShaped, WriteBlock, Request
<1>2. booking' = booking
  BY DEF WriteBlock
<1>3. ASSUME NEW k \in Blocks, NEW slot, block' = [block EXCEPT ![k] = slot], FinishPlacing(p, {k}),
             NEW L \in SUBSET Ids, Place({k}, L), ClearIn(booking, block, slot, Ids \ (L \cup {k}))
      PROVE  HoldsAfter /\ ClashesWereUnseen'
  <2>1. k \in Ids /\ {k} \in SUBSET Ids
    BY DEF Ids
  <2>2. SettledBut({k})
    BY <1>2, <1>3 DEF TypeOK, SettledBut, Settled, PlacedIn, SlotIn, Ids
  <2>3. AsSlot(SlotIn(booking', block', k)) = AsSlot(slot)
    BY <1>3, CalendarAssumption DEF SlotIn, TypeOK
  <2>4. \A j \in Ids \ L : ~ClashIn(booking', block', k, j)
    BY <1>3, <2>1, <2>2, <2>3, PlacedClear
  <2>5. \A i \in {k} : \A j \in Ids \ L : ~ClashIn(booking', block', i, j)
    BY <2>4
  <2>6. HoldsAfter
    BY <1>3, <2>1, <2>2, FinishPlacingHolds
  <2>7. ClashesWereUnseen'
    BY <1>3, <2>1, <2>2, <2>5, PlaceKeepsClashes
  <2>. QED BY <2>6, <2>7
<1>4. ClearIn(booking, block, r.slot, Blocks \ (r.late \cup {r.id}))
  BY <1>1 DEF HoldIn
<1>5. Bookings \cup r.late \in SUBSET Ids
  BY <1>1 DEF Ids
<1>6. \A k : k = r.id \/ r.id = None =>
        ClearIn(booking, block, r.slot, Ids \ ((Bookings \cup r.late) \cup {k}))
  BY <1>4, CalendarAssumption DEF ClearIn, Ids
<1>7. CASE r.op = "block"
  <2>1. r.id = None
    BY <1>1, <1>7 DEF Shaped
  <2>2. PICK k \in Blocks : /\ block' = [block EXCEPT ![k] = r.slot]
                            /\ FinishPlacing(p, {k})
                            /\ Place({k}, Bookings \cup r.late)
    BY <1>7 DEF WriteBlock
  <2>. QED BY <1>3, <1>5, <1>6, <2>1, <2>2
<1>8. CASE r.op = "moveBlock" /\ block[r.id] # None
  <2>. DEFINE new == Patched(block[r.id], r.body)
  <2>1. /\ block' = [block EXCEPT ![r.id] = new] /\ FinishPlacing(p, {r.id})
        /\ Place({r.id}, IF new = r.slot THEN Bookings \cup r.late ELSE Ids)
    BY <1>8 DEF WriteBlock
  <2>2. r.id \in Blocks
    BY <1>1, <1>8 DEF Shaped
  <2>. HIDE DEF new
  <2>3. CASE new = r.slot
    BY <1>3, <1>5, <1>6, <2>1, <2>2, <2>3
  <2>4. CASE new # r.slot
    <3>1. ClearIn(booking, block, new, Ids \ (Ids \cup {r.id}))
      BY DEF ClearIn
    <3>2. Place({r.id}, Ids)
      BY <2>1, <2>4
    <3>. QED BY <1>3, <2>1, <2>2, <3>1, <3>2
  <2>. QED BY <2>3, <2>4
<1>9. CASE r.op = "moveBlock" /\ block[r.id] = None
  BY <1>2, <1>9, IdleHolds, GoKeeps DEF WriteBlock, Finish
<1>. QED BY <1>1, <1>7, <1>8, <1>9

LEMMA RemovalHolds ==
  ASSUME TypeOK, RequestsShaped, HoldsBefore, ClashesWereUnseen, NEW p \in Requests,
         CancelBooking(p) \/ DeleteBooking(p)
  PROVE  HoldsAfter /\ ClashesWereUnseen'
<1>1. req[p].id \in Bookings
  BY DEF RequestsShaped, Shaped, CancelBooking, DeleteBooking
<1>2. SettledBut({})
  <2>1. block' = block
    BY DEF CancelBooking, DeleteBooking
  <2>2. \A b \in Bookings : booking'[b] # None /\ booking'[b].status \notin NonBlocking => booking'[b] = booking[b]
    <3>1. CASE DeleteBooking(p)
      BY <1>1, <3>1 DEF DeleteBooking, TypeOK
    <3>2. CASE CancelBooking(p)
      <4>1. \A row \in Row : [row EXCEPT !.status = "CANCELLED"].status \in NonBlocking
        BY DEF Row, NonBlocking
      <4>. QED BY <1>1, <3>2, <4>1 DEF CancelBooking, TypeOK
    <3>. QED BY <3>1, <3>2
  <2>. QED BY <2>1, <2>2 DEF SettledBut, Settled, PlacedIn, SlotIn, Ids
<1>3. Go(p, Idle) /\ missed' = missed
  BY DEF CancelBooking, DeleteBooking, Finish, history
<1>. QED BY <1>2, <1>3, IdleHolds, GoHolds, StillUnseen

LEMMA OutsideHolds ==
  ASSUME TypeOK, HoldsBefore, ClashesWereUnseen,
         (\E k \in Blocks : RemoveBlock(k)) \/ (\E v \in Vehicles : SetVehicleStatus(v)) \/ UNCHANGED vars
  PROVE  HoldsAfter /\ ClashesWereUnseen'
<1>1. req' = req /\ missed' = missed
  BY DEF RemoveBlock, SetVehicleStatus, vars, history
<1>2. SettledBut({})
  BY DEF RemoveBlock, SetVehicleStatus, vars, TypeOK, SettledBut, Settled, PlacedIn, SlotIn, Ids
<1>3. ASSUME NEW q \in Requests PROVE HoldIn(booking', block', req'[q])
  <2>1. req[q] \in Request
    BY DEF TypeOK
  <2>2. [req[q] EXCEPT !.late = @ \cup {}] = req[q]
    BY <2>1 DEF Request
  <2>. QED BY <1>1, <1>2, <2>1, <2>2, HoldKept DEF HoldsBefore, SettledBut
<1>. QED BY <1>1, <1>2, <1>3, StillUnseen DEF HoldsAfter

LEMMA AutoBlockHolds ==
  ASSUME TypeOK, RequestsShaped, HoldsBefore, ClashesWereUnseen, NEW k \in Blocks, AutoBlock(k)
  PROVE  HoldsAfter /\ ClashesWereUnseen'
<1>1. {k} \in SUBSET Ids
  BY DEF Ids
<1>2. SettledBut({k})
  BY DEF AutoBlock, TypeOK, SettledBut, Settled, PlacedIn, SlotIn, Ids
<1>3. ASSUME NEW q \in Requests PROVE HoldIn(booking', block', req'[q])
  <2>1. CASE Checking(req[q])
    <3>1. req[q] \in Request /\ req'[q] = [req[q] EXCEPT !.late = @ \cup {k}]
      BY <2>1 DEF AutoBlock, Notice, TypeOK
    <3>. QED BY <1>1, <1>2, <3>1, HoldKept DEF HoldsBefore, SettledBut
  <2>2. CASE ~Checking(req[q])
    BY <2>2, HoldUnchecked DEF AutoBlock, Notice
  <2>. QED BY <2>1, <2>2
<1>4. \A i \in {k} : \A j \in Ids \ Ids : ~ClashIn(booking', block', i, j)
  OBVIOUS
<1>5. ClashesWereUnseen'
  BY <1>1, <1>2, <1>4, PlaceKeepsClashes DEF AutoBlock
<1>. QED BY <1>3, <1>5 DEF HoldsAfter

\* The conjunct ChecksHold of the invariant is HoldIn of the tables as they are.
LEMMA HoldIsChecksHold == HoldsBefore <=> \A p \in Requests : ChecksHold(req[p])
BY DEF HoldsBefore, HoldIn, ChecksHold, ClearIn, Clear, PlacedIn, Placed, Blocking, SlotIn, SlotOf

-----------------------------------------------------------------------------
(***************************************************************************)
(* Idempotency keys.                                                       *)
(***************************************************************************)

KeysSound == SpentOnce /\ KeyRowsPoint /\ OneBookingPerKey

LEMMA KeysKept ==
  ASSUME TypeOK, KeysSound, UNCHANGED <<idem, replied>>, spent \subseteq spent',
         \A b \in Bookings : booking'[b] # None => b \in spent',
         \A b \in Bookings \cap spent : booking'[b] # None <=> booking[b] # None
  PROVE  KeysSound'
<1>1. \A k \in Keys : replied[k] \subseteq Bookings \cap spent
  BY DEF KeysSound, SpentOnce, TypeOK
<1>2. ASSUME NEW k \in Keys, idem[k] # None PROVE idem[k].id \in Bookings \cap spent
  BY <1>2 DEF KeysSound, KeyRowsPoint, SpentOnce, TypeOK, KeyRow
<1>3. SpentOnce'
  BY <1>1 DEF SpentOnce
<1>4. KeyRowsPoint'
  BY <1>2 DEF KeysSound, KeyRowsPoint
<1>5. OneBookingPerKey'
  BY <1>1 DEF KeysSound, OneBookingPerKey
<1>. QED BY <1>3, <1>4, <1>5 DEF KeysSound

\* The insert of a partner's booking and its key row.
LEMMA InsertKeepsKeys ==
  ASSUME TypeOK, RequestsShaped, KeysSound, NEW p \in Requests, InsertBooking(p)
  PROVE  KeysSound'
<1>. DEFINE r == req[p]
            row == WithStatus(r.slot, r.body.status, SourceOf(r.op))
<1>1. PICK b \in Bookings \ spent :
       /\ booking' = [booking EXCEPT ![b] = row]
       /\ spent' = spent \cup {b}
       /\ IF r.key = None THEN UNCHANGED <<idem, replied>>
          ELSE idem' = [idem EXCEPT ![r.key] = [body |-> r.body, id |-> b]] /\ Answer(r.key, b)
  BY DEF InsertBooking
<1>2. booking' \in [Bookings -> Row \cup {None}]
  BY InsertBookingSound DEF TypeOK
<1>. HIDE DEF row
<1>3. \A c \in Bookings : booking'[c] # None => c \in spent'
  BY <1>1 DEF TypeOK, KeysSound, SpentOnce
<1>4. \A c \in Bookings \cap spent : booking'[c] = booking[c]
  BY <1>1 DEF TypeOK
<1>5. CASE r.key = None
  BY <1>1, <1>3, <1>4, <1>5, KeysKept
<1>6. CASE r.key # None
  <2>. DEFINE new == [body |-> r.body, id |-> b]
  <2>1. r.key \in Keys /\ r.body \in Body
    BY <1>6 DEF TypeOK, Request
  <2>2. idem[r.key] = None
    BY <1>6 DEF InsertBooking
  <2>3. new # None /\ new.id = b
    BY <2>1, NullAssumption DEF KeyRow
  <2>4. booking'[b] # None
    <3>1. row \in Row
      <4>1. r \in Request /\ Shaped(r) /\ r.at = "write" /\ r.op \in {"create", "partner", "public"}
        BY DEF TypeOK, RequestsShaped, InsertBooking
      <4>2. r.slot \in Slot /\ r.body.status \in Statuses
        BY <4>1 DEF Shaped, Inserting, Quoting
      <4>. QED BY <4>1, <4>2 DEF row, WithStatus, SourceOf, Row, Slot, Sources
    <3>. QED BY <1>1, <3>1, NullAssumption DEF TypeOK
  <2>5. /\ idem' = [idem EXCEPT ![r.key] = new]
        /\ replied' = [replied EXCEPT ![r.key] = replied[r.key] \cup {b}]
    BY <1>1, <1>6 DEF Answer
  <2>. HIDE DEF new
  <2>6. ASSUME NEW k \in Keys, k # r.key PROVE idem'[k] = idem[k] /\ replied'[k] = replied[k]
    BY <2>5, <2>6 DEF TypeOK
  <2>7. idem'[r.key] = new /\ replied'[r.key] = replied[r.key] \cup {b}
    BY <2>1, <2>5 DEF TypeOK
  <2>8. \A k \in Keys : replied[k] \subseteq Bookings \cap spent
    BY DEF KeysSound, SpentOnce, TypeOK
  <2>9. SpentOnce'
    BY <1>1, <1>3, <2>6, <2>7, <2>8 DEF SpentOnce
  <2>10. KeyRowsPoint'
    <3>1. \A k \in Keys : idem[k] # None => idem[k].id \in Bookings \cap spent
      BY DEF KeysSound, KeyRowsPoint, SpentOnce, TypeOK, KeyRow
    <3>. QED BY <1>4, <2>3, <2>4, <2>6, <2>7, <3>1 DEF KeysSound, KeyRowsPoint
  <2>11. OneBookingPerKey'
    BY <1>4, <2>2, <2>3, <2>6, <2>7, <2>8 DEF KeysSound, OneBookingPerKey
  <2>. QED BY <2>9, <2>10, <2>11 DEF KeysSound
<1>. QED BY <1>5, <1>6

LEMMA InsertBasketKeepsKeys ==
  ASSUME TypeOK, KeysSound, NEW p \in Requests, InsertBasket(p)
  PROVE  KeysSound'
<1>. DEFINE r == req[p]
<1>1. PICK ids \in [r.plan -> Bookings \ spent] :
       LET new == {ids[v] : v \in r.plan} IN
       /\ booking' = [b \in Bookings |->
                        IF b \in new
                        THEN LET v == CHOOSE v \in r.plan : ids[v] = b IN
                             WithStatus(On(v, r.body), "QUOTE", "PUBLIC_WEB")
                        ELSE booking[b]]
       /\ spent' = spent \cup new
  BY DEF InsertBasket
<1>. DEFINE new == {ids[v] : v \in r.plan}
<1>2. new \subseteq Bookings \ spent /\ spent' = spent \cup new
  BY <1>1
<1>3. \A b \in Bookings \ new : booking'[b] = booking[b]
  BY <1>1
<1>. HIDE DEF new
<1>4. \A b \in Bookings : booking'[b] # None => b \in spent'
  BY <1>2, <1>3 DEF KeysSound, SpentOnce
<1>5. \A b \in Bookings \cap spent : booking'[b] = booking[b]
  BY <1>2, <1>3
<1>6. UNCHANGED <<idem, replied>> /\ spent \subseteq spent'
  BY <1>2 DEF InsertBasket
<1>. QED BY <1>4, <1>5, <1>6, KeysKept

\* A write over a row that is there, or over nothing.
LEMMA OverwriteKeepsKeys ==
  ASSUME TypeOK, RequestsShaped, KeysSound, NEW p \in Requests,
         PatchBooking(p) \/ CancelBooking(p) \/ WriteBlock(p)
  PROVE  KeysSound'
<1>. DEFINE r == req[p]
<1>1. UNCHANGED <<idem, replied>> /\ spent \subseteq spent'
  BY DEF PatchBooking, CancelBooking, WriteBlock, history
<1>2. ASSUME NEW b \in Bookings PROVE booking'[b] # None <=> booking[b] # None
  <2>1. CASE WriteBlock(p)
    BY <2>1 DEF WriteBlock
  <2>2. CASE CancelBooking(p)
    <3>1. r.id \in Bookings /\ booking[r.id] \in Row \cup {None}
      BY <2>2 DEF CancelBooking, RequestsShaped, Shaped, TypeOK
    <3>2. \A row \in Row : [row EXCEPT !.status = "CANCELLED"] \in Row
      BY DEF Row, Statuses, NonBlocking
    <3>. QED BY <2>2, <3>1, <3>2, NullAssumption DEF CancelBooking, TypeOK
  <2>3. CASE PatchBooking(p)
    <3>. DEFINE old == booking[r.id]
                row == WithStatus(Patched(old, r.body), Or(r.body.status, old.status), old.source)
    <3>1. /\ r \in Request /\ r.id \in Bookings /\ r.body \in Body
          /\ old \in Row \cup {None}
      BY <2>3 DEF PatchBooking, RequestsShaped, Shaped, TypeOK, Request
    <3>2. CASE old = None
      BY <2>3, <3>2 DEF PatchBooking
    <3>3. CASE old # None
      <4>1. Patched(old, r.body) \in Slot
        BY <3>1, <3>3, PatchedSlot DEF Row
      <4>2. row \in Row
        BY <3>1, <3>3, <4>1 DEF WithStatus, Or, Row, Slot, Body
      <4>3. booking' = [booking EXCEPT ![r.id] = row]
        BY <2>3, <3>3 DEF PatchBooking
      <4>. HIDE DEF row
      <4>. QED BY <3>1, <3>3, <4>2, <4>3, NullAssumption DEF TypeOK
    <3>. QED BY <3>2, <3>3
  <2>. QED BY <2>1, <2>2, <2>3
<1>3. \A b \in Bookings : booking'[b] # None => b \in spent'
  BY <1>1, <1>2 DEF KeysSound, SpentOnce
<1>. QED BY <1>1, <1>2, <1>3, KeysKept

LEMMA DeleteKeepsKeys ==
  ASSUME TypeOK, RequestsShaped, KeysSound, NEW p \in Requests, DeleteBooking(p)
  PROVE  KeysSound'
<1>. DEFINE d == req[p].id
<1>1. d \in Bookings
  BY DEF DeleteBooking, RequestsShaped, Shaped
<1>2. booking'[d] = None /\ \A b \in Bookings \ {d} : booking'[b] = booking[b]
  BY <1>1 DEF DeleteBooking, TypeOK
<1>3. spent' = spent /\ replied' = replied
  BY DEF DeleteBooking, history
<1>4. \A k \in Keys : idem'[k] = IF idem[k] # None /\ idem[k].id = d THEN None ELSE idem[k]
  BY DEF DeleteBooking
<1>. HIDE DEF d
<1>5. SpentOnce'
  BY <1>1, <1>2, <1>3 DEF KeysSound, SpentOnce
<1>6. KeyRowsPoint'
  BY <1>2, <1>4 DEF KeysSound, KeyRowsPoint, TypeOK, KeyRow
<1>7. OneBookingPerKey'
  BY <1>2, <1>3, <1>4 DEF KeysSound, OneBookingPerKey, TypeOK
<1>. QED BY <1>5, <1>6, <1>7 DEF KeysSound

LEMMA LookupKeepsKeys ==
  ASSUME TypeOK, RequestsShaped, KeysSound, NEW p \in Requests, Lookup(p)
  PROVE  KeysSound'
<1>. DEFINE k == req[p].key
<1>1. k \in Keys
  BY DEF TypeOK, RequestsShaped, Shaped, Request, Lookup
<1>2. UNCHANGED <<booking, idem, spent>>
  BY DEF Lookup, tables
<1>3. \/ replied' = replied
      \/ idem[k] # None /\ replied' = [replied EXCEPT ![k] = replied[k] \cup {idem[k].id}]
  BY DEF Lookup, Answer
<1>4. idem[k] # None => idem[k].id \in Bookings \cap spent
  BY <1>1 DEF KeysSound, KeyRowsPoint, SpentOnce, TypeOK, KeyRow
<1>. HIDE DEF k
<1>5. CASE replied' = replied
  BY <1>2, <1>5, KeysKept DEF KeysSound, SpentOnce
<1>6. CASE idem[k] # None /\ replied' = [replied EXCEPT ![k] = replied[k] \cup {idem[k].id}]
  <2>1. \A l \in Keys : replied'[l] = IF l = k THEN replied[l] \cup {idem[k].id} ELSE replied[l]
    BY <1>6 DEF TypeOK
  <2>. QED BY <1>1, <1>2, <1>4, <1>6, <2>1 DEF KeysSound, SpentOnce, KeyRowsPoint, OneBookingPerKey
<1>. QED BY <1>3, <1>5, <1>6

\* The steps that leave the bookings and the keys alone.
LEMMA OthersKeepKeys ==
  ASSUME KeysSound, UNCHANGED <<booking, idem, spent, replied>>
  PROVE  KeysSound'
BY DEF KeysSound, SpentOnce, KeyRowsPoint, OneBookingPerKey

LEMMA NextKeepsKeys ==
  ASSUME TypeOK, RequestsShaped, KeysSound, [Next]_vars
  PROVE  KeysSound'
<1>1. CASE UNCHANGED <<booking, idem, spent, replied>>
  BY <1>1, OthersKeepKeys
<1>2. ASSUME NEW p \in Requests,
             \/ RequestBooking(p) \/ RequestQuote(p) \/ RequestPatch(p) \/ RequestPayment(p)
             \/ RequestCancel(p) \/ RequestDelete(p) \/ RequestBlock(p)
      PROVE  UNCHANGED <<booking, idem, spent, replied>>
  BY <1>2 DEF RequestBooking, RequestQuote, RequestPatch, RequestPayment, RequestCancel, RequestDelete, RequestBlock,
     Arrive, tables, history
<1>3. ASSUME NEW p \in Requests,
             \/ ListVehicles(p) \/ ListBlocks(p) \/ ListBookings(p) \/ CheckVehicle(p) \/ CheckBlocks(p)
             \/ CheckBookings(p) \/ InsertDuplicate(p) \/ Abort(p)
      PROVE  UNCHANGED <<booking, idem, spent, replied>>
  BY <1>3 DEF ListVehicles, ListBlocks, ListBookings, Listing, CheckVehicle, CheckBlocks, CheckBookings,
     InsertDuplicate, Abort, tables, history
<1>4. ASSUME \/ \E k \in Blocks : RemoveBlock(k)
             \/ \E v \in Vehicles : SetVehicleStatus(v)
             \/ UNCHANGED vars
      PROVE  UNCHANGED <<booking, idem, spent, replied>>
  BY <1>4 DEF RemoveBlock, SetVehicleStatus, vars, history
<1>5. ASSUME NEW k \in Blocks, AutoBlock(k) PROVE KeysSound'
  BY <1>5, KeysKept DEF AutoBlock, KeysSound, SpentOnce
<1>. QED BY <1>1, <1>2, <1>3, <1>4, <1>5, InsertKeepsKeys, InsertBasketKeepsKeys, OverwriteKeepsKeys,
     DeleteKeepsKeys, LookupKeepsKeys DEF Next, Step

-----------------------------------------------------------------------------
(***************************************************************************)
(* The results.                                                            *)
(***************************************************************************)

\* The inductive invariant holds of every reachable state.
THEOREM CalendarInvariant == Spec => []CalendarInv
<1>. DEFINE Inv == TypeOK /\ RequestsShaped /\ HoldsBefore /\ ClashesWereUnseen /\ KeysSound
<1>1. Init => Inv
  <2>. SUFFICES ASSUME Init PROVE Inv
    OBVIOUS
  <2>1. TypeOK /\ RequestsShaped
    BY IdleSound, CalendarAssumption DEF Init, TypeOK, RequestsShaped, Sound
  <2>2. HoldsBefore
    BY IdleHolds DEF Init, HoldsBefore
  <2>3. ClashesWereUnseen
    BY DEF Init, ClashesWereUnseen, Clash, Placed, Blocking, Ids
  <2>4. KeysSound
    BY DEF Init, KeysSound, SpentOnce, KeyRowsPoint, OneBookingPerKey
  <2>. QED BY <2>1, <2>2, <2>3, <2>4
<1>2. Inv /\ [Next]_vars => Inv'
  <2>. SUFFICES ASSUME Inv, [Next]_vars PROVE Inv'
    OBVIOUS
  <2>1. TypeOK' /\ RequestsShaped'
    BY NextSound DEF RequestsShaped
  <2>2. HoldsAfter /\ ClashesWereUnseen'
    BY ArrivalHolds, LookingHolds, CheckBlocksHolds, CheckBookingsHolds, InsertBookingHolds,
       InsertBasketHolds, PatchBookingHolds, WriteBlockHolds, AutoBlockHolds,
       RemovalHolds, OutsideHolds DEF Next, Step
  <2>3. KeysSound'
    BY NextKeepsKeys
  <2>. QED BY <2>1, <2>2, <2>3 DEF HoldsBefore, HoldsAfter
<1>3. Inv => CalendarInv
  BY HoldIsChecksHold DEF CalendarInv, RequestsSound, RequestsShaped, KeysSound
<1>. QED BY <1>1, <1>2, <1>3, PTL DEF Spec

\* However requests interleave, a clash in the calendar is always between two
\* rows of which the later was written without the earlier having been seen:
\* assertVehicleFree and assertNoBlockOverlap never let through a slot that
\* what they read already shows taken.
THEOREM ClashSafety == Spec => []ClashesWereUnseen
<1>1. CalendarInv => ClashesWereUnseen
  BY DEF CalendarInv
<1>. QED BY <1>1, CalendarInvariant, PTL

\* However retries, deletes and crashes interleave, an Idempotency-Key has at
\* most one live booking among those its partner was answered with
\* (createForPartner).
THEOREM KeySafety == Spec => []OneBookingPerKey
<1>1. CalendarInv => OneBookingPerKey
  BY DEF CalendarInv
<1>. QED BY <1>1, CalendarInvariant, PTL

\* However retries, deletes and crashes interleave, a key row leads to a booking
\* that exists: createForPartner writes the two in one transaction, and a delete
\* takes both.
THEOREM KeyRowsLead == Spec => []KeyRowsPoint
<1>1. CalendarInv => KeyRowsPoint
  BY DEF CalendarInv
<1>. QED BY <1>1, CalendarInvariant, PTL

-----------------------------------------------------------------------------
(***************************************************************************)
(* ARCHITECTURE.md's rule, NoDoubleBooking: what it takes to break it.     *)
(***************************************************************************)

\* While a request is under way, the others are idle: nobody notices its write.
LEMMA NobodyNotices ==
  ASSUME TypeOK, RequestsShaped, OneAtATime, NEW p \in Requests, req[p].at # "idle", NEW S,
         FinishPlacing(p, S) \/ Finish(p)
  PROVE  req' = [req EXCEPT ![p] = Idle]
<1>1. ASSUME NEW q \in Requests, q # p PROVE ~Checking(req[q]) /\ req[q].at = "idle"
  <2>1. req[q].at = "idle"
    BY <1>1 DEF OneAtATime
  <2>2. req[q].left = {}
    BY <2>1 DEF RequestsShaped, Shaped, Vetting
  <2>. QED BY <2>1, <2>2 DEF Checking, Checked
<1>2. CASE FinishPlacing(p, S)
  BY <1>1, <1>2 DEF FinishPlacing, TypeOK
<1>3. CASE Finish(p)
  BY <1>3 DEF Finish, Go
<1>. QED BY <1>2, <1>3

\* A write that places no booking unseen by another leaves no pair of bookings missed.
LEMMA PlacedApart ==
  ASSUME SerialInv, NEW S, NEW L, Place(S, L), S \cap Bookings = {} \/ L \cap Bookings = {}
  PROVE  \A b, c \in Bookings : <<b, c>> \notin missed'
BY DEF SerialInv, Place

\* The end of the request under way.
LEMMA EndKeepsSerial ==
  ASSUME TypeOK, RequestsShaped, SerialInv, OneAtATime, NEW p \in Requests, req[p].at # "idle", NEW S,
         FinishPlacing(p, S) \/ Finish(p), \A b, c \in Bookings : <<b, c>> \notin missed'
  PROVE  SerialInv'
<1>1. req' = [req EXCEPT ![p] = Idle]
  BY NobodyNotices
<1>2. ASSUME NEW q \in Requests PROVE req'[q].late \cap Bookings = {} /\ req'[q].at = "idle"
  <2>1. CASE q = p
    BY <1>1, <2>1 DEF TypeOK, Idle
  <2>2. CASE q # p
    BY <1>1, <2>2 DEF TypeOK, OneAtATime, SerialInv, Current
  <2>. QED BY <2>1, <2>2
<1>3. \A q \in Requests : Current(req[q])'
  BY <1>2 DEF Current
<1>. QED BY <1>3 DEF SerialInv

\* A step of one request that touches neither bookings nor the history.
LEMMA GoKeepsSerial ==
  ASSUME TypeOK, SerialInv, NEW p \in Requests, NEW n, Go(p, n), UNCHANGED <<booking, missed>>, Current(n)
  PROVE  SerialInv'
<1>1. ASSUME NEW q \in Requests PROVE Current(req[q])'
  <2>1. CASE q = p
    <3>1. req'[q] = n
      BY <2>1 DEF Go, TypeOK
    <3>. QED BY <3>1 DEF Current
  <2>2. CASE q # p
    <3>1. req'[q] = req[q] /\ Current(req[q])
      BY <2>2 DEF Go, TypeOK, SerialInv
    <3>. QED BY <3>1 DEF Current
  <2>. QED BY <2>1, <2>2
<1>. QED BY <1>1 DEF SerialInv

LEMMA IdleCurrent == Current(Idle)
BY DEF Current, Idle

LEMMA ArrivalKeepsSerial ==
  ASSUME TypeOK, SerialInv, NEW p \in Requests,
         \/ RequestBooking(p) \/ RequestQuote(p) \/ RequestPatch(p) \/ RequestPayment(p)
         \/ RequestCancel(p) \/ RequestDelete(p) \/ RequestBlock(p)
  PROVE  SerialInv'
<1>1. ASSUME NEW n, Go(p, n), UNCHANGED <<tables, history>>, n.late = {},
             n.op \in Patching =>
               /\ booking[n.id] # None
               /\ n.slot = Patched(booking[n.id], n.body)
               /\ n.op = "pay" =>
                    /\ ~TouchesSlot(n.body)
                    /\ booking[n.id].status \in NonBlocking => n.body.status \in NonBlocking
      PROVE  SerialInv'
  <2>1. Current(n)
    BY <1>1 DEF Current
  <2>2. UNCHANGED <<booking, missed>>
    BY <1>1 DEF tables, history
  <2>. QED BY <1>1, <2>1, <2>2, GoKeepsSerial
<1>2. CASE RequestBooking(p)
  <2>. PICK op \in {"create", "partner"}, s \in Trips, st \in NewStatuses, k \in Keys \cup {None} :
         Arrive(p, op, [Idle EXCEPT !.at = IF k = None THEN "vehicle" ELSE "lookup", !.key = k,
                                    !.slot = s, !.body = BodyOf(s, st)])
    BY <1>2 DEF RequestBooking
  <2>. DEFINE m == [Idle EXCEPT !.at = IF k = None THEN "vehicle" ELSE "lookup", !.key = k,
                                !.slot = s, !.body = BodyOf(s, st)]
              n == [m EXCEPT !.op = op]
  <2>1. n.late = {} /\ n.op \notin Patching
    BY DEF Idle, Patching
  <2>2. Go(p, n) /\ UNCHANGED <<tables, history>>
    BY DEF Arrive
  <2>. HIDE DEF n
  <2>. QED BY <2>1, <2>2, <1>1
<1>3. CASE RequestQuote(p)
  <2>. DEFINE body(s) == [vehicle |-> None, from |-> s.from, to |-> s.to, status |-> "QUOTE"]
  <2>. PICK op \in {"public", "basket"}, lines \in SUBSET Classes \ {{}}, s \in Trips :
         Arrive(p, op, [Idle EXCEPT !.at = "list", !.want = lines, !.body = body(s)])
    BY <1>3 DEF RequestQuote
  <2>. DEFINE m == [Idle EXCEPT !.at = "list", !.want = lines, !.body = body(s)]
              n == [m EXCEPT !.op = op]
  <2>1. n.late = {} /\ n.op \notin Patching
    BY DEF Idle, Patching
  <2>2. Go(p, n) /\ UNCHANGED <<tables, history>>
    BY DEF Arrive
  <2>. HIDE DEF n
  <2>. QED BY <2>1, <2>2, <1>1
<1>4. CASE RequestPatch(p)
  <2>. PICK b, body, at :
         /\ booking[b] # None
         /\ Arrive(p, "patch", [Idle EXCEPT !.at = at, !.id = b, !.body = body,
                                            !.slot = Patched(booking[b], body)])
    BY <1>4 DEF RequestPatch
  <2>. DEFINE m == [Idle EXCEPT !.at = at, !.id = b, !.body = body, !.slot = Patched(booking[b], body)]
              n == [m EXCEPT !.op = "patch"]
  <2>1. n.late = {} /\ n.op = "patch" /\ n.id = b /\ n.body = body /\ n.slot = Patched(booking[b], body)
    BY DEF Idle
  <2>2. Go(p, n) /\ UNCHANGED <<tables, history>>
    BY DEF Arrive
  <2>. HIDE DEF n
  <2>. QED BY <2>1, <2>2, <1>1
<1>5. CASE RequestPayment(p)
  <2>. PICK b \in Bookings : LET row == booking[b]
                                next == IF row.status \in {"QUOTE", "PENDING_PAYMENT"} THEN "CONFIRMED" ELSE row.status
                            IN  /\ row # None
                                /\ Arrive(p, "pay", [Idle EXCEPT !.at = "write", !.id = b, !.slot = AsSlot(row),
                                                                 !.body = [EmptyBody EXCEPT !.status = next]])
    BY <1>5 DEF RequestPayment
  <2>. DEFINE row == booking[b]
              next == IF row.status \in {"QUOTE", "PENDING_PAYMENT"} THEN "CONFIRMED" ELSE row.status
              body == [EmptyBody EXCEPT !.status = next]
              m == [Idle EXCEPT !.at = "write", !.id = b, !.slot = AsSlot(row), !.body = body]
              n == [m EXCEPT !.op = "pay"]
  <2>1. n.late = {} /\ n.op = "pay" /\ n.id = b /\ n.body = body /\ n.slot = AsSlot(row)
    BY DEF Idle
  <2>2. AsSlot(row) = Patched(row, body) /\ ~TouchesSlot(body)
    BY DEF EmptyBody, AsSlot, Patched, Or, TouchesSlot
  <2>3. row.status \in NonBlocking => body.status \in NonBlocking
    BY DEF EmptyBody, NonBlocking
  <2>4. Go(p, n) /\ UNCHANGED <<tables, history>> /\ row # None
    BY DEF Arrive
  <2>. HIDE DEF n, body
  <2>. QED BY <2>1, <2>2, <2>3, <2>4, <1>1
<1>6. CASE RequestCancel(p) \/ RequestDelete(p)
  <2>. PICK b \in Bookings, op \in {"cancel", "delete"} : Arrive(p, op, [Idle EXCEPT !.at = "write", !.id = b])
    BY <1>6 DEF RequestCancel, RequestDelete
  <2>. DEFINE m == [Idle EXCEPT !.at = "write", !.id = b]
              n == [m EXCEPT !.op = op]
  <2>1. n.late = {} /\ n.op \notin Patching
    BY DEF Idle, Patching
  <2>2. Go(p, n) /\ UNCHANGED <<tables, history>>
    BY DEF Arrive
  <2>. HIDE DEF n
  <2>. QED BY <2>1, <2>2, <1>1
<1>7. CASE RequestBlock(p)
  <2>1. ASSUME NEW s, NEW body,
               Arrive(p, "block", [Idle EXCEPT !.at = "blocks", !.slot = s, !.body = body])
        PROVE  SerialInv'
    <3>. DEFINE m == [Idle EXCEPT !.at = "blocks", !.slot = s, !.body = body]
                n == [m EXCEPT !.op = "block"]
    <3>1. n.late = {} /\ n.op \notin Patching
      BY DEF Idle, Patching
    <3>2. Go(p, n) /\ UNCHANGED <<tables, history>>
      BY <2>1 DEF Arrive
    <3>. HIDE DEF n
    <3>. QED BY <3>1, <3>2, <1>1
  <2>2. ASSUME NEW k, NEW s, NEW body,
               Arrive(p, "moveBlock", [Idle EXCEPT !.at = "blocks", !.id = k, !.body = body, !.slot = s])
        PROVE  SerialInv'
    <3>. DEFINE m == [Idle EXCEPT !.at = "blocks", !.id = k, !.body = body, !.slot = s]
                n == [m EXCEPT !.op = "moveBlock"]
    <3>1. n.late = {} /\ n.op \notin Patching
      BY DEF Idle, Patching
    <3>2. Go(p, n) /\ UNCHANGED <<tables, history>>
      BY <2>2 DEF Arrive
    <3>. HIDE DEF n
    <3>. QED BY <3>1, <3>2, <1>1
  <2>. QED BY <1>7, <2>1, <2>2 DEF RequestBlock
<1>. QED BY <1>2, <1>3, <1>4, <1>5, <1>6, <1>7

\* A query keeps what a PATCH or a payment has read, or ends the request.
LEMMA QueryKeepsSerial ==
  ASSUME TypeOK, RequestsShaped, SerialInv, NEW p \in Requests,
         \/ Lookup(p) \/ ListVehicles(p) \/ ListBlocks(p) \/ ListBookings(p) \/ CheckVehicle(p)
         \/ CheckBlocks(p) \/ CheckBookings(p) \/ InsertDuplicate(p) \/ Abort(p)
  PROVE  SerialInv'
<1>. DEFINE r == req[p]
            Keeps(n) == /\ n.op = r.op /\ n.id = r.id /\ n.body = r.body /\ n.late \subseteq r.late
                        /\ r.op \in Patching => n.slot = r.slot /\ r.at # "idle"
<1>1. r \in Request /\ Shaped(r) /\ Current(r)
  BY DEF TypeOK, RequestsShaped, SerialInv
<1>2. UNCHANGED <<booking, missed>>
  BY DEF Lookup, ListVehicles, ListBlocks, ListBookings, Listing, CheckVehicle, CheckBlocks, CheckBookings,
     InsertDuplicate, Abort, tables, history
<1>3. PICK n : Go(p, n) /\ (n = Idle \/ Keeps(n))
  <2>1. CASE Lookup(p)
    <3>1. Keeps([r EXCEPT !.at = "vehicle"])
      BY <1>1, <2>1 DEF Lookup, Request
    <3>. QED BY <2>1, <3>1 DEF Lookup, Finish
  <2>2. CASE ListVehicles(p)
    <3>1. \A c, S : Keeps([r EXCEPT !.at = "listBlocks", !.want = @ \ {c}, !.pool = S])
      BY <1>1, <2>2 DEF ListVehicles, Listing, Request
    <3>2. PICK c, S : Go(p, IF S = {} THEN Idle ELSE [r EXCEPT !.at = "listBlocks", !.want = @ \ {c}, !.pool = S])
      BY <2>2 DEF ListVehicles
    <3>. HIDE DEF Keeps
    <3>. QED BY <3>1, <3>2
  <2>3. CASE ListBlocks(p)
    <3>1. \A S : Keeps([r EXCEPT !.at = "listBookings", !.pool = S])
      BY <1>1, <2>3 DEF ListBlocks, Listing, Request
    <3>. QED BY <2>3, <3>1 DEF ListBlocks
  <2>4. CASE ListBookings(p)
    <3>1. r.op \notin Patching
      BY <1>1, <2>4 DEF ListBookings, Listing, Shaped, Listings, Quoting, Patching
    <3>2. \A v : Keeps([r EXCEPT !.at = "vehicle", !.slot = On(v, r.body), !.pool = {}, !.plan = @ \cup {v}])
      BY <1>1, <3>1 DEF Request
    <3>. QED BY <2>4, <3>2 DEF ListBookings, Finish
  <2>5. CASE CheckVehicle(p)
    <3>1. Keeps([r EXCEPT !.at = "blocks"])
      BY <1>1, <2>5 DEF CheckVehicle, Request
    <3>. QED BY <2>5, <3>1 DEF CheckVehicle
  <2>6. CASE CheckBlocks(p)
    <3>1. \A at, L : L \subseteq r.late => Keeps([r EXCEPT !.at = at, !.late = L])
      BY <1>1, <2>6 DEF CheckBlocks, Request
    <3>2. PICK at, L : L \subseteq r.late /\ Go(p, IF BlockedFor(r.slot, r.id) THEN Idle
                                                ELSE [r EXCEPT !.at = at, !.late = L])
      BY <2>6 DEF CheckBlocks
    <3>3. CASE BlockedFor(r.slot, r.id)
      BY <3>2, <3>3
    <3>4. CASE ~BlockedFor(r.slot, r.id)
      <4>1. Keeps([r EXCEPT !.at = at, !.late = L])
        BY <3>1, <3>2
      <4>2. Go(p, [r EXCEPT !.at = at, !.late = L])
        BY <3>2, <3>4
      <4>. HIDE DEF Keeps
      <4>. QED BY <4>1, <4>2
    <3>. QED BY <3>3, <3>4
  <2>7. CASE CheckBookings(p)
    <3>. DEFINE c == [r EXCEPT !.late = IF Fresh(r) THEN @ \ Bookings ELSE @]
                rest == c.left \ {c.slot.vehicle}
    <3>1. c.late \subseteq r.late /\ c.want = r.want /\ c.op = r.op /\ c.left = r.left /\ c.slot = r.slot
          /\ c.id = r.id /\ c.body = r.body /\ c.at = r.at /\ c.plan = r.plan
      BY <1>1 DEF Request
    <3>2. r.at = "bookings" /\ (r.left # {} => r.op \notin Patching)
      <4>1. r.at = "bookings"
        BY <2>7, <3>1 DEF CheckBookings
      <4>2. r.left # {} => r.op = "basket"
        BY <1>1 DEF Shaped
      <4>. QED BY <4>1, <4>2 DEF Patching
    <3>3. CASE Finish(p)
      BY <3>3 DEF Finish
    <3>4. CASE r.want # {} /\ Go(p, [c EXCEPT !.at = "list", !.late = {}])
      <4>1. Keeps([c EXCEPT !.at = "list", !.late = {}])
        BY <1>1, <3>2 DEF Request
      <4>. QED BY <3>4, <4>1
    <3>5. CASE Go(p, [c EXCEPT !.at = "write"])
      <4>1. Keeps([c EXCEPT !.at = "write"])
        BY <1>1, <3>2 DEF Request
      <4>. QED BY <3>5, <4>1
    <3>6. CASE r.op = "basket" /\ \E v \in r.plan : Go(p, [c EXCEPT !.at = "vehicle", !.left = r.plan,
                                                                   !.slot = On(v, r.body), !.late = {}])
      <4>1. \A v : r.op = "basket" =>
              Keeps([c EXCEPT !.at = "vehicle", !.left = r.plan, !.slot = On(v, r.body), !.late = {}])
        BY <1>1, <3>2 DEF Request, Patching
      <4>. QED BY <3>6, <4>1
    <3>7. CASE r.left # {} /\ \E v \in rest :
                 Go(p, [c EXCEPT !.at = "vehicle", !.left = rest, !.slot = On(v, r.body)])
      <4>1. \A v, S : r.left # {} =>
              Keeps([c EXCEPT !.at = "vehicle", !.left = S, !.slot = On(v, r.body)])
        BY <1>1, <3>2 DEF Request
      <4>2. PICK v : Go(p, [c EXCEPT !.at = "vehicle", !.left = rest, !.slot = On(v, r.body)])
        BY <3>7
      <4>. HIDE DEF Keeps, c, rest
      <4>. QED BY <3>7, <4>1, <4>2
    <3>8. CASE Go(p, [c EXCEPT !.at = "write", !.left = {}])
      <4>1. Keeps([c EXCEPT !.at = "write", !.left = {}])
        BY <1>1, <3>2 DEF Request
      <4>. QED BY <3>8, <4>1
    <3>. HIDE DEF Keeps
    <3>. QED BY <2>7, <3>1, <3>3, <3>4, <3>5, <3>6, <3>7, <3>8 DEF CheckBookings
  <2>8. CASE InsertDuplicate(p)
    <3>1. Keeps([r EXCEPT !.at = "dup", !.late = {}])
      BY <1>1, <2>8 DEF InsertDuplicate, Request
    <3>. QED BY <2>8, <3>1 DEF InsertDuplicate
  <2>9. CASE Abort(p)
    BY <2>9 DEF Abort, Finish
  <2>. QED BY <2>1, <2>2, <2>3, <2>4, <2>5, <2>6, <2>7, <2>8, <2>9
<1>4. Current(n)
  BY <1>1, <1>3, IdleCurrent DEF Current
<1>. QED BY <1>2, <1>3, <1>4, GoKeepsSerial

LEMMA InsertKeepsSerial ==
  ASSUME TypeOK, RequestsShaped, SerialInv, OneAtATime, NEW p \in Requests, InsertBooking(p) \/ InsertBasket(p)
  PROVE  SerialInv'
<1>1. req[p].at # "idle" /\ req[p].late \cap Bookings = {}
  BY DEF InsertBooking, InsertBasket, SerialInv, Current
<1>2. PICK S : FinishPlacing(p, S) /\ Place(S, req[p].late)
  BY DEF InsertBooking, InsertBasket
<1>3. \A b, c \in Bookings : <<b, c>> \notin missed'
  BY <1>1, <1>2, PlacedApart
<1>. QED BY <1>1, <1>2, <1>3, EndKeepsSerial

\* A PATCH that was checked is written as it was checked; one that was not
\* checked moves nothing, and revives nothing but in a revival.
LEMMA PatchKeepsSerial ==
  ASSUME TypeOK, RequestsShaped, SerialInv, OneAtATime, NEW p \in Requests, PatchBooking(p), ~Revival(p)
  PROVE  SerialInv'
<1>. DEFINE r == req[p]
            old == booking[r.id]
            slot == Patched(old, r.body)
            status == Or(r.body.status, old.status)
            vetted == TouchesSlot(r.body) /\ slot = r.slot
            moved == slot # AsSlot(old)
            revived == old.status \in NonBlocking /\ status \notin NonBlocking
<1>1. /\ r \in Request /\ r.at = "write" /\ r.op \in Patching /\ Current(r)
      /\ r.late \cap Bookings = {}
  BY DEF TypeOK, SerialInv, PatchBooking, Current
<1>2. old # None /\ slot = r.slot
  BY <1>1 DEF Current
<1>3. IF vetted \/ moved \/ revived
      THEN FinishPlacing(p, {r.id}) /\ Place({r.id}, IF vetted THEN r.late ELSE Ids)
      ELSE Finish(p) /\ UNCHANGED missed
  BY <1>2 DEF PatchBooking
<1>4. CASE TouchesSlot(r.body)
  <2>1. FinishPlacing(p, {r.id}) /\ Place({r.id}, r.late)
    BY <1>2, <1>3, <1>4
  <2>2. \A b, c \in Bookings : <<b, c>> \notin missed'
    BY <1>1, <2>1, PlacedApart
  <2>. QED BY <1>1, <2>1, <2>2, EndKeepsSerial
<1>5. CASE ~TouchesSlot(r.body)
  <2>1. ~moved
    BY <1>5 DEF TouchesSlot, Patched, AsSlot, Or
  <2>2. ~revived
    <3>1. CASE r.op = "patch"
      BY <1>2, <1>5, <3>1 DEF Revival
    <3>2. CASE r.op = "pay"
      BY <1>1, <3>2 DEF Current, Or
    <3>. QED BY <1>1, <3>1, <3>2 DEF Patching
  <2>3. Finish(p) /\ UNCHANGED missed
    BY <1>3, <1>5, <2>1, <2>2
  <2>4. \A b, c \in Bookings : <<b, c>> \notin missed'
    BY <2>3 DEF SerialInv
  <2>. QED BY <1>1, <2>3, <2>4, EndKeepsSerial
<1>. QED BY <1>4, <1>5

LEMMA OtherWritesKeepSerial ==
  ASSUME TypeOK, RequestsShaped, SerialInv, OneAtATime, NEW p \in Requests,
         CancelBooking(p) \/ DeleteBooking(p) \/ WriteBlock(p)
  PROVE  SerialInv'
<1>1. req[p].at # "idle"
  BY DEF CancelBooking, DeleteBooking, WriteBlock
<1>2. CASE CancelBooking(p) \/ DeleteBooking(p)
  <2>1. Finish(p) /\ missed' = missed
    BY <1>2 DEF CancelBooking, DeleteBooking, history
  <2>2. \A b, c \in Bookings : <<b, c>> \notin missed'
    BY <2>1 DEF SerialInv
  <2>. QED BY <1>1, <2>1, <2>2, EndKeepsSerial
<1>3. CASE WriteBlock(p)
  <2>1. req[p].op = "moveBlock" => req[p].id \in Blocks
    BY DEF RequestsShaped, Shaped
  <2>2. PICK S \in SUBSET Blocks : /\ FinishPlacing(p, S) \/ Finish(p)
                                   /\ (\E L : Place(S, L)) \/ UNCHANGED missed
    <3>. DEFINE Writes(S) == /\ FinishPlacing(p, S) \/ Finish(p)
                             /\ (\E L : Place(S, L)) \/ UNCHANGED missed
    <3>1. ASSUME NEW k \in Blocks, FinishPlacing(p, {k}), \E L : Place({k}, L)
          PROVE  \E S \in SUBSET Blocks : Writes(S)
      BY <3>1
    <3>2. ASSUME Finish(p), UNCHANGED missed
          PROVE  \E S \in SUBSET Blocks : Writes(S)
      BY <3>2
    <3>3. \/ \E k \in Blocks : FinishPlacing(p, {k}) /\ \E L : Place({k}, L)
          \/ Finish(p) /\ UNCHANGED missed
      BY <1>3, <2>1 DEF WriteBlock
    <3>. HIDE DEF Writes
    <3>4. \E S \in SUBSET Blocks : Writes(S)
      BY <3>1, <3>2, <3>3
    <3>. QED BY <3>4 DEF Writes
  <2>3. S \cap Bookings = {}
    BY CalendarAssumption
  <2>4. \A b, c \in Bookings : <<b, c>> \notin missed'
    <3>1. CASE \E L : Place(S, L)
      BY <2>3, <3>1, PlacedApart
    <3>2. CASE UNCHANGED missed
      BY <3>2 DEF SerialInv
    <3>. QED BY <2>2, <3>1, <3>2
  <2>5. FinishPlacing(p, S) \/ Finish(p)
    BY <2>2
  <2>. QED BY <1>1, <2>5, <2>4, EndKeepsSerial
<1>. QED BY <1>2, <1>3

\* The cron's block is news to the request under way, but it is not a booking.
LEMMA AutoBlockKeepsSerial ==
  ASSUME TypeOK, SerialInv, NEW k \in Blocks, AutoBlock(k)
  PROVE  SerialInv'
<1>1. {k} \cap Bookings = {}
  BY CalendarAssumption
<1>2. \A b, c \in Bookings : <<b, c>> \notin missed'
  BY <1>1, PlacedApart DEF AutoBlock
<1>3. ASSUME NEW q \in Requests PROVE Current(req[q])'
  <2>. DEFINE r == req[q]
              n == [r EXCEPT !.late = @ \cup {k}]
  <2>1. r \in Request /\ Current(r)
    BY DEF TypeOK, SerialInv
  <2>2. n.at = r.at /\ n.op = r.op /\ n.id = r.id /\ n.slot = r.slot /\ n.body = r.body
        /\ n.late = r.late \cup {k}
    BY <2>1 DEF Request
  <2>3. req'[q] = r \/ req'[q] = n
    BY DEF AutoBlock, Notice
  <2>4. booking' = booking
    BY DEF AutoBlock
  <2>. HIDE DEF n
  <2>. QED BY <1>1, <2>1, <2>2, <2>3, <2>4 DEF Current
<1>. QED BY <1>2, <1>3 DEF SerialInv

LEMMA OutsideKeepsSerial ==
  ASSUME SerialInv,
         (\E k \in Blocks : RemoveBlock(k)) \/ (\E v \in Vehicles : SetVehicleStatus(v)) \/ UNCHANGED vars
  PROVE  SerialInv'
<1>1. UNCHANGED <<booking, req, missed>>
  BY DEF RemoveBlock, SetVehicleStatus, vars, history
<1>. QED BY <1>1 DEF SerialInv, Current

LEMMA NextKeepsSerial ==
  ASSUME TypeOK, RequestsShaped, SerialInv, OneAtATime, [Next]_vars, ~\E p \in Requests : Revival(p)
  PROVE  SerialInv'
BY ArrivalKeepsSerial, QueryKeepsSerial, InsertKeepsSerial, PatchKeepsSerial, OtherWritesKeepSerial,
   AutoBlockKeepsSerial, OutsideKeepsSerial DEF Next, Step

\* While requests do not overlap and no PATCH takes a cancelled, completed or
\* no-show booking back by its status alone, the timeline of every vehicle is free
\* of overlapping reservations, as ARCHITECTURE.md says: what breaks the
\* rule is two requests at once, or such a revival (update's assertVehicleFree is
\* skipped), and nothing else.
THEOREM SerialNoDoubleBooking == Spec /\ []OneAtATime /\ NoRevivals => []NoDoubleBooking
<1>1. Init => SerialInv
  <2>. SUFFICES ASSUME Init PROVE SerialInv
    OBVIOUS
  <2>. QED BY IdleCurrent DEF Init, SerialInv
<1>2. CalendarInv /\ SerialInv /\ OneAtATime /\ [Next]_vars /\ [~\E p \in Requests : Revival(p)]_vars => SerialInv'
  <2>1. CalendarInv => TypeOK /\ RequestsShaped
    BY DEF CalendarInv, RequestsSound, RequestsShaped
  <2>2. UNCHANGED vars /\ SerialInv => SerialInv'
    BY OutsideKeepsSerial
  <2>. QED BY <2>1, <2>2, NextKeepsSerial
<1>3. CalendarInv /\ SerialInv => NoDoubleBooking
  BY DEF CalendarInv, ClashesWereUnseen, SerialInv, NoDoubleBooking, Ids
<1>. QED BY <1>1, <1>2, <1>3, CalendarInvariant, PTL DEF Spec, NoRevivals
=============================================================================
