-------------------------- MODULE MCBookingCalendar --------------------------
(***************************************************************************)
(* Small instances of BookingCalendar: the inputs clients send.            *)
(***************************************************************************)
EXTENDS BookingCalendar, FiniteSets, TLC

CONSTANTS v1, v2, car, van

OneClass == v1 :> car
TwoClasses == v1 :> car @@ v2 :> van

On1(from, to) == [vehicle |-> v1, from |-> from, to |-> to]
Send(from, to, status) == [vehicle |-> None, from |-> from, to |-> to, status |-> status]

\* Two windows of one vehicle that overlap in [1, 2).
Overlapping == {On1(0, 2), On1(1, 3)}
WholeTrip == {On1(0, 1)}

\* What the desk does to a booking: cancel it, take it back, bring it in early.
StatusPatches == {Send(None, None, "CANCELLED"), Send(None, None, "CONFIRMED")}
DeskPatches == StatusPatches \cup {Send(None, 1, None)}

\* Bounds: two rows at all, bookings or blocks; only the van leaves the fleet.
TwoRows == Cardinality(spent) <= 2
CarStays == fleet[v1] = "AVAILABLE"

\* Requests, bookings and blocks are interchangeable.
Symmetry == Permutations(Requests) \cup Permutations(Bookings) \cup Permutations(Blocks)
=============================================================================
