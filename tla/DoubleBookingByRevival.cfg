SPECIFICATION Spec
CONSTANTS
  None = None
  v1 = v1
  v2 = v2
  car = car
  van = van
  Vehicles = {v1}
  Classes = {car}
  ClassOf <- OneClass
  Bookings = {b1, b2}
  Blocks = {}
  Requests = {p1}
  Keys = {}
  Horizon = 3
  Ops = {"create", "patch"}
  Trips <- Overlapping
  NewStatuses = {"QUOTE"}
  Patches <- StatusPatches
  FleetStatuses = {"AVAILABLE"}
SYMMETRY Symmetry
INVARIANT NoDoubleBooking
