SPECIFICATION Spec
CONSTANTS
  None = None
  v1 = v1
  v2 = v2
  car = car
  van = van
  Vehicles = {v1, v2}
  Classes = {car, van}
  ClassOf <- TwoClasses
  Bookings = {b1, b2, b3}
  Blocks = {}
  Requests = {p1, p2}
  Keys = {key}
  Horizon = 1
  Ops = {"partner", "delete", "cancel", "public", "basket"}
  Trips <- WholeTrip
  NewStatuses = {"QUOTE", "CONFIRMED"}
  Patches = {}
  FleetStatuses = {"AVAILABLE", "OUT_OF_FLEET"}
SYMMETRY Symmetry
CONSTRAINTS TwoRows CarStays
INVARIANTS
  OneBookingPerKey
  KeyRowsPoint
