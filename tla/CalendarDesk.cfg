SPECIFICATION Spec
CONSTANTS
  None = None
  v1 = v1
  v2 = v2
  car = car
  van = van
  Vehicles = {v1}
  Classes = {car}
  ClassOf <- OneClass
  Bookings = {b1, b2}
  Blocks = {k1, k2}
  Requests = {p1, p2}
  Keys = {}
  Horizon = 3
  Ops = {"create", "patch", "pay", "delete", "block", "moveBlock", "cron"}
  Trips <- Overlapping
  NewStatuses = {"QUOTE"}
  Patches <- DeskPatches
  FleetStatuses = {"AVAILABLE"}
SYMMETRY Symmetry
CONSTRAINT TwoRows
INVARIANTS
  ClashesWereUnseen
