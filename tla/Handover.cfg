SPECIFICATION Spec
CONSTANTS
  Reservations = {r1}
  Customers = {c1, c2}
  Vehicles = {v1, v2}
  Requests = {q1, q2}
  Ops = {"agreement", "patch", "damage"}
  Demands = {"agreement", "cargos", "papers", "km"}
  MaxKm = 1
  Patches <- DeskPatches
  MaxCalls = 3
  None = None
  Absent = Absent
SYMMETRY Symmetric
CHECK_DEADLOCK FALSE
INVARIANTS
  SignedIsFrozen
  HandedOverSigned
  OdometerFollows
  LinesAreOnePut
PROPERTIES
  HandoverIsReady
