SPECIFICATION Spec
CONSTANTS
  None = None
  r1 = r1
  r2 = r2
  d1 = d1
  d2 = d2
  p1 = p1
  p2 = p2
  Rentals = {r1, r2}
  Deposits = {d1, d2}
  Requests = {p1, p2}
  Ops = {"checkout", "deposit", "capture", "release", "refundRental", "refundDeposit", "cancel", "delete", "patch"}
  Source = "PARTNER"
  FirstStatuses = {"QUOTE"}
  DeskStatuses = {"CANCELLED"}
  MaxCrashes = 1
SYMMETRY Symmetric
INVARIANTS
  PaidIsReal
  CapturedIsReal
  RecordedIsApplied
PROPERTIES
  ReplayNeverReopens
CONSTRAINT TwoSessions
CHECK_DEADLOCK FALSE
