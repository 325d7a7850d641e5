SPECIFICATION FairSpec
CONSTANTS
  None = None
  r1 = r1
  r2 = r2
  d1 = d1
  d2 = d2
  p1 = p1
  p2 = p2
  Rentals = {r1, r2}
  Deposits = {d1, d2}
  Requests = {p1}
  Ops = {"publicCheckout", "deposit", "release", "patch"}
  Source = "PUBLIC_WEB"
  FirstStatuses = {"QUOTE"}
  DeskStatuses = {"CANCELLED"}
  MaxCrashes = 1
CONSTRAINT ThreeSessions
PROPERTIES
  PaymentReachesBooking
  HoldReachesBooking
CHECK_DEADLOCK FALSE
