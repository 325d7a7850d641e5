SPECIFICATION FairSpec
CONSTANTS
  Customers = {c1, c2}
  Docs = {d1}
  Requests = {q1, q2}
  Modes = {"LOCAL", "S3"}
  MaxCalls = 3
  MaxFaults = 1
  None = None
CHECK_DEADLOCK FALSE
INVARIANTS
  AppliedIsShown
  ListedIsStored
  StoredIsListed
  RedactionHolds
PROPERTIES
  OcrSettles
  ExpiredAreDeleted
