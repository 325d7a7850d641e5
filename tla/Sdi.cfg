SPECIFICATION FairSpec
CONSTANTS
  None = None
  Invoices = {i1}
  Requests = {t1, t2}
  Callbacks = {c1}
  Adapters = {"HTTP", "MOCK", "OFF", "NOURL"}
  MaxSubs = 2
  MaxCalls = 2
  MaxCrashes = 1
CHECK_DEADLOCK FALSE
INVARIANTS
  SentIsSent
  FailedIsTold
  SentTwiceIsExplained
PROPERTIES
  HandoffSettles
