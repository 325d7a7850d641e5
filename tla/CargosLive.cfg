SPECIFICATION FairSpec
CONSTANTS
  None = None
  Reservations = {r1, r2}
  Workers = {w1}
  Senders = {s1}
  Adapters = {"HTTP", "MOCK", "NOURL"}
  MaxAttempts = 2
  Prompt = TRUE
  MaxSubs = 2
  MaxCalls = 2
  MaxCrashes = 1
PROPERTIES
  QueueSpec
  EverySubmissionSettles
