SPECIFICATION Spec
CONSTANTS
  None = None
  Reservations = {r1}
  Workers = {w1}
  Senders = {s1, s2}
  Adapters = {"HTTP", "OFF"}
  MaxAttempts = 2
  Prompt = FALSE
  MaxSubs = 2
  MaxCalls = 2
  MaxCrashes = 1
SYMMETRY Symmetric
INVARIANTS
  SentIsAccepted
  NoEarlyFailure
