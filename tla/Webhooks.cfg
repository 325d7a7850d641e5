SPECIFICATION FairSpec
CONSTANTS
  None = None
  Reservations = {r1}
  Requests = {t1}
  Drains = {d1, d2}
  MaxAttempts = 2
  MaxChanges = 2
  MaxInside = 1
  MaxRows = 2
  MaxCrashes = 1
INVARIANTS
  SucceededIsAccepted
  CallsBounded
  DeadIsEarned
PROPERTIES
  QueueSpec
  EveryDeliverySettles
  PartnerLearns
