SPECIFICATION Spec
CONSTANTS
  None = None
  Requests = {t1, t2}
  Subtotals = {2}
  Rates = {0, 5000}
  MaxDocs = 3
  MaxYear = 2
  MaxCalls = 6
SYMMETRY Symmetric
CHECK_DEADLOCK FALSE
INVARIANTS
  NumbersGapless
  RegisterComplete
  CreditsWithinTotal
  NotesReferToIssued
  AmountsAgree
PROPERTIES
  IssuedIsFinal
