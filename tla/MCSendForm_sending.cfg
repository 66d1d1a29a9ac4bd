SPECIFICATION LiveForm
CONSTANTS
  MaxForms = 2
  MaxCalls = 4
INVARIANTS
  PaysAgainForAReason
  CompleteMeansPaid
PROPERTIES
  FormsEnd
CHECK_DEADLOCK FALSE
