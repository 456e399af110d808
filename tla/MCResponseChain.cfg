CONSTANTS
  c1 = c1
  c2 = c2
  Data <- MCData
  Nil = Nil
  Request = Request
  Calls <- MCCalls
  CC = "cc"
  Requests <- MCRequests
  FilteredOut <- MCFilteredOut
  MaxLength = 3

SPECIFICATION Spec

INVARIANTS
  TypeOK
  AllOrNothing
  SelectedAsIfAlone
  FoundWhateverShared
  ProvidedUntouched
  PvtRoundTrip

\* The calls go on with what was selected.
CHECK_DEADLOCK FALSE
