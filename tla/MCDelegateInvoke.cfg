CONSTANTS
  pa = pa
  pa2 = pa2
  pb = pb
  pc = pc
  unparsable = unparsable
  Calls = {"c1"}
  Inputs <- MCInputs
  Peers <- MCPeers
  MSPID <- MCMSPID
  URL <- MCURL
  Policy <- MCPolicy
  FilteredOut <- MCFilteredOut
  RWSets <- MCRWSets
  Unparsable = unparsable
  Retryable <- MCRetryable
  Attempts = 2

SPECIFICATION CallerFairSpec

INVARIANTS
  TypeOK
  ResultOfLastAttempt
  PolicyCovered
  OnlyGivenTargets
  GreylistedNotSelected

PROPERTIES
  CallerReturns
  ImplementsRetriedRequest

\* A call ends when it has returned and its goroutine is done.
CHECK_DEADLOCK FALSE
