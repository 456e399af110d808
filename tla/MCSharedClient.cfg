CONSTANTS
  pa = pa
  pa2 = pa2
  pb = pb
  pc = pc
  unparsable = unparsable
  Calls = {"c1", "c2"}
  Inputs <- SharedInputs
  Peers <- SharedPeers
  MSPID <- MCMSPID
  URL <- MCURL
  Policy <- MCPolicy
  FilteredOut <- MCFilteredOut
  RWSets <- SharedRWSets
  Unparsable = unparsable
  Retryable <- SharedRetryable
  Attempts = 1

SPECIFICATION GoroutineFairSpec

INVARIANTS
  GreylistedNotSelected

PROPERTIES
  GoroutineEnds

\* A call ends when it has returned and its goroutine is done.
CHECK_DEADLOCK FALSE
