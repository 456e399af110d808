CONSTANTS
  pa = pa
  pa2 = pa2
  pb = pb
  pc = pc
  unparsable = unparsable
  Calls = {"c1"}
  Inputs <- ChainInputs
  Peers <- MCPeers
  MSPID <- MCMSPID
  URL <- MCURL
  Policy <- MCPolicy
  FilteredOut <- MCFilteredOut
  RWSets <- MCRWSets
  Unparsable = unparsable
  Retryable <- MCRetryable
  Attempts = 2

SPECIFICATION Spec

INVARIANTS
  ProvidedChainHonoured

\* A call ends when it has returned and its goroutine is done.
CHECK_DEADLOCK FALSE
