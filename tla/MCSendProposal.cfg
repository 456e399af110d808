CONSTANTS
  p1 = p1
  p2 = p2
  p3 = p3
  plain = plain
  Nil = Nil
  MaxTargets = 3
  Processors <- MCProcessors
  Peers <- MCPeers
  URL <- MCURL
  TargetLists <- MCTargetLists

SPECIFICATION FairSpec

INVARIANTS
  TypeOK
  EveryAnswerReturned
  EachURLAskedOnce

PROPERTIES
  NoWriteAfterReturn
  ImplementsRound
  CallReturns

\* The call ends when it returns.
CHECK_DEADLOCK FALSE
