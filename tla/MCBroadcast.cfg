CONSTANTS
  c1 = c1
  c2 = c2
  o1 = o1
  o2 = o2
  t1 = t1
  t2 = t2
  Calls <- MCCalls
  Txs <- MCTxs
  Orderers <- MCOrderers
  Lists <- AllLists
  NoOrderer = NoOrderer

SPECIFICATION FairSpec

INVARIANTS
  TypeOK
  NoErrorMeansCommitted
  SoleSubmitterToldTheTruth
  OneOrdererAtATime

PROPERTIES
  EveryCallReturns

\* Calls end when they return.
CHECK_DEADLOCK FALSE
