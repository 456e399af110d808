CONSTANTS
  c1 = c1
  c2 = c2
  o1 = o1
  t1 = t1
  t2 = t2
  here = here
  there = there
  noChannel = noChannel
  r1 = r1
  r2 = r2
  Calls <- MCCalls
  Txs <- MCTxs
  Orderers <- MCOrderers
  Lists <- MCLists
  NoOrderer = NoOrderer
  Channels <- MCChannels
  Here = here
  NoChannel = noChannel
  Results <- MCResults
  Answers <- MCAnswers
  Nothing = Nothing

SPECIFICATION AppSpec

INVARIANTS
  AppTypeOK
  ToldIsSigned
  SuccessIsAsTold
  CommittedWasTold

PROPERTIES
  ImplementsTransaction

\* Applications end.
CHECK_DEADLOCK FALSE
