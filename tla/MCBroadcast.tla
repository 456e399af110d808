----------------------------- MODULE MCBroadcast -----------------------------
(* Two calls of one transaction or of two, and two orderers: an envelope may  *)
(* be ordered twice for one call, and a transaction by two calls.             *)
EXTENDS Broadcast

CONSTANTS c1, c2, o1, o2, t1, t2

MCCalls == {c1, c2}
MCOrderers == {o1, o2}
MCTxs == {t1, t2}
AllLists == SUBSET MCOrderers
FullList == {MCOrderers}
==============================================================================
