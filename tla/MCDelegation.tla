---------------------------- MODULE MCDelegation ----------------------------
(* Two applications, of one transaction or of two, one orderer, and rounds of *)
(* one or two peers.                                                          *)
EXTENDS Delegation

CONSTANTS c1, c2, o1, t1, t2, here, there, noChannel, r1, r2

MCCalls == {c1, c2}
MCOrderers == {o1}
MCTxs == {t1, t2}
MCLists == {MCOrderers}
MCChannels == {here, there, noChannel}
MCResults == {r1, r2}
MCAnswers == {<<r>> : r \in MCResults} \cup {<<r1, r2>>}
==============================================================================
