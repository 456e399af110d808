------------------------------ MODULE Broadcast ------------------------------
(***************************************************************************)
(* Client.BroadcastEnvelope (pkg/client/channel/chclient.go) and the       *)
(* function BroadcastEnvelope of pkg/fab/txn/txn.go it reaches through the *)
(* delegate transactor.                                                    *)
(*                                                                         *)
(* A call registers for the status of its transaction, sends the envelope  *)
(* to the orderers in a random order, one after the other until one of     *)
(* them acknowledges it, and waits for the status or for the end of its    *)
(* context.  Calls of several goroutines or clients may submit the same    *)
(* transaction, as an application does that tries again.                   *)
(*                                                                         *)
(* The ordering service, the ledger and the event service are external.  A *)
(* copy of the envelope that was sent may be committed at any later time,  *)
(* whether or not the orderer's answer got back, or be lost.               *)
(***************************************************************************)
EXTENDS Naturals, Sequences

CONSTANTS
  Calls,      \* the calls of BroadcastEnvelope
  Txs,        \* the transaction IDs
  Orderers,   \* the orderers
  Lists,      \* the lists of orderers a transactor may have; the order of a list
              \* does not matter, as it is gone through at random
  NoOrderer   \* no orderer

ASSUME NoOrdererIsNone == NoOrderer \notin Orderers
ASSUME ListsOfOrderers == Lists \subseteq SUBSET Orderers

VARIABLES
  tx,         \* the transaction of each call's envelope
  list,       \* the orderers of each call's transactor
  caller,     \* where each call is
  ctxDone,    \* the request's context is done
  current,    \* the orderer the call waits for
  tried,      \* the orderers the call sent its envelope to
  failed,     \* those of them that failed, as the call sees it
  registered, \* the call is registered for the status of its transaction
  notices,    \* the validation codes in the call's status channel
  result,     \* what the call returned
  copies,     \* the copies of envelopes that may still be committed
  ledger      \* the code each transaction was committed with, "none" before

args == <<tx, list>>
callVars == <<args, caller, current, tried, failed, result>>
vars == <<callVars, ctxDone, registered, notices, copies, ledger>>

\* TxValidationCode: VALID is its zero value, INVALID stands for all codes but
\* VALID and DUPLICATE_TXID.
Codes == {"VALID", "INVALID", "DUPLICATE_TXID"}

\* The kinds of error: see the actions that return them.
Errors == {"prepare", "register", "noOrderers", "broadcast", "invalid", "timeout"}

Pending == [err |-> "pending", code |-> "VALID"]

Init ==
  /\ tx \in [Calls -> Txs]
  /\ list \in [Calls -> Lists]
  /\ caller = [c \in Calls |-> "idle"]
  /\ ctxDone = [c \in Calls |-> FALSE]
  /\ current = [c \in Calls |-> NoOrderer]
  /\ tried = [c \in Calls |-> {}]
  /\ failed = [c \in Calls |-> {}]
  /\ registered = [c \in Calls |-> FALSE]
  /\ notices = [c \in Calls |-> <<>>]
  /\ result = [c \in Calls |-> Pending]
  /\ copies = {}
  /\ ledger = [t \in Txs |-> "none"]

\* The call returns, and its deferred functions unregister it and cancel its
\* context.
Return(c, err, code) ==
  /\ caller' = [caller EXCEPT ![c] = "returned"]
  /\ result' = [result EXCEPT ![c] = [err |-> err, code |-> code]]
  /\ registered' = [registered EXCEPT ![c] = FALSE]
  /\ notices' = [notices EXCEPT ![c] = <<>>]
  /\ ctxDone' = [ctxDone EXCEPT ![c] = TRUE]
  /\ UNCHANGED <<args, current, tried, failed, copies, ledger>>

-------------------------------------------------------------------------------
(* Slips in this code, each of which a property below must notice.           *)

\* The loop goes on after an acknowledgement, while orderers are left.
AcknowledgedGoingOn(c) ==
  /\ caller[c] = "broadcasting"
  /\ current[c] # NoOrderer
  /\ current' = [current EXCEPT ![c] = NoOrderer]
  /\ caller' = [caller EXCEPT ![c] = IF tried[c] = list[c] THEN "waiting" ELSE @]
  /\ UNCHANGED <<args, tried, failed, result, ctxDone, registered, notices, copies, ledger>>

\* The call registers after the broadcast.
AcknowledgedThenRegistered(c) ==
  /\ caller[c] = "broadcasting"
  /\ current[c] # NoOrderer
  /\ caller' = [caller EXCEPT ![c] = "waiting"]
  /\ notices' = [notices EXCEPT ![c] = <<>>]
  /\ UNCHANGED <<args, current, tried, failed, result, ctxDone, registered, copies, ledger>>

\* On the end of the context the response is returned without an error.
GiveUpQuietly(c) ==
  /\ caller[c] = "waiting"
  /\ ctxDone[c]
  /\ Return(c, "none", "VALID")

\* Only the status is waited for.
GiveUpWithStatus(c) ==
  /\ caller[c] = "waiting"
  /\ ctxDone[c]
  /\ notices[c] # <<>>
  /\ Return(c, "timeout", "VALID")

\* The entry is cleared before it is noted as failed.
FailedAfterClearing(c) ==
  /\ caller[c] = "broadcasting"
  /\ current[c] # NoOrderer
  /\ current' = [current EXCEPT ![c] = NoOrderer]
  /\ failed' = [failed EXCEPT ![c] = @ \cup {current'[c]}]
  /\ UNCHANGED <<args, caller, tried, result, ctxDone, registered, notices, copies, ledger>>

-------------------------------------------------------------------------------
(* The call.                                                                 *)

\* The envelope cannot be parsed, an option fails, or there is no delegate
\* transactor.
FailToPrepare(c) ==
  /\ caller[c] = "idle"
  /\ Return(c, "prepare", "VALID")

\* RegisterTxStatusEvent, before anything is sent.
Register(c) ==
  /\ caller[c] = "idle"
  /\ caller' = [caller EXCEPT ![c] = "broadcasting"]
  /\ registered' = [registered EXCEPT ![c] = TRUE]
  /\ UNCHANGED <<args, current, tried, failed, result, ctxDone, notices, copies, ledger>>

FailToRegister(c) ==
  /\ caller[c] = "idle"
  /\ Return(c, "register", "VALID")

NoOrderers(c) ==
  /\ caller[c] = "broadcasting"
  /\ list[c] = {}
  /\ Return(c, "noOrderers", "VALID")

\* sendBroadcast to the next orderer of the permutation; a copy of the envelope
\* is on its way.
Send(c, o) ==
  /\ caller[c] = "broadcasting"
  /\ current[c] = NoOrderer
  /\ o \in list[c] \ tried[c]
  /\ current' = [current EXCEPT ![c] = o]
  /\ tried' = [tried EXCEPT ![c] = @ \cup {o}]
  /\ copies' = copies \cup {<<c, o>>}
  /\ UNCHANGED <<args, caller, failed, result, ctxDone, registered, notices, ledger>>

\* The orderer's answer is a success: the loop is left.
Acknowledged(c) ==
  /\ caller[c] = "broadcasting"
  /\ current[c] # NoOrderer
  /\ caller' = [caller EXCEPT ![c] = "waiting"]
  /\ UNCHANGED <<args, current, tried, failed, result, ctxDone, registered, notices,
                 copies, ledger>>

\* The orderer refuses, cannot be reached or does not answer in time.
Failed(c) ==
  /\ caller[c] = "broadcasting"
  /\ current[c] # NoOrderer
  /\ failed' = [failed EXCEPT ![c] = @ \cup {current[c]}]
  /\ current' = [current EXCEPT ![c] = NoOrderer]
  /\ UNCHANGED <<args, caller, tried, result, ctxDone, registered, notices, copies, ledger>>

AllFailed(c) ==
  /\ caller[c] = "broadcasting"
  /\ current[c] = NoOrderer
  /\ list[c] # {}
  /\ tried[c] = list[c]
  /\ Return(c, "broadcast", "VALID")

\* case txStatus := <-statusNotifier
TakeStatus(c) ==
  /\ caller[c] = "waiting"
  /\ notices[c] # <<>>
  /\ LET code == Head(notices[c])
     IN Return(c, IF code = "VALID" THEN "none" ELSE "invalid", code)

\* case <-reqCtx.Done(): the code of the response is the zero value
GiveUp(c) ==
  /\ caller[c] = "waiting"
  /\ ctxDone[c]
  /\ Return(c, "timeout", "VALID")

\* The Execute timeout runs out, or the parent context is done.
ContextDone(c) ==
  /\ caller[c] \in {"broadcasting", "waiting"}
  /\ ~ ctxDone[c]
  /\ ctxDone' = [ctxDone EXCEPT ![c] = TRUE]
  /\ UNCHANGED <<callVars, registered, notices, copies, ledger>>

-------------------------------------------------------------------------------
(* The network.                                                              *)

\* A copy is committed: the first one of a transaction decides its code, every
\* later one is a duplicate.  Who is registered for the transaction is told.
Commit(c, o) ==
  /\ <<c, o>> \in copies
  /\ copies' = copies \ {<<c, o>>}
  /\ \E code \in IF ledger[tx[c]] = "none" THEN {"VALID", "INVALID"}
                 ELSE {"DUPLICATE_TXID"} :
       /\ ledger' = [ledger EXCEPT ![tx[c]] = IF @ = "none" THEN code ELSE @]
       /\ notices' = [d \in Calls |-> IF registered[d] /\ tx[d] = tx[c]
                                      THEN Append(notices[d], code) ELSE notices[d]]
  /\ UNCHANGED <<callVars, ctxDone, registered>>

\* A copy is lost, before it reaches its orderer or with it.
Lose(c, o) ==
  /\ <<c, o>> \in copies
  /\ copies' = copies \ {<<c, o>>}
  /\ UNCHANGED <<callVars, ctxDone, registered, notices, ledger>>

-------------------------------------------------------------------------------
Call(c) ==
  \/ FailToPrepare(c) \/ Register(c) \/ FailToRegister(c)
  \/ NoOrderers(c) \/ (\E o \in Orderers : Send(c, o))
  \/ Acknowledged(c) \/ Failed(c) \/ AllFailed(c)
  \/ TakeStatus(c) \/ GiveUp(c) \/ ContextDone(c)

Network == \E c \in Calls, o \in Orderers : Commit(c, o) \/ Lose(c, o)

Next == (\E c \in Calls : Call(c)) \/ Network

Spec == Init /\ [][Next]_vars

\* A call that was made goes on: an orderer's answer, or the OrdererResponse
\* timeout, ends each attempt, and the Execute timeout ends its context.  Nothing
\* is assumed of the network.
Underway(c) == caller[c] # "idle" /\ Call(c)
FairSpec == Spec /\ \A c \in Calls : WF_vars(Underway(c))
-------------------------------------------------------------------------------
(* Properties.                                                               *)

TypeOK ==
  /\ tx \in [Calls -> Txs]
  /\ list \in [Calls -> Lists]
  /\ caller \in [Calls -> {"idle", "broadcasting", "waiting", "returned"}]
  /\ ctxDone \in [Calls -> BOOLEAN]
  /\ current \in [Calls -> Orderers \cup {NoOrderer}]
  /\ tried \in [Calls -> SUBSET Orderers]
  /\ failed \in [Calls -> SUBSET Orderers]
  /\ registered \in [Calls -> BOOLEAN]
  /\ notices \in [Calls -> Seq(Codes)]
  /\ result \in [Calls -> [err : Errors \cup {"none", "pending"}, code : Codes]]
  /\ copies \subseteq Calls \X Orderers
  /\ ledger \in [Txs -> {"none", "VALID", "INVALID"}]

\* A call that returns without an error tells the truth: its transaction was
\* committed as valid.  VALID being the zero value of the code, a response that
\* was never filled in looks like a valid one (chclient.go:468-483).
NoErrorMeansCommitted ==
  \A c \in Calls :
    result[c].err = "none" => result[c].code = "VALID" /\ ledger[tx[c]] = "VALID"

\* A call that is the only one to submit its transaction, and that gets a status,
\* gets the code the ledger has for it, even when an orderer whose answer was
\* lost took the envelope as well, so that a duplicate follows: the registration
\* comes before the broadcast, and the first status is the one that counts
\* (chclient.go:453-476, txn.go:34-42).
SoleSubmitter(c) == \A d \in Calls \ {c} : tx[d] # tx[c]

SoleSubmitterToldTheTruth ==
  \A c \in Calls :
    SoleSubmitter(c) /\ result[c].err \in {"none", "invalid"}
      => result[c].code = ledger[tx[c]]

\* An envelope is sent to a further orderer only after all earlier ones failed,
\* never after one has taken it; and a call fails to broadcast only when every
\* orderer of the list failed (txn.go:34-42).
OneOrdererAtATime ==
  \A c \in Calls :
    /\ tried[c] \ failed[c] \subseteq {current[c]}
    /\ caller[c] = "waiting" => tried[c] \ failed[c] # {}
    /\ result[c].err = "broadcast" => failed[c] = list[c]

\* Every call that registered returns, whatever becomes of its envelope: if the
\* status never comes, its context ends (chclient.go:470-481).
EveryCallReturns ==
  \A c \in Calls : caller[c] = "broadcasting" ~> caller[c] = "returned"

\* "the parent context (reqCtx) should not have a timeout value" (txn.go:50): an
\* orderer has the time of OrdererResponse, and is not tried under a context that
\* has run out.
OrdererHasItsTime ==
  \A c \in Calls :
    caller[c] = "broadcasting" /\ current[c] # NoOrderer => ~ ctxDone[c]
===============================================================================
