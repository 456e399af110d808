-------------------------- MODULE Delegation_proofs --------------------------
(***************************************************************************)
(* Proofs about Broadcast, and about Delegation that extends it.           *)
(*                                                                         *)
(* First Broadcast by itself, for every number of calls, transactions and  *)
(* orderers: the inductive invariant relates what is in a call's status    *)
(* channel to the ledger, and what the call knows of the orderers to what  *)
(* it sent them.  Then Delegation, for every number of applications, all   *)
(* channels and all answers of peers: every step of an application is a    *)
(* step of a call or none of Broadcast's business.                         *)
(***************************************************************************)
EXTENDS Delegation, TLAPS

-------------------------------------------------------------------------------
(* Broadcast: the invariant.                                                 *)

\* A call has a result exactly when it has returned.
Returned ==
  \A c \in Calls : caller[c] = "returned" <=> result[c].err # "pending"

\* The orderer a call waits for, or has an acknowledgement of, is the only one
\* of those it tried that did not fail.
Tried ==
  \A c \in Calls :
    /\ failed[c] \subseteq tried[c]
    /\ tried[c] \subseteq list[c]
    /\ tried[c] \ failed[c] = IF current[c] = NoOrderer THEN {} ELSE {current[c]}
    /\ caller[c] = "idle" => current[c] = NoOrderer
    /\ caller[c] = "waiting" => current[c] # NoOrderer
    /\ result[c].err = "broadcast" => failed[c] = list[c]

\* Nothing is in a channel that the ledger does not have.
Told ==
  \A c \in Calls :
    \A k \in DOMAIN notices[c] :
      /\ ledger[tx[c]] # "none"
      /\ notices[c][k] = "VALID" => ledger[tx[c]] = "VALID"

\* Copies are those of calls that registered before.
SentRegistered ==
  /\ \A c \in Calls : \A o \in Orderers : <<c, o>> \in copies => caller[c] # "idle"
  /\ \A c \in Calls : caller[c] \in {"broadcasting", "waiting"} => registered[c]

\* What the only submitter of a transaction knows of it: nothing while the
\* ledger has no code, and the ledger's code first of all as soon as it has one.
Sole ==
  \A c \in Calls : SoleSubmitter(c) =>
    /\ caller[c] = "idle" => ledger[tx[c]] = "none"
    /\ caller[c] \in {"broadcasting", "waiting"} =>
         IF notices[c] = <<>> THEN ledger[tx[c]] = "none"
         ELSE Head(notices[c]) = ledger[tx[c]]

IInv ==
  /\ TypeOK
  /\ Returned
  /\ Tried
  /\ Told
  /\ SentRegistered
  /\ Sole
  /\ NoErrorMeansCommitted
  /\ SoleSubmitterToldTheTruth

-------------------------------------------------------------------------------
(* Lemmas.                                                                   *)

\* The first status stays the first.
LEMMA AppendHead ==
  ASSUME NEW s \in Seq(Codes), NEW code \in Codes
  PROVE  /\ Append(s, code) \in Seq(Codes)
         /\ Append(s, code) # <<>>
         /\ Head(Append(s, code)) = IF s = <<>> THEN code ELSE Head(s)
         /\ DOMAIN Append(s, code) = DOMAIN s \cup {Len(s) + 1}
         /\ \A k \in DOMAIN s : Append(s, code)[k] = s[k]
         /\ Append(s, code)[Len(s) + 1] = code
  OBVIOUS

LEMMA HeadIsElement ==
  ASSUME NEW s \in Seq(Codes), s # <<>>
  PROVE  1 \in DOMAIN s /\ Head(s) = s[1] /\ Head(s) \in Codes
  OBVIOUS

LEMMA InitIInv == Init => IInv
<1> SUFFICES ASSUME Init PROVE IInv
  OBVIOUS
<1>1. TypeOK
  BY DEF Init, TypeOK, Pending, Codes
<1>2. Returned /\ Tried /\ Told /\ SentRegistered
  BY DEF Init, Returned, Tried, Told, SentRegistered, Pending
<1>3. Sole
  BY DEF Init, Sole, TypeOK
<1>4. NoErrorMeansCommitted /\ SoleSubmitterToldTheTruth
  BY DEF Init, NoErrorMeansCommitted, SoleSubmitterToldTheTruth, Pending
<1> QED BY <1>1, <1>2, <1>3, <1>4 DEF IInv

-------------------------------------------------------------------------------
(* One lemma for each way to step: it preserves the invariant.               *)

\* A return with an error or a code that the invariant allows.
LEMMA ReturnStep ==
  ASSUME IInv, NEW c \in Calls, NEW err \in Errors \cup {"none"}, NEW code \in Codes,
         Return(c, err, code),
         caller[c] # "returned",
         err = "broadcast" => failed[c] = list[c],
         err = "none" => code = "VALID" /\ ledger[tx[c]] = "VALID",
         SoleSubmitter(c) /\ err \in {"none", "invalid"} => code = ledger[tx[c]]
  PROVE  IInv'
<1> USE DEF args
<1>1. TypeOK'
  BY DEF IInv, TypeOK, Return
<1>2. Returned'
  BY DEF IInv, TypeOK, Returned, Return, Errors
<1>3. Tried'
  BY DEF IInv, TypeOK, Tried, Return
<1>4. Told'
  BY DEF IInv, TypeOK, Told, Return
<1>5. SentRegistered'
  BY DEF IInv, TypeOK, SentRegistered, Return
<1>6. Sole'
  BY DEF IInv, TypeOK, Sole, SoleSubmitter, Return
<1>7. NoErrorMeansCommitted'
  BY DEF IInv, TypeOK, NoErrorMeansCommitted, Return
<1>8. SoleSubmitterToldTheTruth'
  BY DEF IInv, TypeOK, SoleSubmitterToldTheTruth, SoleSubmitter, Return
<1> QED BY <1>1, <1>2, <1>3, <1>4, <1>5, <1>6, <1>7, <1>8 DEF IInv

LEMMA FailStep ==
  ASSUME IInv, NEW c \in Calls,
         FailToPrepare(c) \/ FailToRegister(c) \/ NoOrderers(c) \/ GiveUp(c)
  PROVE  IInv'
<1>1. PICK err \in {"prepare", "register", "noOrderers", "timeout"} :
        Return(c, err, "VALID")
  BY DEF FailToPrepare, FailToRegister, NoOrderers, GiveUp
<1>2. caller[c] # "returned"
  BY DEF FailToPrepare, FailToRegister, NoOrderers, GiveUp
<1> QED BY <1>1, <1>2, ReturnStep DEF Errors, Codes

\* The list is exhausted, and no orderer of it is without a failure.
LEMMA AllFailedStep ==
  ASSUME IInv, NEW c \in Calls, AllFailed(c)
  PROVE  IInv'
<1>1. failed[c] = list[c]
  BY DEF IInv, Tried, AllFailed
<1> QED BY <1>1, ReturnStep DEF AllFailed, Errors, Codes

LEMMA TakeStatusStep ==
  ASSUME IInv, NEW c \in Calls, TakeStatus(c)
  PROVE  IInv'
<1> DEFINE code == Head(notices[c])
<1>1. notices[c] \in Seq(Codes) /\ notices[c] # <<>> /\ caller[c] = "waiting"
  BY DEF IInv, TypeOK, TakeStatus
<1>2. code \in Codes /\ 1 \in DOMAIN notices[c] /\ code = notices[c][1]
  BY <1>1, HeadIsElement
<1>3. code = "VALID" => ledger[tx[c]] = "VALID"
  BY <1>2 DEF IInv, Told
<1>4. SoleSubmitter(c) => code = ledger[tx[c]]
  BY <1>1 DEF IInv, Sole
<1>5. Return(c, IF code = "VALID" THEN "none" ELSE "invalid", code)
  BY DEF TakeStatus
<1> HIDE DEF code
<1> QED BY <1>1, <1>2, <1>3, <1>4, <1>5, ReturnStep DEF Errors

LEMMA RegisterStep ==
  ASSUME IInv, NEW c \in Calls, Register(c)
  PROVE  IInv'
<1> USE DEF args
<1>1. TypeOK'
  BY DEF IInv, TypeOK, Register
<1>2. Returned' /\ Tried'
  BY DEF IInv, TypeOK, Returned, Tried, Register
<1>3. Told' /\ SentRegistered'
  BY DEF IInv, TypeOK, Told, SentRegistered, Register
<1>4. Sole'
  <2>1. \A k \in DOMAIN notices[c] : ledger[tx[c]] # "none"
    BY DEF IInv, Told
  <2>2. notices[c] # <<>> => 1 \in DOMAIN notices[c]
    BY HeadIsElement DEF IInv, TypeOK
  <2> QED BY <2>1, <2>2 DEF IInv, TypeOK, Sole, SoleSubmitter, Register
<1>5. NoErrorMeansCommitted' /\ SoleSubmitterToldTheTruth'
  BY DEF IInv, NoErrorMeansCommitted, SoleSubmitterToldTheTruth, SoleSubmitter, Register
<1> QED BY <1>1, <1>2, <1>3, <1>4, <1>5 DEF IInv

\* The new orderer is the only one without a failure, as there was none before.
LEMMA SendStep ==
  ASSUME IInv, NEW c \in Calls, NEW o \in Orderers, Send(c, o)
  PROVE  IInv'
<1> USE DEF args
<1>1. TypeOK'
  BY DEF IInv, TypeOK, Send
<1>2. Returned'
  BY DEF IInv, Returned, Send
<1>3. Tried'
  BY NoOrdererIsNone DEF IInv, TypeOK, Returned, Tried, Send
<1>4. Told' /\ SentRegistered'
  BY DEF IInv, TypeOK, Told, SentRegistered, Send
<1>5. Sole'
  BY DEF IInv, Sole, SoleSubmitter, Send
<1>6. NoErrorMeansCommitted' /\ SoleSubmitterToldTheTruth'
  BY DEF IInv, NoErrorMeansCommitted, SoleSubmitterToldTheTruth, SoleSubmitter, Send
<1> QED BY <1>1, <1>2, <1>3, <1>4, <1>5, <1>6 DEF IInv

LEMMA AcknowledgedStep ==
  ASSUME IInv, NEW c \in Calls, Acknowledged(c)
  PROVE  IInv'
<1> USE DEF args
<1>1. TypeOK'
  BY DEF IInv, TypeOK, Acknowledged
<1>2. Returned' /\ Tried'
  BY DEF IInv, TypeOK, Returned, Tried, Acknowledged
<1>3. Told' /\ SentRegistered'
  BY DEF IInv, TypeOK, Told, SentRegistered, Acknowledged
<1>4. Sole'
  BY DEF IInv, TypeOK, Sole, SoleSubmitter, Acknowledged
<1>5. NoErrorMeansCommitted' /\ SoleSubmitterToldTheTruth'
  BY DEF IInv, NoErrorMeansCommitted, SoleSubmitterToldTheTruth, SoleSubmitter, Acknowledged
<1> QED BY <1>1, <1>2, <1>3, <1>4, <1>5 DEF IInv

LEMMA FailedStep ==
  ASSUME IInv, NEW c \in Calls, Failed(c)
  PROVE  IInv'
<1> USE DEF args
<1>1. TypeOK'
  BY DEF IInv, TypeOK, Failed
<1>2. Returned'
  BY DEF IInv, Returned, Failed
<1>3. Tried'
  BY DEF IInv, TypeOK, Returned, Tried, Failed
<1>4. Told' /\ SentRegistered'
  BY DEF IInv, Told, SentRegistered, Failed
<1>5. Sole'
  BY DEF IInv, Sole, SoleSubmitter, Failed
<1>6. NoErrorMeansCommitted' /\ SoleSubmitterToldTheTruth'
  BY DEF IInv, NoErrorMeansCommitted, SoleSubmitterToldTheTruth, SoleSubmitter, Failed
<1> QED BY <1>1, <1>2, <1>3, <1>4, <1>5, <1>6 DEF IInv

LEMMA ContextDoneStep ==
  ASSUME IInv, NEW c \in Calls, ContextDone(c)
  PROVE  IInv'
<1> USE DEF args, callVars
<1>1. TypeOK'
  BY DEF IInv, TypeOK, ContextDone
<1>2. (Returned /\ Tried /\ Told /\ SentRegistered)'
  BY DEF IInv, Returned, Tried, Told, SentRegistered, ContextDone
<1>3. (Sole /\ NoErrorMeansCommitted /\ SoleSubmitterToldTheTruth)'
  BY DEF IInv, Sole, NoErrorMeansCommitted, SoleSubmitterToldTheTruth, SoleSubmitter,
         ContextDone
<1> QED BY <1>1, <1>2, <1>3 DEF IInv

LEMMA LoseStep ==
  ASSUME IInv, NEW c \in Calls, NEW o \in Orderers, Lose(c, o)
  PROVE  IInv'
<1> USE DEF args, callVars
<1>1. TypeOK'
  BY DEF IInv, TypeOK, Lose
<1>2. (Returned /\ Tried /\ Told /\ SentRegistered)'
  BY DEF IInv, Returned, Tried, Told, SentRegistered, Lose
<1>3. (Sole /\ NoErrorMeansCommitted /\ SoleSubmitterToldTheTruth)'
  BY DEF IInv, Sole, NoErrorMeansCommitted, SoleSubmitterToldTheTruth, SoleSubmitter, Lose
<1> QED BY <1>1, <1>2, <1>3 DEF IInv

\* The code of a transaction never changes once it is there, and whoever is
\* registered is told it when it comes.
LEMMA CommitStep ==
  ASSUME IInv, NEW c \in Calls, NEW o \in Orderers, Commit(c, o)
  PROVE  IInv'
<1> USE DEF args, callVars
<1>1. PICK code \in Codes :
        /\ ledger[tx[c]] = "none" => code \in {"VALID", "INVALID"}
        /\ ledger[tx[c]] # "none" => code = "DUPLICATE_TXID"
        /\ ledger' = [ledger EXCEPT ![tx[c]] = IF @ = "none" THEN code ELSE @]
        /\ notices' = [d \in Calls |-> IF registered[d] /\ tx[d] = tx[c]
                                       THEN Append(notices[d], code) ELSE notices[d]]
  BY DEF Commit, Codes
<1>2. /\ UNCHANGED <<tx, list, caller, current, tried, failed, result, ctxDone, registered>>
      /\ copies' \subseteq copies /\ <<c, o>> \in copies
  BY DEF Commit
<1>3. /\ ledger' \in [Txs -> {"none", "VALID", "INVALID"}]
      /\ ledger'[tx[c]] # "none"
      /\ \A t \in Txs : ledger[t] # "none" => ledger'[t] = ledger[t]
      /\ \A t \in Txs : t # tx[c] => ledger'[t] = ledger[t]
      /\ code = "VALID" => ledger'[tx[c]] = "VALID"
      /\ ledger[tx[c]] = "none" => ledger'[tx[c]] = code
  BY <1>1 DEF IInv, TypeOK
<1>4. \A d \in Calls : /\ tx[d] \in Txs /\ notices[d] \in Seq(Codes)
                       /\ Append(notices[d], code) \in Seq(Codes)
  BY AppendHead DEF IInv, TypeOK
<1>5. notices' \in [Calls -> Seq(Codes)]
  BY <1>1, <1>4
<1>6. TypeOK'
  BY <1>2, <1>3, <1>5 DEF IInv, TypeOK
<1>7. Returned' /\ Tried' /\ SentRegistered'
  BY <1>2 DEF IInv, Returned, Tried, SentRegistered
<1>8. Told'
  <2> SUFFICES ASSUME NEW d \in Calls, NEW k \in DOMAIN notices'[d]
               PROVE  /\ ledger'[tx[d]] # "none"
                      /\ notices'[d][k] = "VALID" => ledger'[tx[d]] = "VALID"
    BY <1>2 DEF Told
  <2>1. CASE k \in DOMAIN notices[d] /\ notices'[d][k] = notices[d][k]
    BY <2>1, <1>3, <1>4 DEF IInv, Told
  <2>2. CASE tx[d] = tx[c] /\ notices'[d][k] = code
    BY <2>2, <1>3
  <2>3. CASE registered[d] /\ tx[d] = tx[c]
    <3>1. notices'[d] = Append(notices[d], code)
      BY <1>1, <2>3
    <3>2. \/ k \in DOMAIN notices[d] /\ notices'[d][k] = notices[d][k]
          \/ notices'[d][k] = code
      BY <3>1, <1>4, AppendHead
    <3> QED BY <3>2, <2>1, <2>2, <2>3
  <2>4. CASE ~ (registered[d] /\ tx[d] = tx[c])
    BY <2>4, <2>1, <1>1
  <2> QED BY <2>3, <2>4
<1>9. Sole'
  <2> SUFFICES ASSUME NEW d \in Calls, SoleSubmitter(d)
               PROVE  /\ caller[d] = "idle" => ledger'[tx[d]] = "none"
                      /\ caller[d] \in {"broadcasting", "waiting"} =>
                           IF notices'[d] = <<>> THEN ledger'[tx[d]] = "none"
                           ELSE Head(notices'[d]) = ledger'[tx[d]]
    BY <1>2 DEF Sole, SoleSubmitter
  <2>1. CASE d # c
    <3>1. tx[d] # tx[c]
      BY <2>1 DEF SoleSubmitter
    <3>2. notices'[d] = notices[d] /\ ledger'[tx[d]] = ledger[tx[d]]
      BY <3>1, <1>1, <1>3, <1>4
    <3> QED BY <3>2 DEF IInv, Sole
  <2>2. CASE d = c
    <3>1. caller[c] # "idle"
      BY <1>2 DEF IInv, SentRegistered
    <3>2. ASSUME caller[c] \in {"broadcasting", "waiting"}
          PROVE  notices'[c] # <<>> /\ Head(notices'[c]) = ledger'[tx[c]]
      <4>1. notices'[c] = Append(notices[c], code)
        BY <1>1, <3>2 DEF IInv, SentRegistered
      <4>2. notices'[c] # <<>>
            /\ Head(notices'[c]) = IF notices[c] = <<>> THEN code ELSE Head(notices[c])
        BY <4>1, <1>4, AppendHead
      <4>3. CASE notices[c] = <<>>
        BY <4>2, <4>3, <3>2, <2>2, <1>3 DEF IInv, Sole
      <4>4. CASE notices[c] # <<>>
        <5>1. Head(notices[c]) = ledger[tx[c]] /\ Head(notices[c]) \in Codes
          BY <4>4, <3>2, <2>2, <1>4, HeadIsElement DEF IInv, Sole
        <5>2. ledger[tx[c]] # "none"
          BY <5>1 DEF Codes
        <5> QED BY <4>2, <4>4, <5>1, <5>2, <1>3, <1>4
      <4> QED BY <4>3, <4>4
    <3> QED BY <2>2, <3>1, <3>2
  <2> QED BY <2>1, <2>2
<1>10. NoErrorMeansCommitted'
  BY <1>2, <1>3, <1>4 DEF IInv, NoErrorMeansCommitted
<1>11. SoleSubmitterToldTheTruth'
  <2> SUFFICES ASSUME NEW d \in Calls, SoleSubmitter(d), result[d].err \in {"none", "invalid"}
               PROVE  result[d].code = ledger'[tx[d]]
    BY <1>2 DEF SoleSubmitterToldTheTruth, SoleSubmitter
  <2>1. result[d].code = ledger[tx[d]] /\ result[d].code \in Codes
    BY DEF IInv, SoleSubmitterToldTheTruth, TypeOK
  <2>2. ledger[tx[d]] # "none"
    BY <2>1 DEF Codes
  <2> QED BY <2>1, <2>2, <1>3, <1>4
<1> QED BY <1>6, <1>7, <1>8, <1>9, <1>10, <1>11 DEF IInv

LEMMA NextIInv == IInv /\ [Next]_vars => IInv'
<1> SUFFICES ASSUME IInv, [Next]_vars PROVE IInv'
  OBVIOUS
<1>1. ASSUME NEW c \in Calls, Call(c)
      PROVE  IInv'
  <2>1. CASE FailToPrepare(c) \/ FailToRegister(c) \/ NoOrderers(c) \/ GiveUp(c)
    BY <2>1, FailStep
  <2>2. CASE Register(c)                        BY <2>2, RegisterStep
  <2>3. CASE \E o \in Orderers : Send(c, o)     BY <2>3, SendStep
  <2>4. CASE Acknowledged(c)                    BY <2>4, AcknowledgedStep
  <2>5. CASE Failed(c)                          BY <2>5, FailedStep
  <2>6. CASE AllFailed(c)                       BY <2>6, AllFailedStep
  <2>7. CASE TakeStatus(c)                      BY <2>7, TakeStatusStep
  <2>8. CASE ContextDone(c)                     BY <2>8, ContextDoneStep
  <2> QED BY <1>1, <2>1, <2>2, <2>3, <2>4, <2>5, <2>6, <2>7, <2>8 DEF Call
<1>2. CASE Network
  BY <1>2, CommitStep, LoseStep DEF Network
<1>3. CASE UNCHANGED vars
  BY <1>3 DEF IInv, TypeOK, Returned, Tried, Told, SentRegistered, Sole, SoleSubmitter,
              NoErrorMeansCommitted, SoleSubmitterToldTheTruth, vars, callVars, args
<1> QED BY <1>1, <1>2, <1>3 DEF Next

LEMMA InvariantHolds == Spec => []IInv
  BY InitIInv, NextIInv, PTL DEF Spec

-------------------------------------------------------------------------------
(* Theorems.                                                                 *)

\* The variables have their types.
THEOREM TypeCorrect == Spec => []TypeOK
<1>1. IInv => TypeOK
  BY DEF IInv
<1> QED BY <1>1, InvariantHolds, PTL

\* No call returns a success that the ledger does not have, for every number of
\* calls, also of the same transaction, and whatever the orderers do.
THEOREM SuccessIsTrue == Spec => []NoErrorMeansCommitted
<1>1. IInv => NoErrorMeansCommitted
  BY DEF IInv
<1> QED BY <1>1, InvariantHolds, PTL

\* The only submitter of a transaction is told the ledger's code for it, never
\* that of a duplicate its own failover made.
THEOREM CodeIsTrue == Spec => []SoleSubmitterToldTheTruth
<1>1. IInv => SoleSubmitterToldTheTruth
  BY DEF IInv
<1> QED BY <1>1, InvariantHolds, PTL

\* For every list of orderers the failover goes on exactly while all orderers
\* that were tried have failed.
THEOREM FailoverInOrder == Spec => []OneOrdererAtATime
<1>1. IInv => OneOrdererAtATime
  BY DEF IInv, Tried, OneOrdererAtATime
<1> QED BY <1>1, InvariantHolds, PTL

-------------------------------------------------------------------------------
(* Delegation: the invariant.                                                *)

Stages == {"start", "stopped", "proposed", "queried", "endorsed", "signed"}

AppStates == [stage : Stages, told : Results \cup {Nothing},
              payload : Results \cup {Nothing}, agreed : BOOLEAN]

Headers == [Txs -> Channels \cup {Nothing}]

\* The channel of the proposal of an application, before and after the parsers of
\* the delegate.
Passed(stage, channel) ==
  /\ stage = "proposed" => channel \in Channels
  /\ stage \in {"queried", "endorsed", "signed"} => channel \in Channels \ {NoChannel}

\* A payload has the result that was told, which is one.
Honest(a) ==
  a.stage \in {"endorsed", "signed"} => a.payload = a.told /\ a.payload \in Results

\* Only signed envelopes are broadcast.
Submitted == \A c \in Calls : caller[c] # "idle" => app[c].stage = "signed"

AInv ==
  /\ AppTypeOK
  /\ \A c \in Calls : Honest(app[c]) /\ Passed(app[c].stage, header[tx[c]])
  /\ Submitted
  /\ CommittedWasTold

-------------------------------------------------------------------------------
(* The composition is Broadcast as far as Broadcast's variables go.          *)

LEMMA StepIsBroadcasts == [AppNext]_<<vars, appVars>> => [Next]_vars
<1> SUFFICES ASSUME [AppNext]_<<vars, appVars>> PROVE [Next]_vars
  OBVIOUS
<1>1. ASSUME NEW c \in Calls, User(c) PROVE UNCHANGED vars
  BY <1>1 DEF User, ProposeAsClient, ProposeAsIdentity, FailToPropose, ProposeAgain,
    SubmitAgain, SignTxnPayload, FailToSign, Propose, Stop
<1>2. ASSUME NEW c \in Calls, Delegate(c) PROVE UNCHANGED vars \/ Call(c)
  BY <1>2 DEF Delegate, MissingChannelID, DelegateQuery,
    DelegateEndorseAndCreateTxnPayload, FailToServe, BroadcastEnvelope, Stop
<1>3. ASSUME NEW c \in Calls, NEW o \in Orderers, CommitHere(c, o) \/ LoseEnvelope(c, o)
      PROVE  Commit(c, o) \/ Lose(c, o)
  BY <1>3 DEF CommitHere, LoseEnvelope
<1> QED
  BY <1>1, <1>2, <1>3 DEF AppNext, Next, Network

LEMMA BroadcastHolds == AppSpec => []IInv
<1>1. AppInit => Init
  BY DEF AppInit
<1>2. AppInit /\ [][AppNext]_<<vars, appVars>> => Spec
  BY <1>1, StepIsBroadcasts, PTL DEF Spec
<1> QED BY <1>2, InvariantHolds, PTL DEF AppSpec

-------------------------------------------------------------------------------
(* Lemmas.                                                                   *)

\* What is told is what the payload is made of, whatever is appended.
LEMMA FirstStaysFirst ==
  ASSUME NEW first \in Answers, NEW extra \in Answers \cup {<<>>}
  PROVE  /\ Head(AllResponses(first, extra)) = ResponsePayload(first)
         /\ ResponsePayload(first) \in Results
<1>1. first \in Seq(Results) /\ first # <<>> /\ extra \in Seq(Results)
  <2>1. Answers \subseteq Seq(Results) \ {<<>>}
    BY RoundsHaveAnswers
  <2>2. <<>> \in Seq(Results)
    OBVIOUS
  <2> QED BY <2>1, <2>2
<1>2. Len(first) \in Nat \ {0}
  BY <1>1
<1>3. (first \o extra)[1] = first[1] /\ first[1] \in Results
  BY <1>1, <1>2
<1> QED
  BY <1>1, <1>2, <1>3 DEF AllResponses, ResponsePayload

LEMMA InitAInv == AppInit => AInv
<1> SUFFICES ASSUME AppInit PROVE AInv
  OBVIOUS
<1>1. TypeOK
  BY InitIInv DEF AppInit, IInv
<1>2. AppTypeOK
  BY <1>1 DEF AppInit, AppTypeOK
<1>3. (\A c \in Calls : Honest(app[c]) /\ Passed(app[c].stage, header[tx[c]])) /\ Submitted
  BY DEF AppInit, Init, Honest, Passed, Submitted
<1>4. CommittedWasTold
  BY DEF AppInit, Init, CommittedWasTold
<1> QED BY <1>2, <1>3, <1>4 DEF AInv

\* One application goes on, and has not signed yet.
LEMMA AppStep ==
  ASSUME AInv, NEW c \in Calls, NEW a \in AppStates,
         app[c].stage # "signed",
         app' = [app EXCEPT ![c] = a],
         Honest(a),
         header' \in Headers,
         \A t \in Txs : header[t] # Nothing => header'[t] = header[t],
         Passed(a.stage, header'[tx[c]]),
         UNCHANGED <<committed, vars>>
  PROVE  AInv'
<1>1. tx \in [Calls -> Txs] /\ app \in [Calls -> AppStates] /\ UNCHANGED <<tx, caller, ledger>>
  BY DEF AInv, AppTypeOK, TypeOK, AppStates, Stages, vars, callVars, args
<1>2. app' \in [Calls -> AppStates]
  BY <1>1
<1>3. \A d \in Calls : Passed(app'[d].stage, header'[tx'[d]])
  <2> SUFFICES ASSUME NEW d \in Calls PROVE Passed(app'[d].stage, header'[tx[d]])
    BY <1>1
  <2>1. CASE d = c
    BY <2>1, <1>1
  <2>2. CASE d # c
    <3>1. app'[d] = app[d]
      BY <2>2, <1>1
    <3>2. Passed(app[d].stage, header[tx[d]])
      BY DEF AInv
    <3> QED BY <3>1, <3>2, <1>1, NothingIsNone DEF Passed
  <2> QED BY <2>1, <2>2
<1>4. TypeOK' /\ committed' \in [Txs -> Results \cup {Nothing}]
  BY DEF AInv, AppTypeOK, TypeOK, vars, callVars, args
<1>5. AppTypeOK'
  BY <1>2, <1>3, <1>4 DEF AppTypeOK, AppStates, Stages, Headers, Passed
<1>6. (\A d \in Calls : Honest(app[d]) /\ Passed(app[d].stage, header[tx[d]]))'
  BY <1>1, <1>3 DEF AInv, Honest
<1>7. Submitted'
  BY <1>1 DEF AInv, Submitted
<1>8. CommittedWasTold'
  BY <1>1 DEF AInv, CommittedWasTold
<1> QED BY <1>5, <1>6, <1>7, <1>8 DEF AInv

\* The steps of the user and of the delegate but for the broadcast.
LEMMA UserStep ==
  ASSUME AInv, NEW c \in Calls, User(c)
  PROVE  AInv'
<1> DEFINE Staged(stage) == [app[c] EXCEPT !.stage = stage]
<1>1. tx \in [Calls -> Txs] /\ app \in [Calls -> AppStates] /\ header \in Headers
  BY DEF AInv, AppTypeOK, TypeOK, AppStates, Stages, Headers
<1>2. \A stage \in Stages : Staged(stage) \in AppStates
  BY <1>1 DEF AppStates
<1>3. Honest(app[c]) /\ Passed(app[c].stage, header[tx[c]])
  BY DEF AInv
<1>4. ASSUME NEW stage \in Stages, To(c, stage) PROVE app' = [app EXCEPT ![c] = Staged(stage)]
  BY <1>1, <1>4 DEF To
<1>5. ASSUME NEW channel \in Channels, Propose(c, channel) PROVE AInv'
  <2>1. app' = [app EXCEPT ![c] = Staged("proposed")]
    BY <1>4, <1>5 DEF Propose, Stages
  <2>2. Staged("proposed").stage = "proposed"
    BY <1>1 DEF AppStates
  <2>3. header' \in Headers /\ \A t \in Txs : header[t] # Nothing => header'[t] = header[t]
    BY <1>1, <1>5 DEF Propose, Headers
  <2>4. header'[tx[c]] = channel
    BY <1>1, <1>5 DEF Propose, Headers
  <2> QED
    BY <1>2, <1>5, <2>1, <2>2, <2>3, <2>4, AppStep DEF Propose, Honest, Passed, Stages
<1>6. ASSUME Stop(c), app[c].stage # "signed" PROVE AInv'
  <2>1. app' = [app EXCEPT ![c] = Staged("stopped")]
    BY <1>4, <1>6 DEF Stop, Stages
  <2>2. Staged("stopped").stage = "stopped"
    BY <1>1 DEF AppStates
  <2> QED
    BY <1>1, <1>2, <1>6, <2>1, <2>2, AppStep DEF Stop, Honest, Passed, Stages
<1>7. CASE ProposeAsClient(c) \/ ProposeAsIdentity(c)
  BY <1>5, <1>7 DEF ProposeAsClient, ProposeAsIdentity
<1>8. CASE FailToPropose(c) \/ FailToSign(c)
  BY <1>6, <1>8 DEF FailToPropose, FailToSign
<1>9. CASE ProposeAgain(c)
  <2>1. app' = [app EXCEPT ![c] = Staged("proposed")]
    BY <1>4, <1>9 DEF ProposeAgain, Stages
  <2>2. Staged("proposed").stage = "proposed"
    BY <1>1 DEF AppStates
  <2> QED
    BY <1>1, <1>2, <1>9, <2>1, <2>2, AppStep DEF ProposeAgain, Honest, Passed, Stages, Headers
<1>10. CASE SubmitAgain(c)
  <2>1. PICK d \in Calls : tx[d] = tx[c] /\ app[d].stage = "signed"
                           /\ app' = [app EXCEPT ![c] = app[d]]
    BY <1>10 DEF SubmitAgain
  <2>2. Honest(app[d]) /\ Passed(app[d].stage, header[tx[d]])
    BY DEF AInv
  <2> QED
    BY <1>1, <1>10, <2>1, <2>2, AppStep DEF SubmitAgain
<1>11. CASE SignTxnPayload(c)
  <2>1. app' = [app EXCEPT ![c] = Staged("signed")] /\ app[c].stage = "endorsed"
    BY <1>4, <1>11 DEF SignTxnPayload, Stages
  <2>2. /\ Staged("signed").stage = "signed" /\ Staged("signed").told = app[c].told
        /\ Staged("signed").payload = app[c].payload
    BY <1>1 DEF AppStates
  <2>3. Honest(Staged("signed")) /\ Passed("signed", header[tx[c]])
    BY <1>3, <2>1, <2>2 DEF Honest, Passed
  <2> QED
    BY <1>1, <1>2, <1>11, <2>1, <2>2, <2>3, AppStep DEF SignTxnPayload, Stages
<1> QED
  BY <1>7, <1>8, <1>9, <1>10, <1>11 DEF User

LEMMA ServeStep ==
  ASSUME AInv, NEW c \in Calls,
         \/ MissingChannelID(c) \/ DelegateQuery(c)
         \/ DelegateEndorseAndCreateTxnPayload(c) \/ FailToServe(c)
  PROVE  AInv'
<1>1. tx \in [Calls -> Txs] /\ app \in [Calls -> AppStates] /\ header \in Headers
  BY DEF AInv, AppTypeOK, TypeOK, AppStates, Stages, Headers
<1>2. app[c].stage \in {"proposed", "queried"}
  BY DEF MissingChannelID, DelegateQuery, DelegateEndorseAndCreateTxnPayload, FailToServe,
    HasProposal
<1>3. CASE MissingChannelID(c) \/ FailToServe(c)
  <2> DEFINE a == [app[c] EXCEPT !.stage = "stopped"]
  <2>1. a \in AppStates /\ a.stage = "stopped"
    BY <1>1 DEF AppStates, Stages
  <2>2. app' = [app EXCEPT ![c] = a] /\ UNCHANGED <<header, committed, vars>>
    BY <1>1, <1>3 DEF MissingChannelID, FailToServe, Stop, To
  <2> QED
    BY <1>1, <1>2, <2>1, <2>2, AppStep DEF Honest, Passed
<1>4. ASSUME HasChannelID(tx[c]) PROVE header[tx[c]] \in Channels \ {NoChannel}
  BY <1>2, <1>4 DEF HasChannelID, AInv, Passed
<1>5. CASE DelegateQuery(c)
  <2>1. PICK r \in Results : app' = [app EXCEPT ![c].stage = "queried", ![c].told = r]
    BY <1>5 DEF DelegateQuery
  <2> DEFINE a == [app[c] EXCEPT !.stage = "queried", !.told = r]
  <2>2. a \in AppStates /\ a.stage = "queried"
    BY <1>1 DEF AppStates, Stages
  <2>3. app' = [app EXCEPT ![c] = a] /\ UNCHANGED <<header, committed, vars>>
    BY <1>1, <1>5, <2>1 DEF DelegateQuery
  <2> QED
    BY <1>1, <1>2, <1>4, <1>5, <2>2, <2>3, AppStep DEF DelegateQuery, Honest, Passed
<1>6. CASE DelegateEndorseAndCreateTxnPayload(c)
  <2> DEFINE made(first, extra) == Transaction(AllResponses(first, extra))
             new(first, extra) ==
               [stage |-> "endorsed", told |-> ResponsePayload(first),
                payload |-> made(first, extra).payload, agreed |-> made(first, extra).agreed]
  <2>1. PICK first \in Answers, extra \in Answers \cup {<<>>} :
          app' = [app EXCEPT ![c] = new(first, extra)]
    BY <1>6 DEF DelegateEndorseAndCreateTxnPayload
  <2>2. /\ made(first, extra).payload = ResponsePayload(first)
        /\ made(first, extra).payload \in Results
        /\ made(first, extra).agreed \in BOOLEAN
    BY FirstStaysFirst DEF Transaction
  <2> HIDE DEF made
  <2>3. new(first, extra) \in AppStates /\ Honest(new(first, extra))
    BY <2>2 DEF AppStates, Stages, Honest
  <2>4. Passed("endorsed", header[tx[c]]) /\ UNCHANGED <<header, committed, vars>>
    BY <1>4, <1>6 DEF DelegateEndorseAndCreateTxnPayload, Passed
  <2> QED
    BY <1>1, <1>2, <2>1, <2>3, <2>4, AppStep
<1> QED
  BY <1>3, <1>5, <1>6

-------------------------------------------------------------------------------
(* Broadcasting and commits.                                                 *)

\* The calls and the network leave the applications alone, and a call goes on only
\* if its envelope is signed.
LEMMA BroadcastStep ==
  ASSUME AInv, TypeOK', tx' = tx, UNCHANGED appVars,
         \A d \in Calls : caller[d] = "idle" /\ caller'[d] # "idle" => app[d].stage = "signed",
         \A t \in Txs : ledger'[t] = ledger[t]
  PROVE  AInv'
<1>1. tx \in [Calls -> Txs] /\ UNCHANGED <<header, app, committed>>
  BY DEF AInv, AppTypeOK, TypeOK, appVars
<1>2. AppTypeOK'
  BY <1>1 DEF AInv, AppTypeOK
<1>3. (\A d \in Calls : Honest(app[d]) /\ Passed(app[d].stage, header[tx[d]]))'
  BY <1>1 DEF AInv
<1>4. Submitted'
  BY <1>1 DEF AInv, Submitted
<1>5. CommittedWasTold'
  BY <1>1 DEF AInv, CommittedWasTold
<1> QED BY <1>2, <1>3, <1>4, <1>5 DEF AInv

LEMMA CallChanges ==
  ASSUME NEW c \in Calls, TypeOK, Call(c)
  PROVE  /\ tx' = tx /\ ledger' = ledger
         /\ \A d \in Calls \ {c} : caller'[d] = caller[d] /\ result'[d] = result[d]
BY DEF Call, FailToPrepare, Register, FailToRegister, NoOrderers, Send, Acknowledged, Failed,
  AllFailed, TakeStatus, GiveUp, ContextDone, Return, callVars, args, TypeOK

\* The first copy decides what the transaction results in.
LEMMA CommitHereStep ==
  ASSUME AInv, IInv, TypeOK', NEW c \in Calls, NEW o \in Orderers, CommitHere(c, o)
  PROVE  AInv'
<1>1. /\ tx \in [Calls -> Txs] /\ committed \in [Txs -> Results \cup {Nothing}]
      /\ ledger \in [Txs -> {"none", "VALID", "INVALID"}]
      /\ UNCHANGED <<header, app, tx, caller>>
  BY DEF AInv, AppTypeOK, TypeOK, CommitHere, Commit, callVars, args
<1>2. app[c].stage = "signed" /\ app[c].payload = app[c].told /\ app[c].payload \in Results
  BY DEF CommitHere, Commit, IInv, SentRegistered, AInv, Submitted, Honest
<1>3. committed' \in [Txs -> Results \cup {Nothing}]
  BY <1>1, <1>2 DEF CommitHere
<1>4. AppTypeOK'
  BY <1>1, <1>3 DEF AInv, AppTypeOK
<1>5. (\A d \in Calls : Honest(app[d]) /\ Passed(app[d].stage, header[tx[d]]))'
  BY <1>1 DEF AInv
<1>6. Submitted'
  BY <1>1 DEF AInv, Submitted
<1>7. CommittedWasTold'
  <2> SUFFICES ASSUME NEW t \in Txs, ledger'[t] = "VALID"
               PROVE  \E d \in Calls : tx[d] = t /\ app[d].stage = "signed" /\ app[d].agreed
                                       /\ committed'[t] = app[d].told
    BY <1>1 DEF CommittedWasTold
  <2>1. CASE t = tx[c] /\ ledger[t] = "none"
    <3>1. app[c].agreed /\ committed'[t] = app[c].payload
      BY <1>1, <2>1 DEF CommitHere
    <3> QED BY <1>2, <2>1, <3>1
  <2>2. CASE ~ (t = tx[c] /\ ledger[t] = "none")
    <3>1. ledger'[t] = ledger[t] /\ committed'[t] = committed[t]
      BY <1>1, <2>2 DEF CommitHere, Commit
    <3> QED BY <3>1 DEF AInv, CommittedWasTold
  <2> QED BY <2>1, <2>2
<1> QED BY <1>4, <1>5, <1>6, <1>7 DEF AInv

LEMMA NextAInv == AInv /\ IInv /\ IInv' /\ [AppNext]_<<vars, appVars>> => AInv'
<1> SUFFICES ASSUME AInv, IInv, IInv', [AppNext]_<<vars, appVars>> PROVE AInv'
  OBVIOUS
<1>1. TypeOK /\ TypeOK'
  BY DEF IInv
<1>2. ASSUME NEW c \in Calls, BroadcastEnvelope(c) PROVE AInv'
  BY <1>1, <1>2, CallChanges, BroadcastStep DEF BroadcastEnvelope
<1>3. ASSUME NEW c \in Calls, NEW o \in Orderers, LoseEnvelope(c, o) PROVE AInv'
  BY <1>1, <1>3, BroadcastStep DEF LoseEnvelope, Lose, callVars, args
<1>4. ASSUME UNCHANGED <<vars, appVars>> PROVE AInv'
  BY <1>1, <1>4, BroadcastStep DEF vars, callVars, args
<1> QED
  BY <1>1, <1>2, <1>3, <1>4, UserStep, ServeStep, CommitHereStep DEF AppNext, Delegate

LEMMA AInvHolds == AppSpec => [](IInv /\ AInv)
<1>1. AppInit => AInv
  BY InitAInv
<1> QED
  BY <1>1, BroadcastHolds, NextAInv, PTL DEF AppSpec

-------------------------------------------------------------------------------
(* Theorems.                                                                 *)

\* The applications' variables have their types: stages, proposals and results are
\* what the methods of chclient.go leave, for any number of applications.
THEOREM AppTypeCorrect == AppSpec => []AppTypeOK
<1>1. AInv => AppTypeOK
  BY DEF AInv
<1> QED BY <1>1, AInvHolds, PTL

\* Whatever peers answer in one round or two, the user signs what was told.
THEOREM SignedAsTold == AppSpec => []ToldIsSigned
<1>1. AInv => ToldIsSigned
  BY DEF AInv, Honest, ToldIsSigned
<1> QED BY <1>1, AInvHolds, PTL

\* No transaction gets a result that no application was told, or that its
\* endorsers do not agree on, for any number of applications and orderers.
THEOREM CommittedAsTold == AppSpec => []CommittedWasTold
<1>1. AInv => CommittedWasTold
  BY DEF AInv
<1> QED BY <1>1, AInvHolds, PTL

\* A success means that the ledger has what was told.
THEOREM SuccessAsTold == AppSpec => []SuccessIsAsTold
<1>1. IInv /\ AInv => SuccessIsAsTold
  <2> SUFFICES ASSUME IInv, AInv, NEW c \in Calls, result[c].err = "none", OnePayload(tx[c])
               PROVE  committed[tx[c]] = app[c].told
    BY DEF SuccessIsAsTold
  <2>1. ledger[tx[c]] = "VALID" /\ tx[c] \in Txs /\ caller[c] = "returned"
    BY DEF IInv, NoErrorMeansCommitted, TypeOK, Returned
  <2>2. PICK d \in Calls : tx[d] = tx[c] /\ app[d].stage = "signed"
                           /\ committed[tx[c]] = app[d].told
    BY <2>1 DEF AInv, CommittedWasTold
  <2>3. app[c].stage = "signed"
    BY <2>1 DEF AInv, Submitted
  <2>4. app[c].payload = app[d].payload
    BY <2>2, <2>3 DEF OnePayload
  <2> QED BY <2>2, <2>3, <2>4 DEF AInv, Honest
<1> QED BY <1>1, AInvHolds, PTL

-------------------------------------------------------------------------------
(* Refinement.                                                               *)

\* What a call does to its result.
LEMMA CallReports ==
  ASSUME IInv, NEW c \in Calls, Call(c)
  PROVE  \/ result' = result
         \/ /\ result[c].err = "pending"
            /\ \E err \in Errors \cup {"none"}, code \in Codes :
                 /\ result' = [result EXCEPT ![c] = [err |-> err, code |-> code]]
                 /\ err = "invalid" => ledger[tx[c]] # "none"
<1>1. ASSUME NEW err \in Errors \cup {"none"}, NEW code \in Codes, Return(c, err, code),
             caller[c] # "returned", err = "invalid" => ledger[tx[c]] # "none"
      PROVE  /\ result[c].err = "pending"
             /\ result' = [result EXCEPT ![c] = [err |-> err, code |-> code]]
  BY <1>1 DEF IInv, Returned, Return
<1>2. CASE FailToPrepare(c) \/ FailToRegister(c) \/ NoOrderers(c) \/ AllFailed(c) \/ GiveUp(c)
  <2>1. PICK err \in Errors \ {"invalid"} : Return(c, err, "VALID")
    BY <1>2 DEF FailToPrepare, FailToRegister, NoOrderers, AllFailed, GiveUp, Errors
  <2>2. caller[c] # "returned"
    BY <1>2 DEF FailToPrepare, FailToRegister, NoOrderers, AllFailed, GiveUp
  <2> QED BY <1>1, <2>1, <2>2 DEF Codes
<1>3. CASE TakeStatus(c)
  <2>1. notices[c] \in Seq(Codes) /\ notices[c] # <<>>
    BY <1>3 DEF TakeStatus, IInv, TypeOK
  <2>2. 1 \in DOMAIN notices[c] /\ Head(notices[c]) \in Codes
    BY <2>1, HeadIsElement
  <2>3. ledger[tx[c]] # "none"
    BY <2>2 DEF IInv, Told
  <2>4. PICK err \in {"none", "invalid"}, code \in Codes : Return(c, err, code)
    BY <1>3, <2>2 DEF TakeStatus
  <2>5. caller[c] # "returned" /\ err \in Errors \cup {"none"}
    BY <1>3, <2>4 DEF TakeStatus, Errors
  <2> QED BY <1>1, <2>3, <2>4, <2>5
<1>4. CASE Register(c) \/ (\E o \in Orderers : Send(c, o)) \/ Acknowledged(c) \/ Failed(c)
           \/ ContextDone(c)
  BY <1>4 DEF Register, Send, Acknowledged, Failed, ContextDone, callVars
<1> QED BY <1>2, <1>3, <1>4 DEF Call

\* What is decided when a transaction is valid.
LEMMA ValidIsDecided ==
  ASSUME AInv, NEW t \in Txs, ledger[t] = "VALID"
  PROVE  Decision[t] \in Results
<1>1. PICK d \in Calls : app[d].stage = "signed" /\ committed[t] = app[d].told
  BY DEF AInv, CommittedWasTold
<1>2. app[d].told \in Results
  BY <1>1 DEF AInv, Honest
<1> QED BY <1>1, <1>2 DEF Decision

LEMMA DecidedIfCommitted ==
  ASSUME AInv, IInv, NEW t \in Txs, ledger[t] # "none"
  PROVE  Decision[t] # Nothing
<1>1. CASE ledger[t] = "VALID"
  BY <1>1, ValidIsDecided, NothingIsNone
<1>2. CASE ledger[t] # "VALID"
  BY <1>2, NothingIsNone DEF Decision
<1> QED BY <1>1, <1>2

LEMMA ReportStep ==
  ASSUME AInv, IInv, IInv', NEW c \in Calls, BroadcastEnvelope(c)
  PROVE  [Promise!Next]_<<tx, Decision, Report>>
<1>1. /\ tx' = tx /\ ledger' = ledger /\ committed' = committed /\ Call(c)
      /\ tx \in [Calls -> Txs]
      /\ result \in [Calls -> [err : Errors \cup {"none", "pending"}, code : Codes]]
  BY CallChanges DEF BroadcastEnvelope, IInv, appVars, TypeOK
<1>2. Decision' = Decision
  BY <1>1 DEF Decision
<1>3. CASE result' = result
  BY <1>1, <1>2, <1>3 DEF Report
<1>4. CASE result[c].err = "pending" /\ result' # result
  <2>1. PICK err \in Errors \cup {"none"}, code \in Codes :
          /\ result' = [result EXCEPT ![c] = [err |-> err, code |-> code]]
          /\ err = "invalid" => ledger[tx[c]] # "none"
    BY <1>1, <1>4, CallReports
  <2> DEFINE r == CASE err = "none" -> "success"
                    [] err = "invalid" -> "refusal"
                    [] OTHER -> "unknown"
  <2>2. Report[c] = "none"
    BY <1>4 DEF Report
  <2>3. result'[c].err = err /\ \A d \in Calls \ {c} : result'[d] = result[d]
    BY <1>1, <2>1
  <2>4. Report' = [Report EXCEPT ![c] = r]
    BY <2>3 DEF Report, Errors
  <2>5. r \in {"success", "refusal", "unknown"}
    OBVIOUS
  <2>6. r = "success" => Decision[tx[c]] \in Results
    <3> SUFFICES ASSUME r = "success" PROVE Decision[tx[c]] \in Results
      OBVIOUS
    <3>1. result'[c].err = "none"
      BY <2>3
    <3>2. ledger[tx[c]] = "VALID"
      BY <1>1, <3>1 DEF IInv, NoErrorMeansCommitted
    <3> QED BY <1>1, <3>2, ValidIsDecided
  <2>7. r = "refusal" => Decision[tx[c]] # Nothing
    BY <1>1, <2>1, DecidedIfCommitted
  <2> HIDE DEF r
  <2>8. Promise!Report(c)
    BY <1>1, <1>2, <2>2, <2>4, <2>5, <2>6, <2>7 DEF Promise!Report
  <2> QED BY <2>8 DEF Promise!Next
<1> QED BY <1>1, <1>3, <1>4, CallReports

LEMMA DecideStep ==
  ASSUME AInv, AInv', IInv, IInv', NEW c \in Calls, NEW o \in Orderers, CommitHere(c, o)
  PROVE  [Promise!Next]_<<tx, Decision, Report>>
<1>1. /\ tx' = tx /\ result' = result
      /\ tx \in [Calls -> Txs]
      /\ ledger \in [Txs -> {"none", "VALID", "INVALID"}]
      /\ committed \in [Txs -> Results \cup {Nothing}]
  BY DEF CommitHere, Commit, callVars, args, AInv, AppTypeOK, TypeOK
<1>2. Report' = Report
  BY <1>1 DEF Report
<1>3. CASE ledger[tx[c]] # "none"
  <2>1. ledger' = ledger
    BY <1>1, <1>3 DEF CommitHere, Commit
  <2>2. committed' = committed
    BY <1>1, <1>3 DEF CommitHere
  <2> QED BY <1>1, <1>2, <2>1, <2>2 DEF Decision
<1>4. CASE ledger[tx[c]] = "none"
  <2>1. PICK code \in {"VALID", "INVALID"} : ledger' = [ledger EXCEPT ![tx[c]] = code]
    BY <1>1, <1>4 DEF CommitHere, Commit
  <2>2. \A t \in Txs \ {tx[c]} : ledger'[t] = ledger[t] /\ committed'[t] = committed[t]
    BY <1>1, <2>1 DEF CommitHere
  <2>3. Decision[tx[c]] = Nothing
    BY <1>1, <1>4 DEF Decision
  <2>4. Decision'[tx[c]] \in Results \cup {"invalid"}
    <3>1. CASE code = "VALID"
      <4>1. ledger'[tx[c]] = "VALID"
        BY <1>1, <2>1, <3>1
      <4>2. PICK d \in Calls : app'[d].stage = "signed" /\ committed'[tx[c]] = app'[d].told
        BY <1>1, <4>1 DEF AInv, CommittedWasTold
      <4>3. app'[d].told \in Results
        BY <4>2 DEF AInv, Honest
      <4> QED BY <1>1, <4>1, <4>2, <4>3 DEF Decision
    <3>2. CASE code = "INVALID"
      BY <1>1, <2>1, <3>2 DEF Decision
    <3> QED BY <3>1, <3>2
  <2>5. Decision' = [Decision EXCEPT ![tx[c]] = Decision'[tx[c]]]
    BY <2>2 DEF Decision
  <2>6. Promise!Decide(tx[c])
    BY <1>1, <1>2, <2>3, <2>4, <2>5 DEF Promise!Decide
  <2> QED BY <1>1, <2>6 DEF Promise!Next
<1> QED BY <1>3, <1>4

LEMMA StepIsPromised ==
  AInv /\ AInv' /\ IInv /\ IInv' /\ [AppNext]_<<vars, appVars>>
    => [Promise!Next]_<<tx, Decision, Report>>
<1> SUFFICES ASSUME AInv, AInv', IInv, IInv', [AppNext]_<<vars, appVars>>
             PROVE  [Promise!Next]_<<tx, Decision, Report>>
  OBVIOUS
<1>1. ASSUME UNCHANGED <<tx, ledger, result, committed>>
      PROVE  UNCHANGED <<tx, Decision, Report>>
  BY <1>1 DEF Decision, Report
<1>2. ASSUME NEW c \in Calls, User(c) PROVE UNCHANGED <<tx, ledger, result, committed>>
  BY <1>2 DEF User, ProposeAsClient, ProposeAsIdentity, FailToPropose, ProposeAgain,
    SubmitAgain, SignTxnPayload, FailToSign, Propose, Stop, vars, callVars, args
<1>3. ASSUME NEW c \in Calls, Delegate(c)
      PROVE  UNCHANGED <<tx, ledger, result, committed>> \/ BroadcastEnvelope(c)
  BY <1>3 DEF Delegate, MissingChannelID, DelegateQuery,
    DelegateEndorseAndCreateTxnPayload, FailToServe, Stop, vars, callVars, args
<1>4. ASSUME NEW c \in Calls, NEW o \in Orderers, LoseEnvelope(c, o)
      PROVE  UNCHANGED <<tx, ledger, result, committed>>
  BY <1>4 DEF LoseEnvelope, Lose, appVars, callVars, args
<1>5. ASSUME UNCHANGED <<vars, appVars>> PROVE UNCHANGED <<tx, ledger, result, committed>>
  BY <1>5 DEF vars, callVars, args, appVars
<1> QED
  BY <1>1, <1>2, <1>3, <1>4, <1>5, ReportStep, DecideStep DEF AppNext

LEMMA InitIsPromised == AppInit => Promise!Init
BY DEF AppInit, Init, Promise!Init, Decision, Report, Pending

\* Delegation implements Transaction: each transaction is decided once, and what
\* an application is told of it, if anything, is true and final.
THEOREM TransactionImplemented == AppSpec => ImplementsTransaction
BY InitIsPromised, StepIsPromised, AInvHolds, PTL
   DEF AppSpec, ImplementsTransaction, Promise!Spec
===============================================================================
