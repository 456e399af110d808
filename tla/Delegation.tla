------------------------------ MODULE Delegation ------------------------------
(***************************************************************************)
(* The life of a transaction through a delegate (pkg/client/channel/       *)
(* chclient.go, in the order of delegate_test.go): a user creates and      *)
(* signs a proposal, the delegate's client queries with it or has it       *)
(* endorsed and makes a payload of the responses, the user signs the       *)
(* payload, the delegate's client broadcasts the envelope (Broadcast.tla). *)
(*                                                                         *)
(* There is one application for each call of BroadcastEnvelope, its        *)
(* transaction ID being the one its proposal has.  An application that     *)
(* tries again may come with a proposal, or an envelope, of another one.   *)
(* DelegateInvokeHandler is one step here; see DelegateInvoke.tla.         *)
(*                                                                         *)
(* Peers may answer one proposal with different results, as they are not   *)
(* at the same height of the ledger, and a proposal may be for a channel   *)
(* that is not the one of the delegate's client.                           *)
(***************************************************************************)
EXTENDS Broadcast

CONSTANTS
  Channels,   \* the channel IDs a proposal may be made with
  Here,       \* the channel of the delegate's client
  NoChannel,  \* the empty channel ID
  Results,    \* what simulating a proposal may result in
  Answers,    \* sequences of results: what the peers of a round answer
  Nothing     \* no result, no proposal

ASSUME HereIsAChannel == Here \in Channels \ {NoChannel}
ASSUME NothingIsNone == Nothing \notin Results \cup Channels \cup {"invalid"}
ASSUME RoundsHaveAnswers == Answers \subseteq Seq(Results) \ {<<>>}

VARIABLES
  header,     \* the channel ID in the header of each transaction's proposal
  app,        \* of each application: its stage, what it was told the transaction
              \* results in, the payload and whether all of its endorsers agree
  committed   \* the result each transaction was committed with on this channel

appVars == <<header, app, committed>>

AppInit ==
  /\ Init
  /\ header = [t \in Txs |-> Nothing]
  /\ app = [c \in Calls |-> [stage |-> "start", told |-> Nothing, payload |-> Nothing,
                             agreed |-> FALSE]]
  /\ committed = [t \in Txs |-> Nothing]

-------------------------------------------------------------------------------
(* Slips in this code, each of which a property below must notice.           *)

\* The additional responses come first.
AllResponsesNewestFirst(first, extra) == extra \o first

\* Only the responses of the last round are kept.
AllResponsesOfLastRound(first, extra) == IF extra = <<>> THEN first ELSE extra

\* A header without a channel ID passes.
HasAnyChannelID(t) == TRUE

-------------------------------------------------------------------------------
(* The user's side.                                                          *)

To(c, stage) == app' = [app EXCEPT ![c].stage = stage]

\* A step of the application that ends with an error.
Stop(c) ==
  /\ To(c, "stopped")
  /\ UNCHANGED <<header, committed, vars>>

Propose(c, channel) ==
  /\ app[c].stage = "start"
  /\ header[tx[c]] = Nothing          \* the nonce is new, and so is the ID
  /\ header' = [header EXCEPT ![tx[c]] = channel]
  /\ To(c, "proposed")
  /\ UNCHANGED <<committed, vars>>

\* Client.CreateSignedProposal: for the channel of the user's client.
ProposeAsClient(c) == \E channel \in Channels \ {NoChannel} : Propose(c, channel)

\* CreateSignedProposal with an identity only: for the channel that is named.
ProposeAsIdentity(c) == \E channel \in Channels : Propose(c, channel)

\* No chaincode ID or function, or the header, the proposal or its signature
\* cannot be made.
FailToPropose(c) == app[c].stage = "start" /\ Stop(c)

\* The application has a signed proposal already, or an envelope.
ProposeAgain(c) ==
  /\ app[c].stage = "start"
  /\ header[tx[c]] # Nothing
  /\ To(c, "proposed")
  /\ UNCHANGED <<header, committed, vars>>

SubmitAgain(c) ==
  /\ app[c].stage = "start"
  /\ \E d \in Calls \ {c} :
       /\ tx[d] = tx[c]
       /\ app[d].stage = "signed"
       /\ app' = [app EXCEPT ![c] = app[d]]
  /\ UNCHANGED <<header, committed, vars>>

SignTxnPayload(c) ==
  /\ app[c].stage = "endorsed"
  /\ To(c, "signed")
  /\ UNCHANGED <<header, committed, vars>>

FailToSign(c) == app[c].stage = "endorsed" /\ Stop(c)

-------------------------------------------------------------------------------
(* The delegate's side.                                                      *)

\* A signed proposal may be queried with, more than once, and then be endorsed.
HasProposal(c) == app[c].stage \in {"proposed", "queried"}

\* getProposalFromProposalBytes, getChannelHeaderFromHeaderBytes and
\* getChaincodeIDFromExtension: what can be wrong with a proposal made as above.
HasChannelID(t) == header[t] # NoChannel

MissingChannelID(c) ==
  /\ HasProposal(c)
  /\ ~ HasChannelID(tx[c])
  /\ Stop(c)

\* The responses of both rounds, in the order of the slice, and the payload of
\* the response, which is set after the first round.
AllResponses(first, extra) == first \o extra
ResponsePayload(first) == Head(first)

\* All answers of a query are the same: the handlers after the endorsement see to it.
DelegateQuery(c) ==
  /\ HasProposal(c)
  /\ HasChannelID(tx[c])
  /\ \E result_ \in Results :
       app' = [app EXCEPT ![c].stage = "queried", ![c].told = result_]
  /\ UNCHANGED <<header, committed, vars>>

\* txn.New makes a transaction of the first response's payload and the
\* endorsements of all.
Transaction(responses) ==
  [payload |-> Head(responses), agreed |-> \A i \in DOMAIN responses : responses[i] = Head(responses)]

DelegateEndorseAndCreateTxnPayload(c) ==
  /\ HasProposal(c)
  /\ HasChannelID(tx[c])
  /\ \E first \in Answers, extra \in Answers \cup {<<>>} :
       LET made == Transaction(AllResponses(first, extra))
       IN app' = [app EXCEPT ![c] = [stage |-> "endorsed", told |-> ResponsePayload(first),
                                     payload |-> made.payload, agreed |-> made.agreed]]
  /\ UNCHANGED <<header, committed, vars>>

\* The invocation of the handlers fails, or txn.New does.
FailToServe(c) == HasProposal(c) /\ Stop(c)

\* BroadcastEnvelope, for the transaction ID in the header of the payload.
BroadcastEnvelope(c) ==
  /\ app[c].stage = "signed"
  /\ Call(c)
  /\ UNCHANGED appVars

-------------------------------------------------------------------------------
(* The network.                                                              *)

\* The first copy of a transaction is valid only if its endorsers agree on the
\* result.  The event service tells of commits on this channel only.
CommitHere(c, o) ==
  LET first == ledger[tx[c]] = "none"
      valid == ledger'[tx[c]] = "VALID"
  IN /\ header[tx[c]] = Here
     /\ Commit(c, o)
     /\ first /\ valid => app[c].agreed
     /\ committed' = [committed EXCEPT ![tx[c]] = IF first /\ valid THEN app[c].payload ELSE @]
     /\ UNCHANGED <<header, app>>

\* The envelope is lost or, which is the same to this client, is committed on
\* another channel.
LoseEnvelope(c, o) == Lose(c, o) /\ UNCHANGED appVars

-------------------------------------------------------------------------------
User(c) ==
  \/ ProposeAsClient(c) \/ ProposeAsIdentity(c) \/ FailToPropose(c)
  \/ ProposeAgain(c) \/ SubmitAgain(c)
  \/ SignTxnPayload(c) \/ FailToSign(c)

Delegate(c) ==
  \/ MissingChannelID(c) \/ DelegateQuery(c)
  \/ DelegateEndorseAndCreateTxnPayload(c) \/ FailToServe(c)
  \/ BroadcastEnvelope(c)

AppNext ==
  \/ \E c \in Calls : User(c) \/ Delegate(c)
  \/ \E c \in Calls, o \in Orderers :
       CommitHere(c, o) \/ LoseEnvelope(c, o)

AppSpec == AppInit /\ [][AppNext]_<<vars, appVars>>

-------------------------------------------------------------------------------
(* Properties.                                                               *)

\* The variables have their types, and no proposal without a channel ID gets past
\* the delegate (chclient.go:318-331).
AppTypeOK ==
  /\ TypeOK
  /\ header \in [Txs -> Channels \cup {Nothing}]
  /\ app \in [Calls -> [stage : {"start", "stopped", "proposed", "queried", "endorsed", "signed"},
                        told : Results \cup {Nothing}, payload : Results \cup {Nothing},
                        agreed : BOOLEAN]]
  /\ committed \in [Txs -> Results \cup {Nothing}]
  /\ \A c \in Calls :
       app[c].stage \in {"queried", "endorsed", "signed"} => header[tx[c]] \in Channels \ {NoChannel}

\* What a user is told a transaction results in is what the payload has that the
\* user signs, although nothing compares the peers' answers, and more of them are
\* appended later (txnhandler.go:155-177, chclient.go:341-371).
ToldIsSigned ==
  \A c \in Calls : app[c].stage \in {"endorsed", "signed"} => app[c].payload = app[c].told

\* Envelopes of one transaction ID all have the same payload.
OnePayload(t) ==
  \A c, d \in Calls :
    /\ tx[c] = t /\ tx[d] = t
    /\ app[c].stage = "signed" /\ app[d].stage = "signed"
    => app[c].payload = app[d].payload

\* An application whose broadcast ended without an error was told before what its
\* transaction results in, and this is what is committed under its ID on the
\* channel of the client.  Not when it had one proposal endorsed twice, with
\* different results, and submitted both: the status is that of the ID
\* (chclient.go:213-247 and 424-484).
SuccessIsAsTold ==
  \A c \in Calls :
    result[c].err = "none" /\ OnePayload(tx[c]) => committed[tx[c]] = app[c].told

\* Whatever several applications do with one proposal: a transaction that is valid
\* has the result that some application was told and signed, and all of its
\* endorsers agreed on.
CommittedWasTold ==
  \A t \in Txs :
    ledger[t] = "VALID" =>
      \E c \in Calls : tx[c] = t /\ app[c].stage = "signed" /\ app[c].agreed
                       /\ committed[t] = app[c].told

\* The composition carries out transactions as Transaction.tla promises.  What is
\* decided is what the ledger has, what is reported the error of the call.
Decision ==
  [t \in Txs |-> CASE ledger[t] = "none" -> Nothing
                  [] ledger[t] = "VALID" -> committed[t]
                  [] OTHER -> "invalid"]
Report ==
  [c \in Calls |-> CASE result[c].err = "pending" -> "none"
                    [] result[c].err = "none" -> "success"
                    [] result[c].err = "invalid" -> "refusal"
                    [] OTHER -> "unknown"]

Promise ==
  INSTANCE Transaction WITH Applications <- Calls, Transactions <- Txs,
    Results <- Results, Undecided <- Nothing,
    transaction <- tx, decision <- Decision, report <- Report

ImplementsTransaction == Promise!Spec
===============================================================================
