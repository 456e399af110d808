---------------------------- MODULE DelegateInvoke ----------------------------
(***************************************************************************)
(* Client.DelegateInvokeHandler (pkg/client/channel/chclient.go) and the   *)
(* handlers it runs (pkg/client/channel/invoke/txnhandler.go and           *)
(* selectendorsehandler.go).                                               *)
(*                                                                         *)
(* Each call starts a goroutine that runs the handlers, again and again    *)
(* while the retry handler asks for it, on one request context; the caller *)
(* waits until the goroutine signals the end or its own context is done.   *)
(* A goroutine whose caller gave up goes on.  All calls of a client share  *)
(* its greylist.                                                           *)
(*                                                                         *)
(* A round of proposals (SendSignedProposal) is the round of ScatterGather *)
(* as one step: SendProposal.tla shows that the code implements it.        *)
(***************************************************************************)
EXTENDS Naturals, InvocationChain

CONSTANTS
  Calls,         \* the calls of DelegateInvokeHandler on one client
  Inputs,        \* what they may be called with
  Peers,         \* the peers of the channel
  MSPID, URL,    \* the MSP and the URL of each peer; peers may have one URL
  Policy,        \* by chaincode and by collection: the sets of MSPs whose
                 \* endorsements satisfy its policy
  FilteredOut,   \* the chaincodes the option's CC filter leaves out
  RWSets,        \* the chains read from the read-write sets of responses
  Unparsable,    \* a read-write set that cannot be read
  Retryable,     \* the kinds of error the retry handler wants a retry for
  Attempts       \* retry.Opts.Attempts: how many times it lets one happen

(***************************************************************************)
(* The kinds of error a request can end with.                              *)
(*   selection  - no endorsers found for the chain                         *)
(*   noTargets  - the query handler has nobody to send to                  *)
(*   refused    - a plain error: no proposal, no delegate transactor, or   *)
(*                no targets to send to                                    *)
(*   connection - a peer could not be reached                              *)
(*   endorser   - a peer answered with an error                            *)
(*   additional - the second round failed; the error wraps the peers' ones *)
(*   invalid    - the endorsements did not pass validation                 *)
(*   prepare    - the call failed before the goroutine was started         *)
(*   timeout    - the caller's context was done first                      *)
(***************************************************************************)
Kinds == {"selection", "noTargets", "refused", "connection", "endorser",
          "additional", "invalid", "prepare", "timeout"}

Modes == {"query", "endorse", "invoke"}

ASSUME AttemptsIsNat == Attempts \in Nat
ASSUME RetryableKinds == Retryable \subseteq Kinds \ {"refused"}
ASSUME OneCallPerNamespace ==
  \A rw \in RWSets \ {Unparsable} :
    /\ DOMAIN rw \subseteq Nat \ {0}
    /\ \A j, k \in DOMAIN rw : rw[j].id = rw[k].id => j = k

(***************************************************************************)
(* An input: the handler that is run, the chaincode and the chain of the   *)
(* request, the target option, the peers the target filter accepts, and    *)
(* whether there are a proposal and a delegate transactor to send it with. *)
(***************************************************************************)
ASSUME InputsAreRequests ==
  \A in \in Inputs :
    /\ in.mode \in Modes
    /\ in.targets \subseteq Peers
    /\ in.accepts \subseteq Peers
    /\ in.ready \in BOOLEAN
    /\ DOMAIN in.chain \subseteq Nat \ {0}

VARIABLES
  caller,     \* where the caller is
  worker,     \* where the goroutine is
  input,      \* what the call was made with
  ctxDone,    \* the context of the request is done
  req,        \* the RequestContext: Opts.Targets, InvocationChain, Response, Error
  local,      \* the locals of the running Handle
  retries,    \* how many retries there were
  complete,   \* the channel of capacity 1 holds the signal
  result,     \* what the call returned
  greylist,   \* the URLs whose peers the client's greylist does not accept
  avoid       \* auxiliary: the URLs a call greylisted that did not expire yet

callVars == <<caller, input, ctxDone, complete, result>>
workVars == <<worker, req, local, retries>>
vars == <<callVars, workVars, greylist, avoid>>

-------------------------------------------------------------------------------
NoError == [kinds |-> {}, failed |-> {}, unreached |-> {}, attempt |-> 0]
NoResponse == [from |-> {}, rwset |-> Unparsable, attempt |-> 0]
NoResult == [resp |-> NoResponse, err |-> NoError]

\* The error of an attempt, and with it the peers that failed in it and those
\* of them that could not be reached.
ErrorOf(c, kinds, failed, unreached) ==
  [kinds |-> kinds, failed |-> failed, unreached |-> unreached,
   attempt |-> retries[c] + 1]
Plain(c, kind) == ErrorOf(c, {kind}, {}, {})

MSPsOf(S) == {MSPID[p] : p \in S}
URLsOf(S) == {URL[p] : p \in S}

Satisfied(item, msps) == \E S \in Policy[item] : S \subseteq msps
CallSatisfied(call, msps) ==
  \A item \in {call.id} \cup call.colls : Satisfied(item, msps)

\* What GetEndorsersForChaincode may answer: peers that the filter accepts and
\* whose MSPs satisfy the policies of all calls of the chain.
Accepted(c) == {p \in input[c].accepts : URL[p] \notin greylist}
Endorsers(c, chain) ==
  {S \in SUBSET Accepted(c) : \A k \in DOMAIN chain : CallSatisfied(chain[k], MSPsOf(S))}

\* The peers that are sent to: one of each URL.
Contacted(S) ==
  {T \in SUBSET S : /\ URLsOf(T) = URLsOf(S)
                    /\ \A p, q \in T : URL[p] = URL[q] => p = q}

\* The errors one round to the peers of T can end with.
RoundErrors(T) ==
  {e \in [failed : SUBSET T, unreached : SUBSET T] :
     e.failed # {} /\ e.unreached \subseteq e.failed}

PeerErrorKinds(failed, unreached) ==
  (IF unreached # {} THEN {"connection"} ELSE {})
    \cup (IF failed # unreached THEN {"endorser"} ELSE {})

ChainOf(c) == NewInvocationChain(input[c].cc, req[c].chain)

\* New: a client starts with an empty greylist.
NewClient == greylist = {} /\ avoid = [c \in Calls |-> {}]

Init ==
  /\ NewClient
  /\ caller = [c \in Calls |-> "idle"]
  /\ worker = [c \in Calls |-> "none"]
  /\ input \in [Calls -> Inputs]
  /\ ctxDone = [c \in Calls |-> FALSE]
  /\ req = [c \in Calls |-> [targets |-> {}, chain |-> EmptyChain,
                             resp |-> NoResponse, err |-> NoError]]
  /\ local = [c \in Calls |-> [selected |-> FALSE, chain |-> EmptyChain,
                               warned |-> FALSE]]
  /\ retries = [c \in Calls |-> 0]
  /\ complete = [c \in Calls |-> FALSE]
  /\ result = [c \in Calls |-> NoResult]

Step(c, to) == worker' = [worker EXCEPT ![c] = to]

\* "Reset context parameters"
ResetRequest(c, targets, resp) ==
  /\ req' = [req EXCEPT ![c].targets = targets, ![c].err = NoError, ![c].resp = resp]
  /\ Step(c, "start")
  /\ UNCHANGED <<callVars, local, retries>>

\* The URLs of grey are greylisted and the request context is reset.
Reset(c, grey, targets, resp) ==
  /\ worker[c] = "reset"
  /\ greylist' = greylist \cup grey
  /\ avoid' = [avoid EXCEPT ![c] = @ \cup grey]
  /\ ResetRequest(c, targets, resp)

-------------------------------------------------------------------------------
(* Slips in this code, each of which a property below must notice.           *)

\* The response of the attempt before stays in the request context.
BeforeRetryKeepingResponse(c) ==
  Reset(c, URLsOf(req[c].err.unreached), input[c].targets, req[c].resp)

\* Opts.Targets is cleared, not set back to the target option.
BeforeRetryDroppingTargets(c) == Reset(c, URLsOf(req[c].err.unreached), {}, NoResponse)

\* Opts.Targets is left as the attempt before selected it.
BeforeRetryKeepingTargets(c) ==
  Reset(c, URLsOf(req[c].err.unreached), req[c].targets, NoResponse)

\* The greylist is made anew for each failure.
BeforeRetryForgettingOthers(c) ==
  /\ worker[c] = "reset"
  /\ greylist' = URLsOf(req[c].err.unreached)
  /\ avoid' = [avoid EXCEPT ![c] = @ \cup URLsOf(req[c].err.unreached)]
  /\ ResetRequest(c, input[c].targets, NoResponse)

\* One attempt more than the retry options allow.
WantsRetryOnceMore(c) ==
  /\ req[c].err.kinds \cap Retryable # {}
  /\ retries[c] <= Attempts

\* Every error is retried.
WantsRetryOfAny(c) ==
  /\ req[c].err.kinds # {}
  /\ retries[c] < Attempts

\* The context is looked at only after the signal came.
GiveUpAfterSignal(c) ==
  /\ caller[c] = "waiting"
  /\ complete[c]
  /\ ctxDone[c]
  /\ caller' = [caller EXCEPT ![c] = "returned"]
  /\ result' = [result EXCEPT ![c].err.kinds = {"timeout"}]
  /\ UNCHANGED <<workVars, ctxDone, input, complete, greylist, avoid>>

\* The channel has no capacity: the signal waits for the caller to take it.
SignalUnbuffered(c) ==
  /\ worker[c] = "judge"
  /\ ~ (req[c].err.kinds \cap Retryable # {} /\ retries[c] < Attempts)
  /\ caller[c] = "waiting"
  /\ complete' = [complete EXCEPT ![c] = TRUE]
  /\ Step(c, "done")
  /\ UNCHANGED <<caller, input, ctxDone, result, req, local, retries, greylist, avoid>>

-------------------------------------------------------------------------------
(* The caller.                                                               *)

Return(c, resp, err) ==
  /\ caller' = [caller EXCEPT ![c] = "returned"]
  /\ result' = [result EXCEPT ![c] = [resp |-> resp, err |-> err]]
  /\ ctxDone' = [ctxDone EXCEPT ![c] = TRUE]      \* defer cancel()

\* An option, the transactor, the selection or the discovery service fails, or
\* the request names no chaincode.
FailToPrepare(c) ==
  /\ caller[c] = "idle"
  /\ Return(c, NoResponse, [NoError EXCEPT !.kinds = {"prepare"}])
  /\ UNCHANGED <<workVars, input, complete, greylist, avoid>>

Start(c) ==
  /\ caller[c] = "idle"
  /\ caller' = [caller EXCEPT ![c] = "waiting"]
  /\ worker' = [worker EXCEPT ![c] = "start"]
  /\ req' = [req EXCEPT ![c] = [targets |-> input[c].targets, chain |-> input[c].chain,
                                resp |-> NoResponse, err |-> NoError]]
  /\ UNCHANGED <<input, ctxDone, local, retries, complete, result, greylist, avoid>>

\* case <-complete
TakeResult(c) ==
  /\ caller[c] = "waiting"
  /\ complete[c]
  /\ complete' = [complete EXCEPT ![c] = FALSE]
  /\ Return(c, req[c].resp, req[c].err)
  /\ UNCHANGED <<workVars, input, greylist, avoid>>

\* case <-reqCtx.Done()
GiveUp(c) ==
  /\ caller[c] = "waiting"
  /\ ctxDone[c]
  /\ Return(c, NoResponse, [NoError EXCEPT !.kinds = {"timeout"}])
  /\ UNCHANGED <<workVars, input, complete, greylist, avoid>>

\* The Execute timeout runs out, or the parent context is done.
ContextDone(c) ==
  /\ caller[c] = "waiting"
  /\ ~ ctxDone[c]
  /\ ctxDone' = [ctxDone EXCEPT ![c] = TRUE]
  /\ UNCHANGED <<caller, input, complete, result, workVars, greylist, avoid>>

-------------------------------------------------------------------------------
(* The goroutine.  Each action ends one step of Handle, or of the invoker.   *)

Fail(c, err) ==
  /\ req' = [req EXCEPT ![c].err = err]
  /\ Step(c, "judge")
  /\ UNCHANGED <<local, retries>>

\* Handle: the targets of the request, or else the endorsers of its chain.
UseTargets(c) ==
  /\ worker[c] = "start"
  /\ req[c].targets # {}
  /\ local' = [local EXCEPT ![c] = [selected |-> FALSE, chain |-> EmptyChain,
                                    warned |-> FALSE]]
  /\ Step(c, "send")
  /\ UNCHANGED <<callVars, req, retries, greylist, avoid>>

SelectTargets(c) ==
  /\ worker[c] = "start"
  /\ req[c].targets = {}
  /\ \/ \E S \in Endorsers(c, ChainOf(c)) :
          /\ req' = [req EXCEPT ![c].targets = S]
          /\ local' = [local EXCEPT ![c] = [selected |-> TRUE, chain |-> ChainOf(c),
                                            warned |-> FALSE]]
          /\ Step(c, "send")
          /\ UNCHANGED retries
     \/ Fail(c, Plain(c, "selection"))
  /\ UNCHANGED <<callVars, greylist, avoid>>

CanSend(c) == input[c].ready /\ req[c].targets # {}

\* The query handler looks at its targets before anything else.
QueryNobody(c) ==
  /\ worker[c] = "send"
  /\ input[c].mode = "query"
  /\ req[c].targets = {}
  /\ Fail(c, Plain(c, "noTargets"))
  /\ UNCHANGED <<callVars, greylist, avoid>>

\* The checks before the first round, and those of SendSignedProposal.
RefuseToSend(c) ==
  /\ worker[c] = "send"
  /\ ~ CanSend(c)
  /\ input[c].mode = "query" => req[c].targets # {}
  /\ Fail(c, Plain(c, "refused"))
  /\ UNCHANGED <<callVars, greylist, avoid>>

\* The first round: all peers answered.
Responded(c, to) ==
  /\ worker[c] = "send"
  /\ CanSend(c)
  /\ \E T \in Contacted(req[c].targets), rw \in RWSets :
       req' = [req EXCEPT ![c].resp = [from |-> T, rwset |-> rw, attempt |-> retries[c] + 1]]
  /\ Step(c, to)
  /\ UNCHANGED <<callVars, local, retries, greylist, avoid>>

QueryResponded(c) == input[c].mode = "query" /\ Responded(c, "next")

\* The select-and-endorse handler, and only if it chose the peers, looks for
\* additional endorsers.
Endorsed(c) ==
  input[c].mode # "query" /\ Responded(c, IF local[c].selected THEN "extra" ELSE "next")

\* The first round: one peer or more failed.
NotEndorsed(c) ==
  /\ worker[c] = "send"
  /\ CanSend(c)
  /\ \E T \in Contacted(req[c].targets) : \E e \in RoundErrors(T) :
       Fail(c, ErrorOf(c, PeerErrorKinds(e.failed, e.unreached), e.failed, e.unreached))
  /\ UNCHANGED <<callVars, greylist, avoid>>

-------------------------------------------------------------------------------
(* getAdditionalEndorsers, for the read-write set of the first response.     *)

\* The selected peers whose MSP has not been asked yet.
Additional(S, asked) == {p \in S : MSPID[p] \notin asked}

Warn(c) ==
  /\ local' = [local EXCEPT ![c].warned = TRUE]
  /\ Step(c, "next")

RWSetUnreadable(c) ==
  /\ worker[c] = "extra"
  /\ req[c].resp.rwset = Unparsable
  /\ Warn(c)
  /\ UNCHANGED <<callVars, req, retries, greylist, avoid>>

NothingAdditional(c) ==
  /\ worker[c] = "extra"
  /\ req[c].resp.rwset # Unparsable
  /\ ~ FoundAdditional(local[c].chain, req[c].resp.rwset, FilteredOut)
  /\ Step(c, "next")
  /\ UNCHANGED <<callVars, req, local, retries, greylist, avoid>>

\* The chain of the request becomes the merged one, whether or not endorsers
\* are found for it; then the endorsers of MSPs not asked yet are asked too.
SelectAdditional(c) ==
  /\ worker[c] = "extra"
  /\ req[c].resp.rwset # Unparsable
  /\ FoundAdditional(local[c].chain, req[c].resp.rwset, FilteredOut)
  /\ LET merged == MergeInvocationChains(local[c].chain, req[c].resp.rwset, FilteredOut)
         asked == MSPsOf(req[c].targets)
     IN \/ /\ req' = [req EXCEPT ![c].chain = merged]
           /\ Warn(c)
        \/ \E S \in Endorsers(c, NewInvocationChain(input[c].cc, merged)) :
             LET additional == Additional(S, asked)
             IN /\ req' = [req EXCEPT
                     ![c].chain = merged,
                     ![c].targets = IF additional = {} THEN @ ELSE additional]
                /\ Step(c, IF additional = {} THEN "next" ELSE "sendExtra")
                /\ UNCHANGED local
  /\ UNCHANGED <<callVars, retries, greylist, avoid>>

EndorsedAgain(c) ==
  /\ worker[c] = "sendExtra"
  /\ \E T \in Contacted(req[c].targets) :
       req' = [req EXCEPT ![c].resp.from = @ \cup T]
  /\ Step(c, "next")
  /\ UNCHANGED <<callVars, local, retries, greylist, avoid>>

NotEndorsedAgain(c) ==
  /\ worker[c] = "sendExtra"
  /\ \E T \in Contacted(req[c].targets) : \E e \in RoundErrors(T) :
       Fail(c, ErrorOf(c, {"additional"}, e.failed, e.unreached))
  /\ UNCHANGED <<callVars, greylist, avoid>>

\* The handlers after the endorsement: validation of the endorsements and of
\* their signatures for queries and invocations, none for a mere endorsement.
Validates(c) == input[c].mode # "endorse"

HandleNext(c) ==
  /\ worker[c] = "next"
  /\ \/ /\ Step(c, "judge")
        /\ UNCHANGED <<req, local, retries>>
     \/ /\ Validates(c)
        /\ Fail(c, Plain(c, "invalid"))
  /\ UNCHANGED <<callVars, greylist, avoid>>

-------------------------------------------------------------------------------
(* The invoker.                                                              *)

WantsRetry(c) ==
  /\ req[c].err.kinds \cap Retryable # {}
  /\ retries[c] < Attempts

Retry(c) ==
  /\ worker[c] = "judge"
  /\ WantsRetry(c)
  /\ retries' = [retries EXCEPT ![c] = @ + 1]
  /\ Step(c, "reset")
  /\ UNCHANGED <<callVars, req, local, greylist, avoid>>

\* The BeforeRetry function, after the backoff: the URL that could not be
\* reached is greylisted, and the request context is reset.  Of several errors,
\* or of a wrapped one, the greylist may see as many as it can make out.
BeforeRetry(c) ==
  \E grey \in SUBSET URLsOf(req[c].err.unreached) :
    /\ (req[c].err.failed = req[c].err.unreached /\ "additional" \notin req[c].err.kinds
          /\ \A p, q \in req[c].err.failed : p = q)
       => grey = URLsOf(req[c].err.unreached)
    /\ Reset(c, grey, input[c].targets, NoResponse)

\* complete <- true: the channel has room for the signal.
Signal(c) ==
  /\ worker[c] = "judge"
  /\ ~ WantsRetry(c)
  /\ complete' = [complete EXCEPT ![c] = TRUE]
  /\ Step(c, "done")
  /\ UNCHANGED <<caller, input, ctxDone, result, req, local, retries, greylist, avoid>>

\* DiscoveryGreylistExpiry has passed for a URL.
GreylistExpiry(url) ==
  /\ url \in greylist
  /\ greylist' = greylist \ {url}
  /\ avoid' = [c \in Calls |-> avoid[c] \ {url}]
  /\ UNCHANGED <<callVars, workVars>>

-------------------------------------------------------------------------------
Caller(c) ==
  FailToPrepare(c) \/ Start(c) \/ TakeResult(c) \/ GiveUp(c) \/ ContextDone(c)

Handler(c) ==
  \/ UseTargets(c) \/ SelectTargets(c)
  \/ QueryNobody(c) \/ RefuseToSend(c)
  \/ QueryResponded(c) \/ Endorsed(c) \/ NotEndorsed(c)
  \/ RWSetUnreadable(c) \/ NothingAdditional(c) \/ SelectAdditional(c)
  \/ EndorsedAgain(c) \/ NotEndorsedAgain(c)
  \/ HandleNext(c)

Invoker(c) == Retry(c) \/ BeforeRetry(c) \/ Signal(c)

Next ==
  \/ \E c \in Calls : Caller(c) \/ Handler(c) \/ Invoker(c)
  \/ \E url \in URLsOf(Peers) : GreylistExpiry(url)

Spec == Init /\ [][Next]_vars

\* The Execute timeout makes the context of every request end, and a select with
\* a ready case is taken.  Nothing is assumed of the goroutine: a peer that never
\* answers must not keep the caller.
CallerFairSpec ==
  Spec /\ \A c \in Calls : WF_vars(TakeResult(c) \/ GiveUp(c) \/ ContextDone(c))

\* The goroutine of a call runs on by itself: each round ends with the
\* PeerResponse timeout and each backoff is a sleep.  Nothing is assumed of the
\* caller, which may long be gone.
GoroutineFairSpec ==
  Spec /\ \A c \in Calls : WF_vars(Handler(c) \/ Invoker(c))

-------------------------------------------------------------------------------
(* Properties.                                                               *)

\* The variables have their types, and there are at most Attempts retries (the
\* retry handler of chclient.go:571).
TypeOK ==
  /\ caller \in [Calls -> {"idle", "waiting", "returned"}]
  /\ worker \in [Calls -> {"none", "start", "send", "extra", "sendExtra", "next",
                           "judge", "reset", "done"}]
  /\ input \in [Calls -> Inputs]
  /\ ctxDone \in [Calls -> BOOLEAN]
  /\ retries \in [Calls -> 0..Attempts]
  /\ complete \in [Calls -> BOOLEAN]
  /\ greylist \subseteq URLsOf(Peers)
  /\ avoid \in [Calls -> SUBSET greylist]
  /\ \A c \in Calls :
       /\ req[c].targets \subseteq Peers
       /\ req[c].resp.from \subseteq Peers
       /\ req[c].resp.rwset \in RWSets \cup {Unparsable}
       /\ req[c].err.kinds \subseteq Kinds
       /\ req[c].err.unreached \subseteq Peers
       /\ local[c].selected \in BOOLEAN
       /\ local[c].warned \in BOOLEAN

\* The call returned what its goroutine left in the request context.
Served(c) ==
  /\ caller[c] = "returned"
  /\ result[c].err.kinds \cap {"prepare", "timeout"} = {}

\* A caller that is served gets the outcome of the last attempt and of no other:
\* neither responses nor an error of an attempt that was retried, and nothing
\* of a request the goroutine still works on (chclient.go:284-303).
ResultOfLastAttempt ==
  \A c \in Calls : Served(c) =>
    LET resp == result[c].resp
        err == result[c].err
    IN /\ worker[c] = "done"
       /\ resp # NoResponse => resp.attempt = retries[c] + 1
       /\ err # NoError => err.attempt = retries[c] + 1
       /\ resp # NoResponse \/ err # NoError

\* A call that named no targets is served without an error, the additional
\* endorsers having been determined: where they could not be, the code goes on
\* with what it has.
ServedAsSelected(c) ==
  /\ Served(c)
  /\ result[c].err = NoError
  /\ input[c].mode # "query"
  /\ input[c].targets = {}
  /\ ~ local[c].warned

\* The peers the request could choose from at these URLs.
ChoiceAt(c, urls) == {p \in input[c].accepts : URL[p] \in urls}

\* A selected set of endorsers is enough: the policies of all chaincodes and
\* collections that the first response's read-write set touches, those found in
\* it only then included, are satisfied by the peers at the URLs that endorsed.
\* One of the peers at a URL signs for all of them: of targets with one URL only
\* one is sent to, but an MSP counts as asked if any target is of it
\* (selectendorsehandler.go:39-74, txnhandler.go:123-188, proposal.go:67-76).
PolicyCovered ==
  \A c \in Calls : ServedAsSelected(c) =>
    LET resp == result[c].resp
    IN \A k \in Passing(resp.rwset, FilteredOut) :
         CallSatisfied(resp.rwset[k], MSPsOf(ChoiceAt(c, URLsOf(resp.from))))

\* The same of the peers that endorsed themselves: so where no two MSPs share a
\* URL, and not in general (DelegateInvoke_proofs.tla).
EndorsersSuffice ==
  \A c \in Calls : ServedAsSelected(c) =>
    LET resp == result[c].resp
    IN \A k \in Passing(resp.rwset, FilteredOut) :
         CallSatisfied(resp.rwset[k], MSPsOf(resp.from))

\* Targets given as an option are the only peers a request is sent to, in every
\* attempt (txnhandler.go:125-132 and 161, chclient.go:285).
OnlyGivenTargets ==
  \A c \in Calls : input[c].targets # {} =>
    /\ worker[c] # "none" => req[c].targets = input[c].targets
    /\ req[c].resp.from \subseteq input[c].targets

\* A URL that one attempt could not reach is not sent to in the next ones of the
\* call while it is greylisted, whatever other calls do to the greylist meanwhile,
\* unless the request named its targets (chclient.go:282-287 and 542-545).
GreylistedNotSelected ==
  \A c \in Calls :
    worker[c] \in {"send", "sendExtra"} /\ input[c].targets = {}
      => URLsOf(req[c].targets) \cap avoid[c] = {}

\* Every call that is made returns, even if its goroutine hangs for ever
\* (chclient.go:301-307).
CallerReturns == \A c \in Calls : caller[c] = "waiting" ~> caller[c] = "returned"

\* No goroutine is left behind, even if its caller has gone: the attempts are
\* bounded and the channel takes the signal (chclient.go:292-300).
GoroutineEnds == \A c \in Calls : worker[c] = "start" ~> worker[c] = "done"

\* "selects endorsers according to the policies of the chaincodes in the provided
\* invocation chain and then sends the proposal to those endorsers"
\* (txnhandler.go:103-104), in every attempt.
ProvidedChainHonoured ==
  \A c \in Calls :
    worker[c] = "send" /\ local[c].selected =>
      \A k \in DOMAIN input[c].chain :
        CallSatisfied(input[c].chain[k], MSPsOf(req[c].targets))

\* A call keeps the promises of RetriedRequest.tla: no attempt follows one that
\* succeeded or that must not be retried, their number is bounded, and the caller
\* is answered with the outcome of the last one, or without any
\* (chclient.go:271-307).
Outcome(err) ==
  CASE err.kinds = {} -> "success"
    [] err.kinds \cap Retryable # {} -> "transient"
    [] OTHER -> "failure"

Judged(c) == worker[c] \in {"judge", "done"}

MadeAttempts == [c \in Calls |-> IF Judged(c) THEN retries[c] + 1 ELSE retries[c]]
LastOutcome ==
  [c \in Calls |-> CASE Judged(c) -> Outcome(req[c].err)
                    [] ~ Judged(c) /\ retries[c] = 0 -> "none"
                    [] OTHER -> "transient"]
GivenAnswer ==
  [c \in Calls |-> CASE caller[c] # "returned" -> "none"
                    [] Served(c) -> Outcome(result[c].err)
                    [] OTHER -> "unknown"]

Promise ==
  INSTANCE RetriedRequest WITH Requests <- Calls, Attempts <- Attempts,
    made <- MadeAttempts, outcome <- LastOutcome, answer <- GivenAnswer

ImplementsRetriedRequest == Promise!Spec
===============================================================================
