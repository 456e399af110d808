------------------------ MODULE DelegateInvoke_proofs ------------------------
(***************************************************************************)
(* Proofs about DelegateInvoke, for every number of calls, peers, chains   *)
(* and policies.  The invariant is one of each call by itself (CallInv);   *)
(* all that calls have in common is the greylist (GreyInv).                *)
(***************************************************************************)
EXTENDS DelegateInvoke, InvocationChain_proofs

Stages == {"none", "start", "send", "extra", "sendExtra", "next", "judge", "reset", "done"}

Responses == [from : SUBSET Peers, rwset : RWSets \cup {Unparsable}, attempt : Nat]
ErrorRecords ==
  [kinds : SUBSET Kinds, failed : SUBSET Peers, unreached : SUBSET Peers, attempt : Nat]

Types ==
  /\ caller \in [Calls -> {"idle", "waiting", "returned"}]
  /\ worker \in [Calls -> Stages]
  /\ input \in [Calls -> Inputs]
  /\ ctxDone \in [Calls -> BOOLEAN]
  /\ retries \in [Calls -> 0..Attempts]
  /\ complete \in [Calls -> BOOLEAN]
  /\ req = [c \in Calls |-> req[c]]
  /\ local = [c \in Calls |-> local[c]]
  /\ result = [c \in Calls |-> result[c]]

\* A chain is of no set; that of a request context is one of itself.
RecordTypes(c) ==
  /\ req[c] \in [targets : SUBSET Peers, chain : {req[c].chain}, resp : Responses,
                 err : ErrorRecords]
  /\ local[c] \in [selected : BOOLEAN, chain : {local[c].chain}, warned : BOOLEAN]
  /\ DOMAIN req[c].chain \subseteq Nat
  /\ DOMAIN local[c].chain \subseteq Nat

\* Where the caller and its goroutine are, and what the caller was served.
Progress(c) ==
  /\ caller[c] = "idle" => worker[c] = "none"
  /\ caller[c] = "waiting" => worker[c] # "none"
  /\ complete[c] => worker[c] = "done"
  /\ worker[c] = "done" => ~ WantsRetry(c)
  /\ Served(c) => worker[c] = "done" /\ result[c] = [resp |-> req[c].resp, err |-> req[c].err]

\* What is left of the attempts.
Outcomes(c) ==
  LET resp == req[c].resp
      err == req[c].err
      this == retries[c] + 1
  IN /\ worker[c] \in {"none", "start", "send"} => resp = NoResponse
     /\ worker[c] \in {"none", "start", "send", "extra", "sendExtra", "next"} => err = NoError
     /\ worker[c] \in {"extra", "sendExtra", "next"} => resp.attempt = this
     /\ worker[c] \in {"judge", "done"} =>
          /\ resp = NoResponse \/ resp.attempt = this
          /\ err = NoError \/ err.attempt = this
          /\ resp.attempt = this \/ err.attempt = this
     /\ err.kinds \cap {"prepare", "timeout"} = {}

\* Whom the proposal is sent to, and who answered.
Targeted(c) ==
  /\ worker[c] = "start" => req[c].targets = input[c].targets
  /\ input[c].targets # {} =>
       /\ ~ local[c].selected
       /\ worker[c] # "none" => req[c].targets = input[c].targets
       /\ req[c].resp.from \subseteq input[c].targets
  /\ input[c].targets = {} /\ worker[c] \in {"send", "extra", "sendExtra", "next"} =>
       local[c].selected
  /\ worker[c] \in {"extra", "sendExtra"} => local[c].selected
  /\ worker[c] = "extra" => req[c].resp.from \in Contacted(req[c].targets)
  /\ input[c].targets = {} => req[c].targets \subseteq input[c].accepts

\* The endorsements of MSPs satisfy the policies of all calls.
AllSatisfied(chain, msps) == \A k \in DOMAIN chain : CallSatisfied(chain[k], msps)
Covers(rwset, msps) ==
  \A k \in Passing(rwset, FilteredOut) : CallSatisfied(rwset[k], msps)

\* The MSPs that the endorsements of these URLs may be of.
MSPsAt(c, urls) == MSPsOf(ChoiceAt(c, urls))

Policies(c) ==
  LET asked == URLsOf(req[c].targets)
      answered == URLsOf(req[c].resp.from)
      rwset == req[c].resp.rwset
  IN input[c].targets = {} =>
       /\ worker[c] \in {"send", "extra"} =>
            AllSatisfied(local[c].chain, MSPsOf(req[c].targets))
       /\ worker[c] = "sendExtra" => Covers(rwset, MSPsAt(c, answered \cup asked))
       /\ /\ worker[c] \in {"next", "judge", "done"}
          /\ req[c].err = NoError /\ input[c].mode # "query" /\ ~ local[c].warned
          => Covers(rwset, MSPsAt(c, answered))

CallInv(c) == RecordTypes(c) /\ Progress(c) /\ Outcomes(c) /\ Targeted(c) /\ Policies(c)

GreyInv ==
  /\ greylist \subseteq URLsOf(Peers)
  /\ avoid \in [Calls -> SUBSET greylist]
  /\ GreylistedNotSelected

IInv == Types /\ (\A c \in Calls : CallInv(c)) /\ GreyInv

-------------------------------------------------------------------------------
(* Lemmas about peers and policies.                                          *)

LEMMA ContactedURLs ==
  ASSUME NEW S, NEW T \in Contacted(S)
  PROVE  T \subseteq S /\ URLsOf(T) = URLsOf(S)
BY DEF Contacted

\* The MSPs of peers that were chosen are among those at their URLs.
LEMMA ChosenMSPs ==
  ASSUME NEW c, NEW S \in SUBSET input[c].accepts, NEW urls, URLsOf(S) \subseteq urls
  PROVE  MSPsOf(S) \subseteq MSPsAt(c, urls)
BY DEF MSPsAt, ChoiceAt, MSPsOf, URLsOf

LEMMA SatisfiedByMore ==
  ASSUME NEW big, NEW call, NEW msps, NEW more,
         CallSatisfied(big, msps), msps \subseteq more,
         big.id = call.id, call.colls \subseteq big.colls
  PROVE  CallSatisfied(call, more)
BY DEF CallSatisfied, Satisfied

LEMMA CoversMore ==
  ASSUME NEW rwset, NEW msps, NEW more, Covers(rwset, msps), msps \subseteq more
  PROVE  Covers(rwset, more)
BY SatisfiedByMore DEF Covers

\* If there is nothing additional, what satisfied the chain covers the response.
LEMMA NothingCovers ==
  ASSUME NEW chain, NEW rwset, NEW msps, DOMAIN chain \subseteq Nat,
         AllSatisfied(chain, msps), ~ FoundAdditional(chain, rwset, FilteredOut)
  PROVE  Covers(rwset, msps)
BY NothingFound, SatisfiedByMore DEF Covers, AllSatisfied, Includes

\* What satisfies the merged chain covers the response.
LEMMA MergedCovers ==
  ASSUME NEW cc, NEW chain, NEW rwset \in RWSets \ {Unparsable}, NEW msps,
         AllSatisfied(
           NewInvocationChain(cc, MergeInvocationChains(chain, rwset, FilteredOut)), msps)
  PROVE  Covers(rwset, msps)
<1>1. DOMAIN rwset \subseteq Nat \ {0} /\ OncePerID(rwset)
  BY OneCallPerNamespace DEF OncePerID
<1>2. \A k \in Passing(rwset, FilteredOut) :
        Includes(NewInvocationChain(cc, MergeInvocationChains(chain, rwset, FilteredOut)), rwset[k])
  BY <1>1, MergedIncludes
<1> QED BY <1>2, SatisfiedByMore DEF Covers, AllSatisfied, Includes

LEMMA MergedPositions ==
  ASSUME NEW chain, NEW rwset \in RWSets \ {Unparsable}
  PROVE  DOMAIN MergeInvocationChains(chain, rwset, FilteredOut) \subseteq Nat
BY OneCallPerNamespace DEF MergeInvocationChains, Passing

LEMMA InitIInv == Init => IInv
<1> SUFFICES ASSUME Init PROVE IInv
  OBVIOUS
<1>1. Types
  BY AttemptsIsNat DEF Init, Types, Stages, NoError, NoResponse, NoResult
<1>2. ASSUME NEW c \in Calls PROVE CallInv(c)
  <2>1. /\ req[c] = [targets |-> {}, chain |-> EmptyChain, resp |-> NoResponse, err |-> NoError]
        /\ local[c] = [selected |-> FALSE, chain |-> EmptyChain, warned |-> FALSE]
        /\ caller[c] = "idle" /\ worker[c] = "none" /\ complete[c] = FALSE
    BY DEF Init
  <2>2. DOMAIN EmptyChain = {}
    BY DEF EmptyChain
  <2>3. RecordTypes(c)
    BY <2>1, <2>2 DEF RecordTypes, NoResponse, NoError, Responses, ErrorRecords
  <2>4. Progress(c) /\ Outcomes(c)
    BY <2>1 DEF Progress, Outcomes, Served, NoError
  <2>5. Targeted(c) /\ Policies(c)
    BY <2>1 DEF Targeted, Policies, NoResponse
  <2> QED BY <2>3, <2>4, <2>5 DEF CallInv
<1>3. GreyInv
  BY DEF Init, NewClient, GreyInv, GreylistedNotSelected
<1> QED BY <1>1, <1>2, <1>3 DEF IInv

-------------------------------------------------------------------------------
(* A step of one call leaves the others alone.                               *)

Same(d) ==
  /\ caller'[d] = caller[d] /\ complete'[d] = complete[d] /\ result'[d] = result[d]
  /\ worker'[d] = worker[d] /\ retries'[d] = retries[d]
  /\ req'[d] = req[d] /\ local'[d] = local[d]

LEMMA CallKept ==
  ASSUME NEW d \in Calls, input' = input, Same(d), CallInv(d)
  PROVE  CallInv(d)'
<1>1. RecordTypes(d)'
  BY DEF Same, CallInv, RecordTypes
<1>2. Progress(d)'
  BY DEF Same, CallInv, Progress, WantsRetry, Served
<1>3. Outcomes(d)'
  BY DEF Same, CallInv, Outcomes
<1>4. Targeted(d)'
  BY DEF Same, CallInv, Targeted
<1>5. Policies(d)'
  BY DEF Same, CallInv, Policies, MSPsAt, ChoiceAt
<1> QED BY <1>1, <1>2, <1>3, <1>4, <1>5 DEF CallInv

LEMMA StepOfCall ==
  ASSUME IInv, NEW c \in Calls, input' = input, Types', GreyInv', CallInv(c)',
         \A d \in Calls \ {c} : Same(d)
  PROVE  IInv'
<1>1. ASSUME NEW d \in Calls PROVE CallInv(d)'
  <2>1. CASE d = c
    BY <2>1
  <2>2. CASE d # c
    BY <2>2, CallKept DEF IInv
  <2> QED BY <2>1, <2>2
<1> QED BY <1>1 DEF IInv

\* The greylist stays, and the call selects nobody it avoids.
LEMMA GreyKept ==
  ASSUME IInv, NEW c \in Calls, input' = input, \A d \in Calls \ {c} : Same(d),
         UNCHANGED <<greylist, avoid>>,
         worker'[c] \in {"send", "sendExtra"} /\ input[c].targets = {}
           => URLsOf(req'[c].targets) \cap avoid[c] = {}
  PROVE  GreyInv'
BY DEF IInv, GreyInv, GreylistedNotSelected, Same, URLsOf

LEMMA Shape ==
  ASSUME IInv, NEW c \in Calls, Caller(c) \/ Handler(c) \/ Invoker(c)
  PROVE  input' = input /\ Types' /\ \A d \in Calls \ {c} : Same(d)
<1> USE DEF IInv, Types, Same, Stages, callVars, workVars
<1>1. CASE Caller(c)
  <2>1. CASE FailToPrepare(c)
    BY <2>1 DEF FailToPrepare, Return
  <2>2. CASE Start(c)
    BY <2>2 DEF Start
  <2>3. CASE TakeResult(c)
    BY <2>3 DEF TakeResult, Return
  <2>4. CASE GiveUp(c)
    BY <2>4 DEF GiveUp, Return
  <2>5. CASE ContextDone(c)
    BY <2>5 DEF ContextDone
  <2> QED BY <1>1, <2>1, <2>2, <2>3, <2>4, <2>5 DEF Caller
<1>2. CASE Handler(c)
  <2>1. CASE UseTargets(c)
    BY <2>1 DEF UseTargets, Step
  <2>2. CASE SelectTargets(c)
    BY <2>2 DEF SelectTargets, Step, Fail
  <2>3. CASE QueryNobody(c) \/ RefuseToSend(c) \/ NotEndorsed(c) \/ NotEndorsedAgain(c)
    BY <2>3 DEF QueryNobody, RefuseToSend, NotEndorsed, NotEndorsedAgain, Step, Fail
  <2>4. CASE QueryResponded(c) \/ Endorsed(c)
    BY <2>4 DEF QueryResponded, Endorsed, Responded, Step
  <2>5. CASE RWSetUnreadable(c) \/ NothingAdditional(c)
    BY <2>5 DEF RWSetUnreadable, NothingAdditional, Warn, Step
  <2>6. CASE SelectAdditional(c)
    BY <2>6 DEF SelectAdditional, Warn, Step
  <2>7. CASE EndorsedAgain(c)
    BY <2>7 DEF EndorsedAgain, Step
  <2>8. CASE HandleNext(c)
    BY <2>8 DEF HandleNext, Fail, Step
  <2> QED BY <1>2, <2>1, <2>2, <2>3, <2>4, <2>5, <2>6, <2>7, <2>8 DEF Handler
<1>3. CASE Invoker(c)
  <2>1. CASE Retry(c)
    BY <2>1, AttemptsIsNat DEF Retry, Step, WantsRetry
  <2>2. CASE BeforeRetry(c)
    BY <2>2 DEF BeforeRetry, Reset, ResetRequest, Step
  <2>3. CASE Signal(c)
    BY <2>3 DEF Signal, Step
  <2> QED BY <1>3, <2>1, <2>2, <2>3 DEF Invoker
<1> QED BY <1>1, <1>2, <1>3

\* While its goroutine runs, a call was served nothing.
LEMMA ProgressKept ==
  ASSUME IInv, NEW c \in Calls, UNCHANGED callVars,
         worker[c] \notin {"none", "done"}, worker'[c] \notin {"none", "done"}
  PROVE  Progress(c)'
BY DEF IInv, CallInv, Progress, Served, callVars

-------------------------------------------------------------------------------
(* What each action does to the call it is of.                               *)

\* A failure ends the attempt with an error of that attempt.
LEMMA FailKeeps ==
  ASSUME IInv, NEW c \in Calls, worker[c] \in {"start", "send", "sendExtra", "next"},
         UNCHANGED callVars, NEW err \in ErrorRecords, err.attempt = retries[c] + 1,
         err.kinds \cap {"prepare", "timeout"} = {}, Fail(c, err)
  PROVE  CallInv(c)'
<1>1. /\ worker'[c] = "judge" /\ local'[c] = local[c] /\ retries'[c] = retries[c]
      /\ req'[c] = [req[c] EXCEPT !.err = err] /\ input' = input
  BY DEF IInv, Types, Fail, Step, callVars
<1>2. RecordTypes(c) /\ Outcomes(c) /\ Targeted(c) /\ retries[c] \in Nat
  BY AttemptsIsNat DEF IInv, CallInv, Types
<1>3. /\ req'[c].targets = req[c].targets /\ req'[c].chain = req[c].chain
      /\ req'[c].resp = req[c].resp /\ req'[c].err = err
      /\ RecordTypes(c)'
  BY <1>1, <1>2 DEF RecordTypes
<1>4. Progress(c)'
  BY <1>1, ProgressKept
<1>5. err # NoError
  BY <1>2 DEF NoError
<1>6. Outcomes(c)'
  BY <1>1, <1>2, <1>3 DEF Outcomes
<1>7. Targeted(c)'
  BY <1>1, <1>2, <1>3 DEF Targeted
<1>8. Policies(c)'
  BY <1>1, <1>3, <1>5 DEF Policies
<1> QED BY <1>3, <1>4, <1>6, <1>7, <1>8 DEF CallInv

LEMMA PlainError ==
  ASSUME IInv, NEW c \in Calls, NEW kind \in Kinds \ {"prepare", "timeout"}
  PROVE  /\ Plain(c, kind) \in ErrorRecords /\ Plain(c, kind).attempt = retries[c] + 1
         /\ Plain(c, kind).kinds \cap {"prepare", "timeout"} = {}
BY AttemptsIsNat DEF IInv, Types, Plain, ErrorOf, ErrorRecords

LEMMA RoundError ==
  ASSUME IInv, NEW c \in Calls, NEW T \in SUBSET Peers, NEW e \in RoundErrors(T),
         NEW kinds \in SUBSET {"connection", "endorser", "additional"}
  PROVE  /\ ErrorOf(c, kinds, e.failed, e.unreached) \in ErrorRecords
         /\ ErrorOf(c, kinds, e.failed, e.unreached).attempt = retries[c] + 1
         /\ ErrorOf(c, kinds, e.failed, e.unreached).kinds \cap {"prepare", "timeout"} = {}
<1>1. e.failed \subseteq T /\ e.unreached \subseteq T
  BY DEF RoundErrors
<1> QED BY <1>1, AttemptsIsNat DEF IInv, Types, ErrorOf, ErrorRecords, Kinds

LEMMA FailingKeeps ==
  ASSUME IInv, NEW c \in Calls,
         QueryNobody(c) \/ RefuseToSend(c) \/ NotEndorsed(c) \/ NotEndorsedAgain(c)
  PROVE  CallInv(c)'
<1>1. req[c].targets \subseteq Peers
  BY DEF IInv, CallInv, RecordTypes
<1>2. CASE QueryNobody(c)
  BY <1>2, FailKeeps, PlainError DEF QueryNobody, Kinds
<1>3. CASE RefuseToSend(c)
  BY <1>3, FailKeeps, PlainError DEF RefuseToSend, Kinds
<1>4. CASE NotEndorsed(c)
  <2>0. PICK T \in Contacted(req[c].targets) : \E e \in RoundErrors(T) :
          Fail(c, ErrorOf(c, PeerErrorKinds(e.failed, e.unreached), e.failed, e.unreached))
    BY <1>4 DEF NotEndorsed
  <2>1. PICK e \in RoundErrors(T) :
          Fail(c, ErrorOf(c, PeerErrorKinds(e.failed, e.unreached), e.failed, e.unreached))
    BY <2>0
  <2>2. T \in SUBSET Peers
    BY <1>1, ContactedURLs
  <2>3. PeerErrorKinds(e.failed, e.unreached) \in SUBSET {"connection", "endorser", "additional"}
    BY DEF PeerErrorKinds
  <2>4. worker[c] = "send" /\ UNCHANGED callVars
    BY <1>4 DEF NotEndorsed
  <2> QED BY <2>1, <2>2, <2>3, <2>4, RoundError, FailKeeps
<1>5. CASE NotEndorsedAgain(c)
  <2>0. PICK T \in Contacted(req[c].targets) : \E e \in RoundErrors(T) :
          Fail(c, ErrorOf(c, {"additional"}, e.failed, e.unreached))
    BY <1>5 DEF NotEndorsedAgain
  <2>1. PICK e \in RoundErrors(T) :
          Fail(c, ErrorOf(c, {"additional"}, e.failed, e.unreached))
    BY <2>0
  <2>2. T \in SUBSET Peers
    BY <1>1, ContactedURLs
  <2>4. worker[c] = "sendExtra" /\ UNCHANGED callVars
    BY <1>5 DEF NotEndorsedAgain
  <2> QED BY <2>1, <2>2, <2>4, RoundError, FailKeeps
<1> QED BY <1>2, <1>3, <1>4, <1>5

LEMMA HandleNextKeeps ==
  ASSUME IInv, NEW c \in Calls, HandleNext(c)
  PROVE  CallInv(c)'
<1>0. worker[c] = "next" /\ UNCHANGED callVars
  BY DEF HandleNext
<1>1. CASE Fail(c, Plain(c, "invalid"))
  BY <1>0, <1>1, FailKeeps, PlainError DEF Kinds
<1>2. CASE Step(c, "judge") /\ UNCHANGED <<req, local, retries>>
  <2>1. worker'[c] = "judge" /\ input' = input /\ UNCHANGED <<req, local, retries>>
    BY <1>0, <1>2 DEF Step, IInv, Types, callVars
  <2>2. Progress(c)'
    BY <1>0, <2>1, ProgressKept
  <2>3. CallInv(c)
    BY DEF IInv
  <2>4. RecordTypes(c)' /\ Outcomes(c)' /\ Targeted(c)'
    BY <1>0, <2>1, <2>3 DEF CallInv, RecordTypes, Outcomes, Targeted
  <2>5. Policies(c)'
    BY <1>0, <2>1, <2>3 DEF CallInv, Policies, MSPsAt, ChoiceAt
  <2> QED BY <2>2, <2>4, <2>5 DEF CallInv
<1> QED BY <1>1, <1>2 DEF HandleNext

\* The steps of the caller leave those of the goroutine as they are.
LEMMA CallerKeeps ==
  ASSUME IInv, NEW c \in Calls,
         FailToPrepare(c) \/ TakeResult(c) \/ GiveUp(c) \/ ContextDone(c)
  PROVE  CallInv(c)'
<1>0. CallInv(c) /\ UNCHANGED <<worker, req, local, retries, input>>
  BY DEF IInv, FailToPrepare, TakeResult, GiveUp, ContextDone, workVars
<1>1 RecordTypes(c)' /\ Outcomes(c)' /\ Targeted(c)'
  BY <1>0 DEF CallInv, RecordTypes, Outcomes, Targeted
<1>2. Policies(c)'
  BY <1>0 DEF CallInv, Policies, MSPsAt, ChoiceAt
<1>3. Progress(c)'
  <2>1. CASE FailToPrepare(c) \/ GiveUp(c)
    <3>0. PICK err \in {[NoError EXCEPT !.kinds = {"prepare"}],
                       [NoError EXCEPT !.kinds = {"timeout"}]} :
            Return(c, NoResponse, err) /\ complete' = complete
      BY <2>1 DEF FailToPrepare, GiveUp
    <3>1. /\ caller'[c] = "returned" /\ complete' = complete
          /\ result'[c].err = err
      BY <3>0 DEF Return, IInv, Types
    <3>2. ~ Served(c)'
      BY <3>1 DEF Served, NoError
    <3> QED BY <1>0, <3>1, <3>2 DEF CallInv, Progress, WantsRetry
  <2>2. CASE TakeResult(c)
    BY <1>0, <2>2 DEF TakeResult, Return, IInv, Types, CallInv, Progress, WantsRetry, Served
  <2>3. CASE ContextDone(c)
    BY <1>0, <2>3 DEF ContextDone, IInv, Types, CallInv, Progress, WantsRetry, Served
  <2> QED BY <2>1, <2>2, <2>3
<1> QED BY <1>1, <1>2, <1>3 DEF CallInv

LEMMA StartKeeps ==
  ASSUME IInv, NEW c \in Calls, Start(c)
  PROVE  CallInv(c)'
<1> DEFINE new == [targets |-> input[c].targets, chain |-> input[c].chain,
                   resp |-> NoResponse, err |-> NoError]
<1>0. CallInv(c) /\ caller[c] = "idle"
  BY DEF IInv, Start
<1>1. /\ worker'[c] = "start" /\ caller'[c] = "waiting" /\ req'[c] = new
      /\ UNCHANGED <<local, retries, input, complete, result>>
  BY DEF Start, IInv, Types
<1>2. input[c].targets \subseteq Peers /\ DOMAIN input[c].chain \subseteq Nat
  BY InputsAreRequests DEF IInv, Types
<1>3. RecordTypes(c)'
  BY <1>0, <1>1, <1>2 DEF CallInv, RecordTypes, NoResponse, NoError, Responses, ErrorRecords
<1>4. Progress(c)'
  BY <1>0, <1>1 DEF CallInv, Progress, Served
<1>5. Outcomes(c)'
  BY <1>1 DEF Outcomes, NoError
<1>6. Targeted(c)' /\ Policies(c)'
  BY <1>0, <1>1 DEF CallInv, Targeted, Policies, NoResponse
<1> QED BY <1>3, <1>4, <1>5, <1>6 DEF CallInv

LEMMA UseTargetsKeeps ==
  ASSUME IInv, NEW c \in Calls, UseTargets(c)
  PROVE  CallInv(c)'
<1>0. CallInv(c) /\ worker[c] = "start" /\ req[c].targets # {} /\ UNCHANGED callVars
  BY DEF IInv, UseTargets
<1>1. /\ worker'[c] = "send" /\ UNCHANGED <<req, retries, input>>
      /\ local'[c] = [selected |-> FALSE, chain |-> EmptyChain, warned |-> FALSE]
  BY DEF UseTargets, Step, IInv, Types, callVars
<1>2. DOMAIN EmptyChain = {}
  BY DEF EmptyChain
<1>3. RecordTypes(c)'
  BY <1>0, <1>1, <1>2 DEF CallInv, RecordTypes
<1>4. Progress(c)'
  BY <1>0, <1>1, ProgressKept
<1>5. input[c].targets # {}
  BY <1>0 DEF CallInv, Targeted
<1>6. Outcomes(c)' /\ Targeted(c)' /\ Policies(c)'
  BY <1>0, <1>1, <1>5 DEF CallInv, Outcomes, Targeted, Policies
<1> QED BY <1>3, <1>4, <1>6 DEF CallInv

LEMMA SelectTargetsKeeps ==
  ASSUME IInv, NEW c \in Calls, SelectTargets(c)
  PROVE  /\ CallInv(c)'
         /\ URLsOf(req'[c].targets) \cap avoid[c] = {} \/ worker'[c] = "judge"
<1>0. CallInv(c) /\ worker[c] = "start" /\ req[c].targets = {} /\ UNCHANGED callVars
  BY DEF IInv, SelectTargets
<1>1. CASE Fail(c, Plain(c, "selection"))
  BY <1>0, <1>1, FailKeeps, PlainError DEF Kinds, Fail, Step, IInv, Types
<1>2. ASSUME NEW S \in Endorsers(c, ChainOf(c)),
             req' = [req EXCEPT ![c].targets = S],
             local' = [local EXCEPT ![c] = [selected |-> TRUE, chain |-> ChainOf(c),
                                            warned |-> FALSE]],
             Step(c, "send"), UNCHANGED retries
      PROVE  CallInv(c)' /\ URLsOf(req'[c].targets) \cap avoid[c] = {}
  <2>1. /\ worker'[c] = "send" /\ UNCHANGED <<retries, input>>
        /\ req'[c] = [req[c] EXCEPT !.targets = S]
        /\ local'[c] = [selected |-> TRUE, chain |-> ChainOf(c), warned |-> FALSE]
    BY <1>0, <1>2 DEF Step, IInv, Types, callVars
  <2>2. input[c].accepts \subseteq Peers /\ input[c].targets = {}
    BY <1>0, InputsAreRequests DEF IInv, Types, CallInv, Targeted
  <2>3. /\ S \subseteq Peers /\ S \subseteq input[c].accepts /\ URLsOf(S) \cap greylist = {}
        /\ AllSatisfied(ChainOf(c), MSPsOf(S))
    BY <2>2 DEF Endorsers, Accepted, AllSatisfied, URLsOf
  <2>4. /\ req'[c].targets = S /\ req'[c].chain = req[c].chain
        /\ req'[c].resp = req[c].resp /\ req'[c].err = req[c].err
    BY <1>0, <2>1 DEF CallInv, RecordTypes
  <2>5. DOMAIN ChainOf(c) \subseteq Nat
    BY <1>0, NewChainPositions DEF ChainOf, CallInv, RecordTypes
  <2>6. RecordTypes(c)'
    BY <1>0, <2>1, <2>3, <2>4, <2>5 DEF CallInv, RecordTypes
  <2>7. Progress(c)'
    BY <1>0, <2>1, ProgressKept
  <2>8. Outcomes(c)' /\ Targeted(c)'
    BY <1>0, <2>1, <2>2, <2>3, <2>4 DEF CallInv, Outcomes, Targeted
  <2>9. Policies(c)'
    BY <2>1, <2>3, <2>4 DEF Policies
  <2>10. URLsOf(S) \cap avoid[c] = {}
    BY <2>3 DEF IInv, GreyInv
  <2> QED BY <2>4, <2>6, <2>7, <2>8, <2>9, <2>10 DEF CallInv
<1> QED BY <1>1, <1>2 DEF SelectTargets, Fail, Step, IInv, Types

LEMMA RespondedKeeps ==
  ASSUME IInv, NEW c \in Calls, QueryResponded(c) \/ Endorsed(c)
  PROVE  CallInv(c)' /\ worker'[c] \in {"extra", "next"}
<1>0. PICK to \in {"extra", "next"} :
        /\ Responded(c, to)
        /\ to = "extra" <=> input[c].mode # "query" /\ local[c].selected
  BY DEF QueryResponded, Endorsed
<1>1. CallInv(c) /\ worker[c] = "send" /\ UNCHANGED callVars
  BY <1>0 DEF IInv, Responded
<1>2. PICK T \in Contacted(req[c].targets), rw \in RWSets :
        req' = [req EXCEPT ![c].resp = [from |-> T, rwset |-> rw, attempt |-> retries[c] + 1]]
  BY <1>0 DEF Responded
<1>3. worker'[c] = to /\ UNCHANGED <<local, retries, input>>
  BY <1>0, <1>1 DEF Responded, Step, IInv, Types, callVars
<1>4. /\ req'[c].targets = req[c].targets /\ req'[c].chain = req[c].chain
      /\ req'[c].err = req[c].err
      /\ req'[c].resp = [from |-> T, rwset |-> rw, attempt |-> retries[c] + 1]
      /\ req'[c] = [req[c] EXCEPT !.resp = [from |-> T, rwset |-> rw, attempt |-> retries[c] + 1]]
  BY <1>1, <1>2 DEF CallInv, RecordTypes, IInv, Types
<1>5. req[c].targets \subseteq Peers /\ retries[c] \in Nat
  BY <1>1, AttemptsIsNat DEF CallInv, RecordTypes, IInv, Types
<1>6. T \subseteq req[c].targets
  BY ContactedURLs
<1>7. RecordTypes(c)'
  BY <1>1, <1>3, <1>4, <1>5, <1>6 DEF CallInv, RecordTypes, Responses
<1>8. Progress(c)'
  BY <1>1, <1>3, ProgressKept
<1>9. Outcomes(c)'
  BY <1>1, <1>3, <1>4, <1>5 DEF CallInv, Outcomes, NoResponse
<1>10. Targeted(c)'
  BY <1>0, <1>1, <1>3, <1>4, <1>6 DEF CallInv, Targeted
<1>11. Policies(c)'
  <2>1. input[c].targets = {} => local[c].selected
    BY <1>1 DEF CallInv, Targeted
  <2> QED BY <1>0, <1>1, <1>3, <1>4, <2>1 DEF CallInv, Policies
<1> QED BY <1>3, <1>7, <1>8, <1>9, <1>10, <1>11 DEF CallInv

\* What the call has when it looks for additional endorsers.
LEMMA AtExtra ==
  ASSUME IInv, NEW c \in Calls, worker[c] = "extra"
  PROVE  /\ CallInv(c) /\ input[c].targets = {} /\ req[c].targets \subseteq Peers
         /\ req[c].targets \subseteq input[c].accepts
         /\ URLsOf(req[c].resp.from) = URLsOf(req[c].targets)
         /\ MSPsOf(req[c].targets) \subseteq MSPsAt(c, URLsOf(req[c].resp.from))
         /\ AllSatisfied(local[c].chain, MSPsOf(req[c].targets))
         /\ req[c].resp.rwset \in RWSets \cup {Unparsable}
         /\ DOMAIN local[c].chain \subseteq Nat
<1>1. CallInv(c)
  BY DEF IInv
<1>2. input[c].targets = {} /\ req[c].targets \subseteq input[c].accepts
  BY <1>1 DEF CallInv, Targeted
<1>3. /\ req[c].targets \in SUBSET Peers /\ req[c].resp.rwset \in RWSets \cup {Unparsable}
      /\ DOMAIN local[c].chain \subseteq Nat
  BY <1>1 DEF CallInv, RecordTypes, Responses
<1>4. req[c].resp.from \in Contacted(req[c].targets)
  BY <1>1 DEF CallInv, Targeted
<1>5. AllSatisfied(local[c].chain, MSPsOf(req[c].targets))
  BY <1>1, <1>2 DEF CallInv, Policies
<1>6. URLsOf(req[c].resp.from) = URLsOf(req[c].targets)
  BY <1>4, ContactedURLs
<1> QED BY <1>1, <1>2, <1>3, <1>5, <1>6, ChosenMSPs

LEMMA NoMoreKeeps ==
  ASSUME IInv, NEW c \in Calls, RWSetUnreadable(c) \/ NothingAdditional(c)
  PROVE  CallInv(c)' /\ worker'[c] = "next"
<1>0. worker[c] = "extra" /\ UNCHANGED callVars
  BY DEF RWSetUnreadable, NothingAdditional
<1>1. /\ worker'[c] = "next" /\ UNCHANGED <<req, retries, input>>
      /\ \/ local'[c] = local[c]
         \/ local'[c] = [local[c] EXCEPT !.warned = TRUE]
  BY <1>0 DEF RWSetUnreadable, NothingAdditional, Warn, Step, IInv, Types, callVars
<1>2. CallInv(c)
  BY DEF IInv
<1>3. /\ local'[c].selected = local[c].selected /\ local'[c].chain = local[c].chain
      /\ RecordTypes(c)'
  BY <1>1, <1>2 DEF CallInv, RecordTypes
<1>4. Progress(c)'
  BY <1>0, <1>1, ProgressKept
<1>5. Outcomes(c)' /\ Targeted(c)'
  BY <1>0, <1>1, <1>2, <1>3 DEF CallInv, Outcomes, Targeted
<1>6. Policies(c)'
  <2>1. CASE NothingAdditional(c)
    <3>1. Covers(req[c].resp.rwset, MSPsOf(req[c].targets))
      BY <1>0, <2>1, AtExtra, NothingCovers DEF NothingAdditional
    <3>2. Covers(req[c].resp.rwset, MSPsAt(c, URLsOf(req[c].resp.from)))
      BY <1>0, <3>1, AtExtra, CoversMore
    <3> QED BY <1>1, <3>2 DEF Policies, MSPsAt, ChoiceAt
  <2>2. CASE RWSetUnreadable(c)
    <3>1. local'[c].warned
      BY <1>2, <2>2 DEF RWSetUnreadable, Warn, IInv, Types, CallInv, RecordTypes
    <3> QED BY <1>1, <3>1 DEF Policies
  <2> QED BY <2>1, <2>2
<1> QED BY <1>1, <1>3, <1>4, <1>5, <1>6 DEF CallInv

LEMMA SelectAdditionalKeeps ==
  ASSUME IInv, NEW c \in Calls, SelectAdditional(c)
  PROVE  /\ CallInv(c)'
         /\ URLsOf(req'[c].targets) \cap avoid[c] = {} \/ worker'[c] = "next"
<1> DEFINE rwset == req[c].resp.rwset
           merged == MergeInvocationChains(local[c].chain, rwset, FilteredOut)
           asked == MSPsOf(req[c].targets)
<1>0. worker[c] = "extra" /\ UNCHANGED <<callVars, retries>> /\ rwset \in RWSets \ {Unparsable}
  BY AtExtra DEF SelectAdditional
<1>1. CallInv(c) /\ input' = input
  BY <1>0 DEF IInv, callVars
<1>2. DOMAIN merged \subseteq Nat
  BY <1>0, MergedPositions
<1>3. ASSUME req' = [req EXCEPT ![c].chain = merged], Warn(c)
      PROVE  CallInv(c)' /\ worker'[c] = "next"
  <2>1. /\ worker'[c] = "next" /\ req'[c] = [req[c] EXCEPT !.chain = merged]
        /\ local'[c] = [local[c] EXCEPT !.warned = TRUE]
    BY <1>3 DEF Warn, Step, IInv, Types
  <2>2. /\ req'[c].targets = req[c].targets /\ req'[c].chain = merged
        /\ req'[c].resp = req[c].resp /\ req'[c].err = req[c].err
        /\ local'[c].selected = local[c].selected /\ local'[c].chain = local[c].chain
        /\ local'[c].warned = TRUE
        /\ RecordTypes(c)'
    BY <1>1, <1>2, <2>1 DEF CallInv, RecordTypes
  <2>3. Progress(c)'
    BY <1>0, <2>1, ProgressKept
  <2>4. Outcomes(c)' /\ Targeted(c)' /\ Policies(c)'
    BY <1>0, <1>1, <2>1, <2>2 DEF CallInv, Outcomes, Targeted, Policies
  <2> QED BY <2>1, <2>2, <2>3, <2>4 DEF CallInv
<1>4. ASSUME NEW S \in Endorsers(c, NewInvocationChain(input[c].cc, merged)),
             req' = [req EXCEPT
               ![c].chain = merged,
               ![c].targets = IF Additional(S, asked) = {} THEN @ ELSE Additional(S, asked)],
             Step(c, IF Additional(S, asked) = {} THEN "next" ELSE "sendExtra"),
             UNCHANGED local
      PROVE  /\ CallInv(c)'
             /\ URLsOf(req'[c].targets) \cap avoid[c] = {} \/ worker'[c] = "next"
  <2> DEFINE additional == Additional(S, asked)
             sends == additional # {}
  <2>1. /\ worker'[c] = IF sends THEN "sendExtra" ELSE "next"
        /\ req'[c] = [req[c] EXCEPT !.chain = merged,
                                    !.targets = IF sends THEN additional ELSE @]
    BY <1>4 DEF Step, IInv, Types
  <2>2. /\ S \in SUBSET Peers /\ S \subseteq input[c].accepts /\ URLsOf(S) \cap greylist = {}
        /\ AllSatisfied(NewInvocationChain(input[c].cc, merged), MSPsOf(S))
    BY InputsAreRequests DEF IInv, Types, Endorsers, Accepted, AllSatisfied, URLsOf
  <2>3. Covers(rwset, MSPsOf(S))
    BY <1>0, <2>2, MergedCovers
  <2>4. additional \subseteq Peers /\ MSPsOf(S) \subseteq asked \cup MSPsOf(additional)
    BY <2>2 DEF Additional, MSPsOf
  <2>5. /\ req'[c].targets = (IF sends THEN additional ELSE req[c].targets)
        /\ req'[c].chain = merged
        /\ req'[c].resp = req[c].resp /\ req'[c].err = req[c].err
    BY <1>1, <2>1 DEF CallInv, RecordTypes
  <2>6. RecordTypes(c)'
    <3> DEFINE targets == IF sends THEN additional ELSE req[c].targets
    <3>1. req'[c] = [req[c] EXCEPT !.chain = merged, !.targets = targets]
      BY <1>1, <2>1 DEF CallInv, RecordTypes
    <3>2. targets \in SUBSET Peers
      BY <1>1, <2>4 DEF CallInv, RecordTypes
    <3>3. local'[c] = local[c]
      BY <1>4
    <3> HIDE DEF targets, merged
    <3> QED BY <1>1, <1>2, <3>1, <3>2, <3>3 DEF CallInv, RecordTypes
  <2>7. Progress(c)'
    BY <1>0, <2>1, ProgressKept
  <2>8. Outcomes(c)'
    BY <1>0, <1>1, <2>1, <2>5 DEF CallInv, Outcomes
  <2>9. Targeted(c)'
    <3>1. additional \subseteq input[c].accepts
      BY <2>2 DEF Additional
    <3>2. local'[c] = local[c]
      BY <1>4
    <3> HIDE DEF additional
    <3> QED BY <1>0, <1>1, <2>1, <2>5, <3>1, <3>2, AtExtra DEF CallInv, Targeted
  <2>10. Policies(c)'
    <3> DEFINE answered == URLsOf(req[c].resp.from)
    <3>1. asked \subseteq MSPsAt(c, answered)
      BY <1>0, AtExtra
    <3>2. ~ sends => Covers(rwset, MSPsAt(c, answered))
      <4>1. ~ sends => MSPsOf(S) \subseteq asked
        BY <2>4 DEF MSPsOf
      <4> HIDE DEF additional, asked, answered
      <4> QED BY <2>3, <3>1, <4>1, CoversMore
    <3>3. Covers(rwset, MSPsAt(c, answered \cup URLsOf(additional)))
      <4>1. MSPsOf(additional) \subseteq MSPsAt(c, answered \cup URLsOf(additional))
        BY <2>2, ChosenMSPs DEF Additional
      <4>2. MSPsAt(c, answered) \subseteq MSPsAt(c, answered \cup URLsOf(additional))
        BY DEF MSPsAt, ChoiceAt, MSPsOf
      <4> HIDE DEF additional, asked, answered
      <4>3. MSPsOf(S) \subseteq MSPsAt(c, answered \cup URLsOf(additional))
        BY <2>4, <3>1, <4>1, <4>2
      <4> QED BY <2>3, <4>3, CoversMore
    <3>4. \A urls : MSPsAt(c, urls)' = MSPsAt(c, urls)
      BY <1>1 DEF MSPsAt, ChoiceAt
    <3> HIDE DEF additional, asked
    <3> QED BY <2>1, <2>5, <3>2, <3>3, <3>4 DEF Policies
  <2>11. sends => URLsOf(additional) \cap avoid[c] = {}
    BY <2>2 DEF Additional, IInv, GreyInv, URLsOf
  <2> QED BY <2>1, <2>5, <2>6, <2>7, <2>8, <2>9, <2>10, <2>11 DEF CallInv
<1> QED BY <1>3, <1>4 DEF SelectAdditional

LEMMA EndorsedAgainKeeps ==
  ASSUME IInv, NEW c \in Calls, EndorsedAgain(c)
  PROVE  CallInv(c)' /\ worker'[c] = "next"
<1>0. CallInv(c) /\ worker[c] = "sendExtra" /\ UNCHANGED callVars
  BY DEF IInv, EndorsedAgain
<1>1. PICK T \in Contacted(req[c].targets) : req' = [req EXCEPT ![c].resp.from = @ \cup T]
  BY DEF EndorsedAgain
<1>2. worker'[c] = "next" /\ UNCHANGED <<local, retries, input>>
  BY <1>0 DEF EndorsedAgain, Step, IInv, Types, callVars
<1>3. input[c].targets = {} /\ req[c].targets \in SUBSET Peers
  BY <1>0 DEF CallInv, Targeted, RecordTypes
<1>4. T \subseteq Peers /\ URLsOf(T) = URLsOf(req[c].targets)
  BY <1>3, ContactedURLs
<1>5. req'[c] = [req[c] EXCEPT !.resp = [req[c].resp EXCEPT !.from = @ \cup T]]
  BY <1>1 DEF IInv, Types
<1>6. /\ req'[c].targets = req[c].targets /\ req'[c].chain = req[c].chain
      /\ req'[c].err = req[c].err
      /\ req'[c].resp = [req[c].resp EXCEPT !.from = @ \cup T]
  BY <1>0, <1>5 DEF CallInv, RecordTypes
<1>7. /\ req'[c].resp.from = req[c].resp.from \cup T
      /\ req'[c].resp.rwset = req[c].resp.rwset /\ req'[c].resp.attempt = req[c].resp.attempt
      /\ req'[c].resp \in Responses
  BY <1>0, <1>4, <1>6 DEF CallInv, RecordTypes, Responses
<1>8. RecordTypes(c)'
  BY <1>0, <1>2, <1>5, <1>6, <1>7 DEF CallInv, RecordTypes
<1>9. Progress(c)'
  BY <1>0, <1>2, ProgressKept
<1>10. Outcomes(c)' /\ Targeted(c)'
  BY <1>0, <1>2, <1>3, <1>6, <1>7 DEF CallInv, Outcomes, Targeted
<1>11. Policies(c)'
  <2>1. Covers(req[c].resp.rwset,
               MSPsAt(c, URLsOf(req[c].resp.from) \cup URLsOf(req[c].targets)))
    BY <1>0, <1>3 DEF CallInv, Policies
  <2>2. URLsOf(req[c].resp.from \cup T) = URLsOf(req[c].resp.from) \cup URLsOf(req[c].targets)
    BY <1>4 DEF URLsOf
  <2> QED BY <1>2, <1>7, <2>1, <2>2 DEF Policies, MSPsAt, ChoiceAt
<1> QED BY <1>2, <1>8, <1>9, <1>10, <1>11 DEF CallInv

LEMMA RetryKeeps ==
  ASSUME IInv, NEW c \in Calls, Retry(c)
  PROVE  CallInv(c)' /\ worker'[c] = "reset"
<1>0. CallInv(c) /\ worker[c] = "judge" /\ UNCHANGED callVars
  BY DEF IInv, Retry
<1>1. worker'[c] = "reset" /\ UNCHANGED <<req, local, input>>
  BY <1>0 DEF Retry, Step, IInv, Types, callVars
<1>2. Progress(c)'
  BY <1>0, <1>1, ProgressKept
<1>3. RecordTypes(c)' /\ Outcomes(c)' /\ Targeted(c)' /\ Policies(c)'
  BY <1>0, <1>1 DEF CallInv, RecordTypes, Outcomes, Targeted, Policies
<1> QED BY <1>1, <1>2, <1>3 DEF CallInv

LEMMA BeforeRetryKeeps ==
  ASSUME IInv, NEW c \in Calls, BeforeRetry(c)
  PROVE  CallInv(c)' /\ GreyInv'
<1>1. PICK grey \in SUBSET URLsOf(req[c].err.unreached) : Reset(c, grey, input[c].targets, NoResponse)
  BY DEF BeforeRetry
<1>2. /\ CallInv(c) /\ worker[c] = "reset" /\ UNCHANGED <<callVars, local, retries>>
      /\ input' = input
  BY <1>1 DEF IInv, Reset, ResetRequest, callVars
<1>3. /\ worker'[c] = "start"
      /\ req'[c] = [req[c] EXCEPT !.targets = input[c].targets, !.err = NoError,
                                  !.resp = NoResponse]
  BY <1>1 DEF Reset, ResetRequest, Step, IInv, Types
<1>4. /\ req'[c].targets = input[c].targets /\ req'[c].chain = req[c].chain
      /\ req'[c].resp = NoResponse /\ req'[c].err = NoError
  BY <1>2, <1>3 DEF CallInv, RecordTypes
<1>5. RecordTypes(c)'
  <2>1. /\ input[c].targets \in SUBSET Peers
        /\ NoResponse \in Responses /\ NoError \in ErrorRecords
    BY InputsAreRequests DEF IInv, Types, NoResponse, NoError, Responses, ErrorRecords
  <2> HIDE DEF NoResponse, NoError
  <2> QED BY <1>2, <1>3, <1>4, <2>1 DEF CallInv, RecordTypes
<1>6. Progress(c)'
  BY <1>2, <1>3, ProgressKept
<1>7. Outcomes(c)' /\ Targeted(c)' /\ Policies(c)'
  BY <1>2, <1>3, <1>4 DEF CallInv, Outcomes, Targeted, Policies, NoError, NoResponse
<1>8. GreyInv'
  <2>1. grey \subseteq URLsOf(Peers)
    BY <1>2 DEF CallInv, RecordTypes, ErrorRecords, URLsOf
  <2>2. /\ greylist' = greylist \cup grey /\ avoid' = [avoid EXCEPT ![c] = @ \cup grey]
        /\ avoid \in [Calls -> SUBSET greylist] /\ greylist \subseteq URLsOf(Peers)
    BY <1>1 DEF Reset, IInv, GreyInv
  <2>3. avoid' \in [Calls -> SUBSET greylist']
    BY <2>2
  <2>4. \A d \in Calls \ {c} : avoid'[d] = avoid[d] /\ Same(d)
    BY <2>2, Shape DEF Invoker
  <2>5. GreylistedNotSelected'
    BY <1>2, <1>3, <2>4 DEF IInv, GreyInv, GreylistedNotSelected, Same
  <2> QED BY <2>1, <2>2, <2>3, <2>5 DEF GreyInv
<1> QED BY <1>5, <1>6, <1>7, <1>8 DEF CallInv

LEMMA SignalKeeps ==
  ASSUME IInv, NEW c \in Calls, Signal(c)
  PROVE  CallInv(c)' /\ worker'[c] = "done"
<1>0. CallInv(c) /\ worker[c] = "judge" /\ ~ WantsRetry(c)
  BY DEF IInv, Signal
<1>1. /\ worker'[c] = "done" /\ complete'[c] = TRUE
      /\ UNCHANGED <<caller, input, result, req, local, retries>>
  BY DEF Signal, Step, IInv, Types
<1>2 RecordTypes(c)' /\ Outcomes(c)' /\ Targeted(c)'
  BY <1>0, <1>1 DEF CallInv, RecordTypes, Outcomes, Targeted
<1>3. Policies(c)'
  BY <1>0, <1>1 DEF CallInv, Policies, MSPsAt, ChoiceAt
<1>4. Progress(c)'
  BY <1>0, <1>1 DEF CallInv, Progress, WantsRetry, Served
<1> QED BY <1>1, <1>2, <1>3, <1>4 DEF CallInv

-------------------------------------------------------------------------------
(* The invariant.                                                            *)

LEMMA CallStepKeeps ==
  ASSUME IInv, NEW c \in Calls, Caller(c) \/ Handler(c) \/ Invoker(c)
  PROVE  IInv'
<1>1. input' = input /\ Types' /\ \A d \in Calls \ {c} : Same(d)
  BY Shape
<1>2. CASE BeforeRetry(c)
  BY <1>1, <1>2, BeforeRetryKeeps, StepOfCall
<1>3. ASSUME ~ BeforeRetry(c)
      PROVE  /\ CallInv(c)' /\ UNCHANGED <<greylist, avoid>>
             /\ worker'[c] \in {"send", "sendExtra"} /\ input[c].targets = {}
                  => URLsOf(req'[c].targets) \cap avoid[c] = {}
  <2>1. CASE Start(c)
    BY <2>1, StartKeeps DEF Start, IInv, Types
  <2>2. CASE FailToPrepare(c) \/ TakeResult(c) \/ GiveUp(c) \/ ContextDone(c)
    <3>1. UNCHANGED <<greylist, avoid, worker, req>>
      BY <2>2 DEF FailToPrepare, TakeResult, GiveUp, ContextDone, workVars
    <3> QED BY <2>2, <3>1, CallerKeeps DEF IInv, GreyInv, GreylistedNotSelected
  <2>3. CASE UseTargets(c)
    <3>1. input[c].targets # {}
      BY <2>3 DEF UseTargets, IInv, CallInv, Targeted
    <3> QED BY <2>3, <3>1, UseTargetsKeeps DEF UseTargets
  <2>4. CASE SelectTargets(c)
    BY <2>4, SelectTargetsKeeps DEF SelectTargets
  <2>5. CASE QueryNobody(c) \/ RefuseToSend(c) \/ NotEndorsed(c) \/ NotEndorsedAgain(c)
    <3>1. worker'[c] = "judge" /\ UNCHANGED <<greylist, avoid>>
      BY <2>5 DEF QueryNobody, RefuseToSend, NotEndorsed, NotEndorsedAgain, Fail, Step,
                  IInv, Types
    <3> QED BY <2>5, <3>1, FailingKeeps
  <2>6. CASE QueryResponded(c) \/ Endorsed(c)
    BY <2>6, RespondedKeeps DEF QueryResponded, Endorsed, Responded
  <2>7. CASE RWSetUnreadable(c) \/ NothingAdditional(c)
    BY <2>7, NoMoreKeeps DEF RWSetUnreadable, NothingAdditional
  <2>8. CASE SelectAdditional(c)
    BY <2>8, SelectAdditionalKeeps DEF SelectAdditional
  <2>9. CASE EndorsedAgain(c)
    BY <2>9, EndorsedAgainKeeps DEF EndorsedAgain
  <2>10. CASE HandleNext(c)
    <3>1. worker'[c] = "judge" /\ UNCHANGED <<greylist, avoid>>
      BY <2>10 DEF HandleNext, Fail, Step, IInv, Types
    <3> QED BY <2>10, <3>1, HandleNextKeeps
  <2>11. CASE Retry(c)
    BY <2>11, RetryKeeps DEF Retry
  <2>12. CASE Signal(c)
    BY <2>12, SignalKeeps DEF Signal
  <2> QED BY <1>3, <2>1, <2>2, <2>3, <2>4, <2>5, <2>6, <2>7, <2>8, <2>9, <2>10, <2>11, <2>12
          DEF Caller, Handler, Invoker
<1>4. CASE ~ BeforeRetry(c)
  BY <1>1, <1>3, <1>4, GreyKept, StepOfCall
<1> QED BY <1>2, <1>4

LEMMA NextIInv == IInv /\ [Next]_vars => IInv'
<1> SUFFICES ASSUME IInv, [Next]_vars PROVE IInv'
  OBVIOUS
<1>1. ASSUME NEW c \in Calls, Caller(c) \/ Handler(c) \/ Invoker(c) PROVE IInv'
  BY <1>1, CallStepKeeps
<1>2. ASSUME NEW url \in URLsOf(Peers), GreylistExpiry(url) PROVE IInv'
  <2>1. input' = input /\ \A d \in Calls : Same(d)
    BY <1>2 DEF GreylistExpiry, callVars, workVars, Same
  <2>2. Types'
    BY <1>2 DEF GreylistExpiry, callVars, workVars, IInv, Types
  <2>3. \A d \in Calls : CallInv(d)'
    BY <2>1, CallKept DEF IInv
  <2>4. /\ greylist' = greylist \ {url} /\ avoid' = [d \in Calls |-> avoid[d] \ {url}]
        /\ avoid \in [Calls -> SUBSET greylist] /\ greylist \subseteq URLsOf(Peers)
    BY <1>2 DEF GreylistExpiry, IInv, GreyInv
  <2>5. GreylistedNotSelected'
    BY <2>1, <2>4 DEF IInv, GreyInv, GreylistedNotSelected, Same
  <2>6. GreyInv'
    BY <2>4, <2>5 DEF GreyInv
  <2> QED BY <2>2, <2>3, <2>6 DEF IInv
<1>3. CASE UNCHANGED vars
  <2>1. input' = input /\ (\A d \in Calls : Same(d)) /\ UNCHANGED <<greylist, avoid>>
    BY <1>3 DEF vars, callVars, workVars, Same
  <2>2. Types'
    BY <1>3 DEF vars, callVars, workVars, IInv, Types
  <2>3. \A d \in Calls : CallInv(d)'
    BY <2>1, CallKept DEF IInv
  <2>4. GreyInv'
    BY <2>1 DEF IInv, GreyInv, GreylistedNotSelected, Same
  <2> QED BY <2>2, <2>3, <2>4 DEF IInv
<1> QED BY <1>1, <1>2, <1>3 DEF Next

LEMMA InvariantHolds == Spec => []IInv
  BY InitIInv, NextIInv, PTL DEF Spec

-------------------------------------------------------------------------------
(* The properties.                                                           *)

\* The variables have their types, and there are at most Attempts retries, for
\* any number of calls (the retry handler of chclient.go:571).
THEOREM TypeCorrect == Spec => []TypeOK
<1>1. IInv => TypeOK
  <2> SUFFICES ASSUME IInv PROVE TypeOK
    OBVIOUS
  <2>1. ASSUME NEW c \in Calls
        PROVE  /\ req[c].targets \subseteq Peers
               /\ req[c].resp.from \subseteq Peers
               /\ req[c].resp.rwset \in RWSets \cup {Unparsable}
               /\ req[c].err.kinds \subseteq Kinds
               /\ req[c].err.unreached \subseteq Peers
               /\ local[c].selected \in BOOLEAN
               /\ local[c].warned \in BOOLEAN
    BY DEF IInv, CallInv, RecordTypes, Responses, ErrorRecords
  <2> QED BY <2>1 DEF IInv, Types, GreyInv, TypeOK, Stages
<1> QED BY <1>1, InvariantHolds, PTL

\* A caller that is served gets what the last attempt left, and nothing of an
\* attempt before (chclient.go:284-303).
THEOREM LastAttemptServed == Spec => []ResultOfLastAttempt
<1>1. IInv => ResultOfLastAttempt
  <2> SUFFICES ASSUME IInv, NEW c \in Calls, Served(c)
               PROVE  /\ worker[c] = "done"
                      /\ result[c].resp # NoResponse => result[c].resp.attempt = retries[c] + 1
                      /\ result[c].err # NoError => result[c].err.attempt = retries[c] + 1
                      /\ result[c].resp # NoResponse \/ result[c].err # NoError
    BY DEF ResultOfLastAttempt
  <2>1. /\ worker[c] = "done" /\ result[c] = [resp |-> req[c].resp, err |-> req[c].err]
        /\ Outcomes(c) /\ retries[c] \in Nat
    BY AttemptsIsNat DEF IInv, Types, CallInv, Progress
  <2>2. NoResponse.attempt = 0 /\ NoError.attempt = 0
    BY DEF NoResponse, NoError
  <2> HIDE DEF NoResponse, NoError
  <2> QED BY <2>1, <2>2 DEF Outcomes
<1> QED BY <1>1, InvariantHolds, PTL

\* Every policy that the response of a served call calls for is satisfied by the
\* peers at the URLs that endorsed, for any policies, chains and placement of the
\* peers, several MSPs at one URL included (selectendorsehandler.go:39-74,
\* txnhandler.go:123-188, proposal.go:67-76).
THEOREM PoliciesCovered == Spec => []PolicyCovered
<1>1. IInv => PolicyCovered
  <2> SUFFICES ASSUME IInv, NEW c \in Calls, ServedAsSelected(c)
               PROVE  Covers(result[c].resp.rwset, MSPsAt(c, URLsOf(result[c].resp.from)))
    BY DEF PolicyCovered, Covers, MSPsAt
  <2>1. /\ worker[c] = "done" /\ result[c] = [resp |-> req[c].resp, err |-> req[c].err]
        /\ Policies(c)
    BY DEF IInv, CallInv, Progress, ServedAsSelected
  <2> HIDE DEF NoError
  <2> QED BY <2>1 DEF Policies, ServedAsSelected
<1> QED BY <1>1, InvariantHolds, PTL

\* Where peers of one URL are of one MSP, it is the endorsing peers themselves
\* that satisfy the policies (selectendorsehandler.go:39-74).
THEOREM EndorsersDoSuffice ==
  ASSUME \A p, q \in Peers : URL[p] = URL[q] => MSPID[p] = MSPID[q]
  PROVE  Spec => []EndorsersSuffice
<1>1. IInv /\ PolicyCovered => EndorsersSuffice
  <2> SUFFICES ASSUME IInv, PolicyCovered, NEW c \in Calls, ServedAsSelected(c)
               PROVE  Covers(result[c].resp.rwset, MSPsOf(result[c].resp.from))
    BY DEF EndorsersSuffice, Covers
  <2> DEFINE from == result[c].resp.from
  <2>1. Covers(result[c].resp.rwset, MSPsOf(ChoiceAt(c, URLsOf(from))))
    BY DEF PolicyCovered, Covers
  <2>2. from \subseteq Peers /\ input[c].accepts \subseteq Peers
    <3>0. RecordTypes(c) /\ result[c] = [resp |-> req[c].resp, err |-> req[c].err]
      BY DEF IInv, CallInv, Progress, ServedAsSelected
    <3>1. result[c].resp = req[c].resp /\ req[c].resp.from \in SUBSET Peers
      BY <3>0 DEF RecordTypes, Responses
    <3> QED BY <3>1, InputsAreRequests DEF IInv, Types
  <2>3. ASSUME NEW p \in ChoiceAt(c, URLsOf(from)) PROVE MSPID[p] \in MSPsOf(from)
    <3>1. p \in Peers /\ URL[p] \in URLsOf(from)
      BY <2>2 DEF ChoiceAt
    <3>2. PICK q \in from : URL[q] = URL[p]
      BY <3>1 DEF URLsOf
    <3> QED BY <2>2, <3>1, <3>2 DEF MSPsOf
  <2>4. MSPsOf(ChoiceAt(c, URLsOf(from))) \subseteq MSPsOf(from)
    BY <2>3 DEF MSPsOf
  <2> QED BY <2>1, <2>4, CoversMore
<1> QED BY <1>1, PoliciesCovered, InvariantHolds, PTL

\* Peers given as targets are the only ones sent to, in every attempt
\* (txnhandler.go:125-132 and 161, chclient.go:285).
THEOREM GivenTargetsOnly == Spec => []OnlyGivenTargets
<1>1. IInv => OnlyGivenTargets
  BY DEF IInv, CallInv, Targeted, OnlyGivenTargets
<1> QED BY <1>1, InvariantHolds, PTL

\* No URL is selected that the call greylisted and that did not expire, however
\* many calls share the greylist (chclient.go:282-287 and 542-545).
THEOREM GreylistRespected == Spec => []GreylistedNotSelected
<1>1. IInv => GreylistedNotSelected
  BY DEF IInv, GreyInv
<1> QED BY <1>1, InvariantHolds, PTL

-------------------------------------------------------------------------------
(* The refinement of RetriedRequest.                                         *)

mapped == <<MadeAttempts, LastOutcome, GivenAnswer>>

\* What the abstract request of a call is made of.
Made(c) == IF Judged(c) THEN retries[c] + 1 ELSE retries[c]
Last(c) ==
  CASE Judged(c) -> Outcome(req[c].err)
    [] ~ Judged(c) /\ retries[c] = 0 -> "none"
    [] OTHER -> "transient"
Given(c) ==
  CASE caller[c] # "returned" -> "none"
    [] Served(c) -> Outcome(result[c].err)
    [] OTHER -> "unknown"

LEMMA MappedIs ==
  /\ MadeAttempts = [c \in Calls |-> Made(c)]
  /\ LastOutcome = [c \in Calls |-> Last(c)]
  /\ GivenAnswer = [c \in Calls |-> Given(c)]
  /\ MadeAttempts' = [c \in Calls |-> Made(c)']
  /\ LastOutcome' = [c \in Calls |-> Last(c)']
  /\ GivenAnswer' = [c \in Calls |-> Given(c)']
BY DEF MadeAttempts, LastOutcome, GivenAnswer, Made, Last, Given

LEMMA MappedKept ==
  ASSUME NEW d \in Calls, Same(d)
  PROVE  Made(d)' = Made(d) /\ Last(d)' = Last(d) /\ Given(d)' = Given(d)
BY DEF Same, Made, Last, Given, Judged, Served, Outcome

\* The attempt of a call ends.
LEMMA AttemptEnds ==
  ASSUME IInv, NEW c \in Calls, \A d \in Calls \ {c} : Same(d),
         worker[c] \in {"start", "send", "sendExtra", "next"}, worker'[c] = "judge",
         UNCHANGED <<caller, result>>, retries'[c] = retries[c]
  PROVE  Promise!Attempt(c)
<1> DEFINE o == Outcome(req'[c].err)
<1>1. retries[c] \in 0..Attempts
  BY DEF IInv, Types
<1>2. o \in {"success", "failure", "transient"}
  BY DEF Outcome
<1>3. ~ Judged(c) /\ Judged(c)' /\ ~ Served(c) /\ ~ Served(c)'
  BY DEF Judged, Served, IInv, CallInv, Progress
<1>4. Made(c) = retries[c] /\ Made(c)' = retries[c] + 1 /\ Last(c)' = o
  BY <1>3 DEF Made, Last, Outcome
<1>5. Last(c) = "none" \/ Last(c) = "transient"
  BY <1>3 DEF Last
<1>6. Given(c)' = Given(c)
  BY <1>3 DEF Given
<1>7. \A d \in Calls \ {c} : Made(d)' = Made(d) /\ Last(d)' = Last(d) /\ Given(d)' = Given(d)
  BY MappedKept
<1>8. Promise!AnotherDue(c)
  BY <1>1, <1>4, <1>5, MappedIs, AttemptsIsNat DEF Promise!AnotherDue
<1> HIDE DEF o
<1>9. LastOutcome' = [LastOutcome EXCEPT ![c] = o]
  BY <1>4, <1>7, MappedIs
<1>10. MadeAttempts' = [MadeAttempts EXCEPT ![c] = @ + 1]
  BY <1>4, <1>7, MappedIs
<1>11. GivenAnswer' = GivenAnswer
  BY <1>6, <1>7, MappedIs
<1> QED BY <1>2, <1>8, <1>9, <1>10, <1>11 DEF Promise!Attempt

\* The caller is answered.
LEMMA CallerAnswers ==
  ASSUME IInv, IInv', NEW c \in Calls, \A d \in Calls \ {c} : Same(d),
         FailToPrepare(c) \/ TakeResult(c) \/ GiveUp(c)
  PROVE  Promise!Answer(c) \/ Promise!AnswerNothing(c)
<1>1. /\ UNCHANGED <<worker, req, retries>> /\ caller[c] # "returned"
      /\ caller'[c] = "returned"
  BY DEF FailToPrepare, TakeResult, GiveUp, Return, workVars, IInv, Types
<1>2. Made(c)' = Made(c) /\ Last(c)' = Last(c) /\ Given(c) = "none"
  <2>1. Made(c)' = Made(c) /\ Last(c)' = Last(c)
    BY <1>1 DEF Made, Last, Judged, Outcome
  <2>2. Given(c) = "none"
    BY <1>1 DEF Given, Served
  <2> QED BY <2>1, <2>2
<1>3. \A d \in Calls \ {c} : Made(d)' = Made(d) /\ Last(d)' = Last(d) /\ Given(d)' = Given(d)
  BY MappedKept
<1>4. UNCHANGED <<MadeAttempts, LastOutcome>> /\ GivenAnswer[c] = "none"
  BY <1>2, <1>3, MappedIs
<1>5. GivenAnswer' = [GivenAnswer EXCEPT ![c] = Given(c)']
  BY <1>3, MappedIs
<1>6. CASE TakeResult(c)
  <2>1. worker[c] = "done" /\ ~ WantsRetry(c) /\ Outcomes(c) /\ retries[c] \in 0..Attempts
    BY <1>6 DEF TakeResult, IInv, CallInv, Progress, Types
  <2>2. result'[c].err = req[c].err
    BY <1>6 DEF TakeResult, Return, IInv, Types
  <2>3. Served(c)'
    BY <1>1, <2>1, <2>2 DEF Served, Outcomes
  <2>4. Given(c)' = Outcome(req[c].err) /\ Last(c) = Outcome(req[c].err)
    BY <1>1, <2>1, <2>2, <2>3 DEF Given, Last, Judged, Outcome
  <2>5. ~ Promise!AnotherDue(c)
    BY <2>1, <2>4, MappedIs, AttemptsIsNat
       DEF Promise!AnotherDue, Made, Judged, Outcome, WantsRetry
  <2>6. LastOutcome[c] = Given(c)'
    BY <2>4, MappedIs
  <2> QED BY <1>4, <1>5, <2>5, <2>6 DEF Promise!Answer
<1>7. CASE FailToPrepare(c) \/ GiveUp(c)
  <2>0. PICK err \in {[NoError EXCEPT !.kinds = {"prepare"}],
                     [NoError EXCEPT !.kinds = {"timeout"}]} : Return(c, NoResponse, err)
    BY <1>7 DEF FailToPrepare, GiveUp
  <2>1. result'[c].err = err
    BY <2>0 DEF Return, IInv, Types
  <2>2. ~ Served(c)'
    BY <2>1 DEF Served, NoError
  <2>3. Given(c)' = "unknown"
    BY <1>1, <2>2 DEF Given
  <2> QED BY <1>4, <1>5, <2>3 DEF Promise!AnswerNothing
<1> QED BY <1>6, <1>7

\* Any other step leaves the abstract request as it is.
LEMMA StepStutters ==
  ASSUME IInv, NEW c \in Calls, \A d \in Calls \ {c} : Same(d),
         Given(c)' = Given(c), Made(c)' = Made(c), Last(c)' = Last(c)
  PROVE  UNCHANGED mapped
<1>1. \A d \in Calls : Made(d)' = Made(d) /\ Last(d)' = Last(d) /\ Given(d)' = Given(d)
  BY MappedKept
<1> QED BY <1>1, MappedIs DEF mapped

LEMMA HandlerAttempts ==
  ASSUME IInv, NEW c \in Calls, Handler(c)
  PROVE  Promise!Attempt(c) \/ UNCHANGED mapped
<1>1. \A d \in Calls \ {c} : Same(d)
  BY Shape
<1>2. worker[c] \in {"start", "send", "extra", "sendExtra", "next"}
  BY DEF Handler, UseTargets, SelectTargets, QueryNobody, RefuseToSend, QueryResponded,
         Endorsed, Responded, NotEndorsed, RWSetUnreadable, NothingAdditional,
         SelectAdditional, EndorsedAgain, NotEndorsedAgain, HandleNext
<1>3. UNCHANGED <<caller, result, retries>>
  BY DEF Handler, UseTargets, SelectTargets, QueryNobody, RefuseToSend, QueryResponded,
         Endorsed, Responded, NotEndorsed, RWSetUnreadable, NothingAdditional, Fail,
         SelectAdditional, EndorsedAgain, NotEndorsedAgain, HandleNext, callVars
<1>4. \/ worker'[c] = "judge" /\ worker[c] # "extra"
      \/ worker'[c] \in {"send", "extra", "sendExtra", "next"}
  <2>1. CASE UseTargets(c)
    BY <2>1 DEF UseTargets, Step, IInv, Types
  <2>2. CASE SelectTargets(c)
    BY <2>2 DEF SelectTargets, Fail, Step, IInv, Types
  <2>3. CASE QueryNobody(c) \/ RefuseToSend(c) \/ NotEndorsed(c) \/ NotEndorsedAgain(c)
    BY <2>3 DEF QueryNobody, RefuseToSend, NotEndorsed, NotEndorsedAgain, Fail, Step,
                IInv, Types
  <2>4. CASE QueryResponded(c) \/ Endorsed(c)
    BY <2>4, RespondedKeeps
  <2>5. CASE RWSetUnreadable(c) \/ NothingAdditional(c)
    BY <2>5, NoMoreKeeps
  <2>6. CASE SelectAdditional(c)
    BY <2>6 DEF SelectAdditional, Warn, Step, IInv, Types
  <2>7. CASE EndorsedAgain(c)
    BY <2>7, EndorsedAgainKeeps
  <2>8. CASE HandleNext(c)
    BY <2>8 DEF HandleNext, Fail, Step, IInv, Types
  <2> QED BY <2>1, <2>2, <2>3, <2>4, <2>5, <2>6, <2>7, <2>8 DEF Handler
<1>5. CASE worker'[c] = "judge" /\ worker[c] # "extra"
  BY <1>1, <1>2, <1>3, <1>5, AttemptEnds
<1>6. CASE worker'[c] \in {"send", "extra", "sendExtra", "next"}
  <2>1. ~ Judged(c) /\ ~ Judged(c)' /\ ~ Served(c) /\ ~ Served(c)'
    BY <1>2, <1>3, <1>6 DEF Judged, Served, IInv, CallInv, Progress
  <2>2. Given(c)' = Given(c) /\ Made(c)' = Made(c) /\ Last(c)' = Last(c)
    BY <1>3, <2>1 DEF Given, Made, Last
  <2> QED BY <1>1, <2>2, StepStutters
<1> QED BY <1>4, <1>5, <1>6

LEMMA InvokerStutters ==
  ASSUME IInv, NEW c \in Calls, Invoker(c)
  PROVE  UNCHANGED mapped
<1>1. \A d \in Calls \ {c} : Same(d)
  BY Shape
<1>2. UNCHANGED <<caller, result>>
  BY DEF Invoker, Retry, BeforeRetry, Reset, ResetRequest, Signal, callVars
<1>3. ~ Served(c) /\ retries[c] \in 0..Attempts
  BY DEF Invoker, Retry, BeforeRetry, Reset, Signal, Served, IInv, Types, CallInv, Progress
<1>4. Given(c)' = Given(c)
  BY <1>2, <1>3 DEF Given, Served
<1>5. Made(c)' = Made(c) /\ Last(c)' = Last(c)
  <2>1. CASE Retry(c)
    <3>1. /\ worker[c] = "judge" /\ worker'[c] = "reset" /\ retries'[c] = retries[c] + 1
          /\ req[c].err.kinds \cap Retryable # {}
      BY <2>1 DEF Retry, WantsRetry, Step, IInv, Types
    <3> QED BY <1>3, <3>1, AttemptsIsNat DEF Made, Last, Judged, Outcome
  <2>2. CASE BeforeRetry(c)
    <3>1. worker[c] = "reset" /\ worker'[c] = "start" /\ retries' = retries
      BY <2>2 DEF BeforeRetry, Reset, ResetRequest, Step, IInv, Types
    <3> QED BY <3>1 DEF Made, Last, Judged
  <2>3. CASE Signal(c)
    <3>1. worker[c] = "judge" /\ worker'[c] = "done" /\ UNCHANGED <<retries, req>>
      BY <2>3 DEF Signal, Step, IInv, Types
    <3> QED BY <3>1 DEF Made, Last, Judged, Outcome
  <2> QED BY <2>1, <2>2, <2>3 DEF Invoker
<1> QED BY <1>1, <1>4, <1>5, StepStutters

LEMMA CallerStep ==
  ASSUME IInv, IInv', NEW c \in Calls, Caller(c)
  PROVE  Promise!Answer(c) \/ Promise!AnswerNothing(c) \/ UNCHANGED mapped
<1>1. \A d \in Calls \ {c} : Same(d)
  BY Shape
<1>2. CASE FailToPrepare(c) \/ TakeResult(c) \/ GiveUp(c)
  BY <1>1, <1>2, CallerAnswers
<1>3. CASE Start(c)
  <2>1. /\ caller[c] = "idle" /\ caller'[c] = "waiting" /\ worker[c] = "none"
        /\ worker'[c] = "start" /\ retries' = retries
    BY <1>3 DEF Start, IInv, Types, CallInv, Progress
  <2> QED BY <1>1, <2>1, StepStutters DEF Given, Made, Last, Judged, Served
<1>4. CASE ContextDone(c)
  <2>1. UNCHANGED <<caller, result, worker, req, retries>>
    BY <1>4 DEF ContextDone, workVars
  <2> QED BY <1>1, <2>1, StepStutters DEF Given, Made, Last, Judged, Served, Outcome
<1> QED BY <1>2, <1>3, <1>4 DEF Caller

LEMMA StepIsPromised == IInv /\ IInv' /\ [Next]_vars => [Promise!Next]_mapped
<1> SUFFICES ASSUME IInv, IInv', [Next]_vars PROVE [Promise!Next]_mapped
  OBVIOUS
<1>1. ASSUME NEW c \in Calls, Caller(c) \/ Handler(c) \/ Invoker(c)
      PROVE  [Promise!Next]_mapped
  BY <1>1, CallerStep, HandlerAttempts, InvokerStutters DEF Promise!Next
<1>2. ASSUME UNCHANGED <<callVars, workVars>> PROVE UNCHANGED mapped
  BY <1>2 DEF callVars, workVars, mapped, MadeAttempts, LastOutcome, GivenAnswer, Judged,
              Served, Outcome
<1>3. ASSUME NEW url \in URLsOf(Peers), GreylistExpiry(url) PROVE UNCHANGED <<callVars, workVars>>
  BY <1>3 DEF GreylistExpiry
<1>4. ASSUME UNCHANGED vars PROVE UNCHANGED <<callVars, workVars>>
  BY <1>4 DEF vars
<1> QED BY <1>1, <1>2, <1>3, <1>4 DEF Next

LEMMA InitIsPromised == Init => Promise!Init
<1> SUFFICES ASSUME Init PROVE Promise!Init
  OBVIOUS
<1>1. ASSUME NEW c \in Calls PROVE Made(c) = 0 /\ Last(c) = "none" /\ Given(c) = "none"
  <2>1. worker[c] = "none" /\ caller[c] = "idle" /\ retries[c] = 0
    BY DEF Init
  <2> QED BY <2>1 DEF Made, Last, Given, Judged, Served
<1> QED BY <1>1, MappedIs DEF Promise!Init

\* A call of DelegateInvokeHandler implements RetriedRequest: bounded attempts, none
\* after one that settles it, and an answer that is the last one's outcome or says
\* that none is known (chclient.go:271-307).
THEOREM RequestImplemented == Spec => ImplementsRetriedRequest
BY InitIsPromised, StepIsPromised, InvariantHolds, PTL
   DEF Spec, ImplementsRetriedRequest, Promise!Spec, mapped
===============================================================================
