# TLA+ models of fabric-delegate

fabric-delegate lets an application endorse and submit transactions that somebody
else signs: it wraps the Hyperledger Fabric SDK for Go so that a *signed* proposal
is sent to the endorsers, and a *signed* envelope to the orderers. This directory
holds models of the parts that decide what happens, TLC configurations that check
them on small instances, and proofs that TLAPS checks for every instance.

## The system

| component | state it keeps | operations | what is hard |
|---|---|---|---|
| Round of proposals, `pkg/fab/txn/proposal.go` | two slices, a mutex, a wait group | `SendSignedProposal`: one goroutine per target | interleaving of appends, return while goroutines run, duplicates by URL |
| Handlers, `pkg/client/channel/invoke/txnhandler.go`, `selectendorsehandler.go` | fields of one `RequestContext`: targets, invocation chain, response, error | select endorsers, first round, read-write set to chain, second round | the second round must complete the policies; fields change in mid-handling |
| Invoker, `Client.DelegateInvokeHandler` in `chclient.go` | the request context over several attempts, a channel of capacity 1, the client's greylist | run the handlers in a goroutine, retry, wait for its signal or the context | stale fields on a retry, caller's timeout against a late answer, greylist shared by calls |
| Invocation chains, `selectendorsehandler.go`, `newInvocationChain` | slices shared with the request | build, merge, filter chains | collections that only the responses show, appends to arrays of the request |
| Broadcast, `pkg/fab/txn/txn.go` and `Client.BroadcastEnvelope` | registration, status channel, orderers tried | register, failover over orderers at random, wait for status or context | lost answers, envelopes ordered twice, zero value of the code is VALID |
| Transactor, `pkg/fab/channel/transactor.go` | list of orderers | resolve orderers, delegate to the above | fallbacks, ignored and unknown orderers |
| Options and contexts, `api.go`, `chclient.go` | options of a request | defaults, timeouts | which timeout governs what |
| Proposals and payloads, `chclient.go` | none | create proposals, parse headers, build and sign payloads | order of the calls an application makes, peers that disagree, one proposal endorsed twice |
| Signing identity, `pkg/msp` | a key | sign with low S | boundary at half the order |
| Read-write sets, `rwsetutil` | none | protobuf conversion | one part of a set that cannot be read |
| SDK wiring, `pkg/fabsdk` | none | constructors | nothing |

An application calls `CreateSignedProposal`, `DelegateQuery` or
`DelegateEndorseAndCreateTxnPayload`, `SignTxnPayload` and `BroadcastEnvelope`, as
`src/test/delegate_test.go` does. The two delegate calls go through
`DelegateInvokeHandler`, which starts a goroutine that runs the handlers; these call
`SendSignedProposal` through the transactor, once or twice per attempt.
`BroadcastEnvelope` goes to the orderers and waits for the event service. Calls on one
client share its greylist and its event service, and nothing else.

## Modules

| module | models | notes |
|---|---|---|
| `ScatterGather` | abstract: what a round promises | answers one by one, return after the last |
| `SendProposal` | `SendSignedProposal`, `getTargetsWithoutDuplicates` | refines `ScatterGather` |
| `InvocationChain` | `newInvocationChain`, `mergeInvocationChains` and helpers | operators on values |
| `RWSet` | `rwsetutil`: sets to bytes and back | operators |
| `ResponseChain` | from a response's bytes to the merged chain, with slices and arrays | `RWSet`, compared with `InvocationChain` |
| `RetriedRequest` | abstract: what a retried request promises | bounded attempts, one answer |
| `DelegateInvoke` | `DelegateInvokeHandler`, the handlers, the invoker | uses `InvocationChain`, refines `RetriedRequest`; a round is one step |
| `Broadcast` | `Client.BroadcastEnvelope`, `BroadcastEnvelope`, `sendBroadcast` | ordering service, ledger, events external |
| `Transaction` | abstract: what an application may count on | decided once, reports final |
| `Delegation` | proposals, header parsers, `DelegateQuery`, `DelegateEndorseAndCreateTxnPayload`, `SignTxnPayload` | extends `Broadcast`, refines `Transaction`; an invocation of the handlers is one step |
| `Orderers` | `NewTransactor` and the three functions that resolve orderers | its result is a list of `Broadcast` |
| `Options` | `api.go`, default options, `prepareOptsFromOptions`, `createReqContext` | slices with room for an append |
| `LowS` | `User.Sign`, `IsLowS`, `ToLowS` | S as a number |
| `..._proofs` | proofs about the module of that name | those about `RWSet` are in `ResponseChain_proofs`, those about `Broadcast` in `Delegation_proofs` |
| `MC...` | values of the constants for TLC | |

Each module has a section of *slips*: mistakes one could make in that very code. With
one of them in place of the definition it is a slip of, the property it is listed with
in `PROJECT.json` fails, so no property holds for free.

### SendProposal

A goroutine is named by the position of its target. `pc` is the caller's place in the
function, `worker[i]` a goroutine's. The append under the mutex is two steps:
`Acquire` takes the lock and reads the slice into `snap[i]`, `Release` assigns the
longer slice and unlocks. That is what makes a forgotten lock visible. `Done` is the
deferred `wg.Done()`. Processors answer at any time, with a response or an error.

### DelegateInvoke

`caller[c]` is the calling goroutine, `worker[c]` the one it starts. `req[c]` holds the
fields of the request context that change (`Opts.Targets`, `Request.InvocationChain`,
`Response`, `Error`); `local[c]` the locals of the running `Handle` that decide what it
does: whether it selected the peers, the chain it selected them for, whether it went
on after a warning. Responses and errors carry the number of their attempt, so that a
stale one is recognised. `UseTargets` ... `HandleNext` are the handler's steps in order,
`Retry`, `BeforeRetry`, `Signal` the invoker's. The refinement of `RetriedRequest` counts an
attempt as made when the goroutine comes to judge it, and takes the answer from what the
call returned: the outcome of the last attempt, or nothing after a timeout. The round is one step, which
`SendProposal` justifies: its intermediate states are invisible to other goroutines, and
the slices are not read before it returns.

Of targets with one URL only one is sent to (`Contacted`), whereas `containsMSP` looks at
all of them; the greylist has URLs. Peers of two MSPs may have one URL, as in
`test/fixtures/sample/fabric.yaml`, and two of `MCURL` do. `PolicyCovered` therefore takes
the peers at a URL for what they are, one peer: the policies are satisfied by the MSPs at
the URLs that endorsed. Of the peers that endorsed themselves this is wrong, as the policy
may need the MSP whose target was a duplicate: that is `EndorsersSuffice`, which no run
checks and which is proved where a URL is that of one MSP. Likewise the second round may
go to a URL that has answered, for a peer of another MSP there.

External, modelled from their use: `GetEndorsersForChaincode` may answer any set of
accepted peers whose MSPs satisfy the policies of the whole chain, or fail; the peers of
a round answer or fail in any combination; validation passes or fails; the retry handler
wants a retry for some kinds of error, `Attempts` times; greylist entries expire at any
time. Whether the greylist makes out the unreachable peers in a combined or wrapped error
depends on the SDK and is left open.

### RWSet and ResponseChain

Bytes hold a message or are garbled; what cannot be converted is `Failure`. `ResponseChain`
reads a response step by step (`ReadResponse`), then merges it into the request's chain call
by call and collection by collection, as `mergeInvocationChains`, `mergeCCCall` and `merge`
do. A slice is an array and a length. Calls that are given one request share its arrays, so
that an `AppendCollection` of one may come between two steps of another. An array has the
room the caller left it (`room`); what a call allocates is its own. A merged chain is a
function on positions of the response, with gaps where calls were filtered out. An answer
comes with the sets the peer wrote, and with whether the response is sound or was garbled
on the way (both auxiliary). `SelectedAsIfAlone`
compares the outcome with the operators of `InvocationChain`, which know only values and
which `DelegateInvoke` uses. It does so for a call that is `Alone` with the arrays it appends
to: no other call adds to one of them while it has room. Other calls may share them, and
slices of them, all the same. Two calls that append to one array write over each other:
each may then select for less than its response calls for, and for collections of the
other's response. `FoundWhateverShared` says what is left: the chaincodes and their order
are right, so is the decision whether anything is additional, no given collection is lost,
and none comes up that no response names.

### Delegation

One application per call of `Broadcast`. `app[c]` is how far it came: it proposes, with a
client of its own or with an identity only, queries with the proposal as often as it likes,
and has it endorsed; or takes up a proposal or a signed envelope of
another application with the same transaction, which is how a retry after a timeout looks.
The delegate refuses a proposal without a channel ID, and no other: one of another channel
is endorsed, and its envelope never committed here. A round's answers are a sequence of
results that need not be the same; the first is what the user is told, and all of them
become endorsements. `CommitHere` lets a copy be valid only if they agree, which is what
peers check on commit.

### Broadcast

`tried`, `failed` and `current` are the failover's progress through the permutation,
which is drawn as it goes. `copies` are envelopes on their way: each may be committed or
lost at any time, whether its orderer's answer got back or not. The first commit of a
transaction decides its code, later ones are duplicates, and every commit tells those who
are registered. Several calls may submit one transaction, as a retrying application does.
`list[c]` is the list of orderers of the call's transactor, which may be empty.

### Orderers

The endpoint configuration and the channel's own one (`env`) are data that any call may
meet: `channel` are the names under the channel in the endpoint configuration, `block`
the targets of the channel's configuration, `listed` the URLs of all orderers and
`lookup` what `OrdererConfig` answers to a name. A step is one turn of a loop. An orderer
that was created remembers the entry it was created for (auxiliary), so that order and
completeness can be stated; any creation may fail.

### Options

A call appends its two defaults to the slice of its caller, applies the options one by
one, and creates the context. `arg` says which slice each call has and how much room its
array has, `array` what was appended in place, `extra` what a copy got. Reading an option
is a step, so that another call's append may come between. `Left` is the time a parent
context has when it is given; the context that is created ends with it or when its own
time is up.

### LowS

`Draw` is `ecdsa.Sign`: any S below the order. `Normalise` is `ToLowS`, `Marshal` the end.

## Runs

| run | shows | bounds |
|---|---|---|
| `send_proposal` | every answer returned once, each URL asked once, no write after the return, refinement of the round, the call returns | all lists of up to 3 targets over 3 peers (two with one URL), a non-peer and nil: 3 goroutines give every pairwise race and one bystander |
| `invoke` | result is that of the last attempt; policies covered; given targets only; greylisted peers avoided; refinement of the retried request; the caller returns though its goroutine may hang | one call in each mode, 4 peers of 3 MSPs, two of which (of different MSPs) have one URL, 5 kinds of read-write set, 2 retries: a value may be stale by one attempt or by two |
| `shared_client` | greylisted peers avoided while a second call greylists too and entries expire; goroutines end though their callers may be gone | two calls, 2 peers of 2 MSPs, 1 retry each: a peer greylisted by one call, by both, and expired in between |
| `provided_chain` (violation) | a retry forgets the chain of the request | one call |
| `broadcast` | no false success, true codes for sole submitters, failover in order; every call returns | 2 calls, 1 or 2 transactions, all lists of up to 2 orderers: up to 4 commits, so that duplicates come from one call or from two |
| `delegation` | what is committed was told and agreed on, success means that it is what was told, refinement of the transaction | two applications with 1 or 2 transactions, 1 orderer, 3 channel IDs (this one, another, none), 2 results, rounds of 1 or 2 peers: two endorsements of one proposal that differ, two peers of one round that do |
| `response_chain` | all of a response is read or nothing; the chain is that of values for a call that appends alone; what two calls that append to one array still keep; the request's arrays stay as they are; private sets survive the way there and back | one call with sets of up to 3 namespaces, each part garbled in turn; two calls with one request and sound sets; 4 chains with room for 0, 1 or 2 more elements: an append in place, one that does not fit, and one that writes over another's |
| `orderers` | all usable orderers, in order, with the settings that are known | 2 keys that differ in case, 2 URLs with one address, lists of up to 2: an entry before and after one that is skipped or fails |
| `options` | the caller's options prevail, the filter is the request's, the deadline is that of the Execute timeout or the parent context | 2 calls, up to 2 options out of 13 (so that one follows another of its kind), slices apart with room 0 to 2, or a full one in common |
| `shared_options` (violation) | one call gets the other's default filter | 2 calls, one slice with room 0 to 2 |
| `low_s` | the signature returned is the one that is accepted | every S of the orders 3, 5, 31, 53 and, not recognized, 59 |
| `broadcast_parent` (violation) | orderers are tried under a context that has run out | 2 calls, 2 orderers |

`CHECK_DEADLOCK FALSE` stands in every configuration, as calls end when they return.

The bounds are `MaxTargets`, `Attempts`, `MaxLength` (of a chain in `ResponseChain`), and
the sizes of the sets, among them the lengths of lists in `MCOrderers` and `MCOptions`. Nothing else is
bounded: a call of `Broadcast` sends each orderer one envelope, and a call of
`DelegateInvoke` makes at most `Attempts + 1` attempts.

### Fairness

- `SendProposal!FairSpec`: the call goes on while it can. Goroutines run, and every
  processor answers at last, since the transactor gives the round's context the
  PeerResponse timeout.
- `DelegateInvoke!CallerFairSpec`: the request's context ends (Execute timeout) and the
  caller's `select` takes a ready case. The goroutine may stop for ever.
- `DelegateInvoke!GoroutineFairSpec`: the goroutine goes on: rounds end, backoffs are
  sleeps. The caller may stop for ever.
- `Broadcast!FairSpec`: a call underway goes on; each attempt ends with the OrdererResponse
  timeout, and the context with the Execute timeout. The network owes nothing.

### What the violations say

- `ProvidedChainHonoured`: `txnhandler.go:103` says endorsers are selected for the
  provided chain. `selectendorsehandler.go:50` overwrites the chain with the merged one,
  which has only calls that are in the response, and `BeforeRetry` does not restore it.
  On a retry, a provided chaincode that the first response did not touch has no say.
- `OrdererHasItsTime`: `txn.go:50` says the parent context has no timeout value. It has:
  `createReqContext` sets the Execute timeout. When it runs out in the middle of the
  failover, all orderers left fail at once and the call reports a broadcast error rather
  than a timeout, though an envelope may still be ordered.
- `FilterIsPerRequest` with a shared slice: `api.go:65` calls the target filter
  "per-request". The three methods append their defaults to the variadic slice they were
  given. If that has room, which is usual for a slice built with `append`, two calls at
  once write to the same array, and a query may be sent to endorsing peers only. With
  slices apart, or full ones, the property holds.

## Proofs

`SendProposal_proofs`, for all processors, URLs and target lists:

- `IInv` is inductive. Its heart: the elements of the slices are exactly the answers of
  the goroutines past their critical section (`Collected`); the holder of the mutex, and
  nobody else, has read a slice as it still is (`Locked`); and `wg` is the number of
  running goroutines (`Counted`). `EveryAnswerReturned` alone speaks of the return only,
  and says nothing of the states before it.
- From it follow `TypeCorrect`, `AnswersCorrect`, `NoLateWrite` and `URLsAskedOnce` (for
  which the first position of a URL is found by well-foundedness of `<`), and
  `RoundImplemented`: a `Release` is an answer of the round, `Reject` and `Return` are the
  round's, every other step stutters.
- Assumptions: peers are processors, nil is none, target lists are finite sequences.

The first part of `Delegation_proofs`, about `Broadcast`, for any number of calls,
transactions and orderers:

- `IInv` adds what is in the status channels (`Told`), that copies are those of registered
  calls (`SentRegistered`), and what a sole submitter knows (`Sole`: its channel is empty
  while the ledger has no code, and starts with the ledger's code afterwards).
- From it follow `TypeCorrect`, `SuccessIsTrue`, `CodeIsTrue` and `FailoverInOrder`.
- Assumptions: `NoOrderer` is no orderer, lists hold orderers.

`Orderers_proofs`, for all configurations:

- `Progress` says of each loop that the orderers created so far are those of the chosen
  entries before `next` (`AreEntries`), in their order, and that the second loop runs only
  if the first list has no usable entry. The lemmas `SkipEntry` and `AppendEntry` carry it
  over one turn. From it follow `UsableOrderers`, `SettingsUsed` and `TypeCorrect`.
- Assumptions: lookups answer with a URL or none; `ToLower` and `ToAddress` are functions.

`LowS_proofs`, for curves of every odd order:

- `LowIsCanonical`: `ToLowS` yields a value of 1 to N div 2, which is S or N - S, and the
  same for both. `SignaturesAreLow` carries it through `Sign`.
- Assumptions: orders are odd and above 1 (group orders are primes).

`InvocationChain_proofs`, for chains of any length and positions:

- `OneMergeSettles`: a chain merged with a response includes all the response's calls, so
  that merging the same response again finds nothing additional. That is why the code looks
  for additional endorsers once. Its lemmas (`NothingFound`: no news means that the chain
  includes all that passes; `MergedIncludes`) carry `PolicyCovered` below.
- Assumption: a response names each namespace once, as the peer's read-write sets do. With
  a namespace twice the theorem is wrong.

`DelegateInvoke_proofs`, for any number of calls, peers, retries, policies and chains:

- `IInv` is one of each call by itself (`CallInv`) and of the greylist (`GreyInv`).
  `Progress` ties caller and goroutine: a call that was served has a goroutine that is done,
  and has what it left. `Outcomes` says which of response and error are of this attempt at
  each step. `Targeted` says whom the proposal goes to. `Policies` follows the policies from
  the selection (the chain is satisfied by those asked) over the second round (the response
  is covered by those who answered and those asked now) to the return; it needs that those
  asked and those sent to have the same URLs (`Contacted`).
- Steps of a call leave the others as they are (`Shape`, `CallKept`), so that each action is
  looked at for its own call only. From `IInv` follow `TypeCorrect`, `LastAttemptServed`,
  `PoliciesCovered`, `GivenTargetsOnly` and `GreylistRespected`. `EndorsersDoSuffice` adds
  that a URL is that of one MSP, and says of the endorsers what `PoliciesCovered` says of
  the peers at their URLs.
- `RequestImplemented`: the end of an attempt is the abstract one's, `TakeResult` its answer,
  as a goroutine is done only when no retry is due; a timeout or a failure before the
  goroutine is an answer that tells nothing; all else stutters.
- Assumptions: `Attempts` is a number, a response names each namespace once, the errors of missing arguments are not retried.

`Options_proofs`, for option lists of any length and any number of calls:

- `Made` says what the options read so far have made of the record: each field is what the
  last of them set (`Final`), except where a default stands in, after the end of the
  caller's list. `Appending` says what the call appended. `GivenIsMade`, `TimeoutIsMade` and
  `FilterIsMade` carry `Made` over one option of each sort; `OthersAppending` says what an
  append of another call may change: a default for a default.
- From it follow `TypeCorrect`, `OptionsPrevail` and `DeadlineHolds`, whoever shares a
  slice and whatever its room: the violation of `shared_options` cannot spread to the
  caller's options or to the deadline. `FilterIsOwn` needs `SlicesApart`.
- Assumptions: configured timeouts are not zero, the time a parent has left is a number, nil is no peer, given options are those of
  `api.go`; for `FilterIsOwn`, calls with one slice find no room in it.

The rest of `Delegation_proofs`, for any number of applications, orderers and results:

- Every step is one of `Broadcast` or leaves its variables alone (`StepIsBroadcasts`), so the
  invariant of `Broadcast` holds of the composition. `AInv` adds that payloads are
  what was told (`Honest`), that what is past the parsers has a channel ID (`Passed`), and
  that only signed envelopes are submitted (`Submitted`).
- From it follow `AppTypeCorrect`, `SignedAsTold`, `CommittedAsTold`, `SuccessAsTold` and
  `TransactionImplemented`: the first commit of a transaction decides it, the end of a call
  reports it, all else stutters.
- Assumptions: those about `Broadcast`; rounds have answers; "no result" is none.

`ResponseChain_proofs`, for sets, chains and responses of any length, any room in the
arrays and any number of calls with one request:

- The conversions: `Every` of values is the value of all (`EveryIsValue`), of a failure it
  fails (`EveryFails`). From collections over namespaces to sets, each way is undone by the
  other (`PublicRoundTrip`, `PrivateRoundTrip`); a private set that lacks data has no bytes;
  and a response that is garbled at whatever depth is not read (`GarbledResponseFails`).
- `IInv` is one of the request (`Base`: its calls are as they were, and each of its arrays
  starts with the collections it came with) and of each call. `Reading` says that what was
  read is what was written. `Progress` says how far the merge is, and that each merged slice
  fits its array (`Fits`): it lies in the array of the position it is at, or in one of the
  request, of the call with its id, and then reaches beyond what was given only if the
  response adds something. `Contents` says of the elements of each merged slice (`Holds`)
  that those given are where no other call writes (`Firm`), that all are given or named by
  some response, and that they are what the merge on values has there so far (`SoFar`) if
  the call is `Alone`. `Settled` says the same of what was selected. The properties are not
  inductive alone: they compare outcomes, and say nothing of a merge that is underway.
- `AppendAdds` says what an append makes of slice and array; `KeepsSlices` what it makes of
  all other slices, of this call and of others: each element stays, or it is not firm, its
  call is not alone, and what comes there is a collection some response names.
- From `IInv` follow `TypeCorrect`, `ReadAllOrNothing`, `CallersChainUntouched`,
  `SelectsAsIfAlone` and `FindsWhateverShared`, whoever shares a request and whatever its
  room. `PvtAlwaysRoundTrips` follows from the conversions.
- Assumptions: requests are chains of calls, of at most `MaxLength`; a peer writes each
  namespace once; a response is what the peer wrote or garbled somewhere; `Nil` is no data
  and `Request` no call.

Every safety invariant and every refinement of a passing run is stated by a theorem. Only
model-checked is liveness (`CallReturns`, `CallerReturns`, `GoroutineEnds`,
`EveryCallReturns`), which is out of the prover's reach: it has neither fairness nor
ENABLED.

## Not modelled, and why

The encoding of messages, hashing, keys and ASN.1, logging, and the constructors of
`pkg/fabsdk` are left out for good: they have no state and no order of steps. The rest of
what the code does and the models do not:

- Whether calls at once may share a request whose arrays have room. `ResponseChain` has such
  calls, and says what they select; nothing in the repository says that it should be more,
  so what they lose is stated here and not as a disagreement of code and documents.
- That URLs of the configuration may name several MSPs is modelled (see DelegateInvoke), but
  no document says that the peers that sign must satisfy the policies themselves.
- Contexts end by time in the models of calls (`ContextDone`), but the times themselves are
  only in `Options`: that a parent context is cancelled is an end like any other.
- A status channel that the event service closes (`chclient.go:471` would dereference nil):
  when it does is up to the SDK, which is not in the repository.
- Which of the sufficient sets of peers is preferred (`prioritizePeers`, peer sorters): the models let
  the selection answer any of them, and every property holds whichever it is.
- Private read-write sets are converted by `rwsetutil` but used by no handler; `PvtRoundTrip`
  is checked and proved on the operators, beside the machine.
- Where a step stands for another module's machine (a round in `DelegateInvoke`, the handlers
  in `Delegation`), the replacement is justified by the refinement or the properties of that
  module and not by a composed run: the product of the two is out of TLC's reach.
