---------------------------- MODULE ResponseChain ----------------------------
(***************************************************************************)
(* From a proposal response to the chain the additional endorsers are      *)
(* selected for (getAdditionalEndorsers in pkg/client/channel/invoke/      *)
(* selectendorsehandler.go), with the slices of collections as Go has      *)
(* them: a slice is an array and a length, copying it copies neither, and  *)
(* an append writes into the array as long as that has room.               *)
(*                                                                         *)
(* Calls at once are given one request, so that they share the calls of    *)
(* its invocation chain, their slices and the arrays of these.             *)
(* InvocationChain.tla has the same functions on values; as there, a       *)
(* merged chain has gaps where calls of the response were left out.        *)
(***************************************************************************)
EXTENDS RWSet, InvocationChain, Functions

CONSTANTS
  Calls,        \* the calls of DelegateInvokeHandler with the request
  CC,           \* the chaincode of the request
  Requests,     \* what the calls may be given: see below
  FilteredOut,  \* the chaincodes the option's filter leaves out
  MaxLength,    \* the most calls a chain has
  Request       \* the owner of the arrays that came with the request

-------------------------------------------------------------------------------
(* The response of a peer.                                                   *)

\* The peer writes its sets into the results of a chaincode action.
ResponseWith(results) == [payload |-> Bytes([extension |-> Bytes([results |-> results])])]
Written(sets) == ResponseWith(ToProtoBytes(sets).value)

\* The results of an action that wrote nothing: a message without fields has no bytes.
NoResults == Bytes(<<>>)

\* Some bytes in it, at whatever depth, cannot be read.
GarbledSets(nss) ==
  \E i \in DOMAIN nss :
    nss[i].kv.garbled \/ \E j \in DOMAIN nss[i].colls : nss[i].colls[j].hashed.garbled
GarbledSomewhere(r) ==
  \/ r.payload.garbled
  \/ r.payload.message.extension.garbled
  \/ LET results == r.payload.message.extension.message.results
     IN results.garbled \/ GarbledSets(results.message)

\* getRWSetsFromProposalResponse
RWSetsOf(r) ==
  LET prp == Unmarshal(r.payload)
      action == IF prp.err THEN Failure ELSE Unmarshal(prp.value.extension)
      results == action.value.results
  IN IF r = Nil THEN Value(<<>>)
     ELSE IF action.err THEN Failure
     ELSE IF results = NoResults THEN Value(<<>>)
     ELSE FromProtoBytes(results)

\* getInvocationChainFromResponse
CallsOf(sets) ==
  [i \in DOMAIN sets |->
     [id |-> sets[i].ns, colls |-> [j \in DOMAIN sets[i].colls |-> sets[i].colls[j].name]]]

-------------------------------------------------------------------------------
\* A request: its chain, whose calls each have an id, collections and room for more
\* of these in the array; and for some calls their answer: the sets that the peer
\* wrote, and the response, which is sound or was garbled somewhere.
ASSUME RequestsAreChains ==
  \A r \in Requests :
    /\ r.chain \in Seq([id : STRING, colls : Seq(STRING), room : Nat])
    /\ Len(r.chain) <= MaxLength
    /\ DOMAIN r.answers \subseteq Calls

\* A peer writes each namespace once.
ASSUME AnswersAreWritten ==
  \A r \in Requests : \A c \in DOMAIN r.answers :
    LET a == r.answers[c]
    IN /\ a.wrote \in PublicSets
       /\ Len(a.wrote) <= MaxLength
       /\ \A i, j \in DOMAIN a.wrote : a.wrote[i].ns = a.wrote[j].ns => i = j
       /\ a.sound \in BOOLEAN
       /\ IF a.response = Nil THEN a.sound /\ a.wrote = <<>>
          ELSE IF a.sound THEN a.response = Written(a.wrote)
          ELSE GarbledSomewhere(a.response)

ASSUME MaxLengthIsNumber == MaxLength \in Nat
ASSUME RequestIsNoCall == Request \notin Calls
ASSUME CCIsName == CC \in STRING

VARIABLES
  request,   \* what the calls were given
  provided,  \* the calls of its chain: an id and a slice
  array,     \* what is in each array
  \* the locals of each call
  stage,     \* where it is
  response,  \* the chain of its response
  at,        \* the call of the response it looks at
  coll,      \* the collection of this it looks at, or 0
  merged,    \* the merged chain
  found,     \* whether there is anything additional
  selected   \* the chain it selects endorsers for, on values

locals == <<stage, response, at, coll, merged, found, selected>>
vars == <<request, provided, array, locals>>

Arrays == ({Request} \cup Calls) \X (0 .. MaxLength)
Slice(a, len) == [array |-> a, len |-> len]
NoSlice == Slice(<<Request, 0>>, 0)
Elements(slice) == [i \in 1 .. slice.len |-> array[slice.array][i]]

Init ==
  /\ request \in Requests
  /\ provided = [k \in DOMAIN request.chain |->
       [id |-> request.chain[k].id, slice |-> Slice(<<Request, k>>, Len(request.chain[k].colls))]]
  /\ array = [a \in Arrays |->
       IF a[1] = Request /\ a[2] \in DOMAIN request.chain THEN request.chain[a[2]].colls ELSE <<>>]
  /\ stage = [c \in Calls |-> IF c \in DOMAIN request.answers THEN "answered" ELSE "absent"]
  /\ response = [c \in Calls |-> <<>>]
  /\ at = [c \in Calls |-> 1]
  /\ coll = [c \in Calls |-> 0]
  /\ merged = [c \in Calls |-> <<>>]
  /\ found = [c \in Calls |-> FALSE]
  /\ selected = [c \in Calls |-> <<>>]

\* What cannot be read is logged, and the responses so far are used.
ReadResponse(c) ==
  /\ stage[c] = "answered"
  /\ LET sets == RWSetsOf(request.answers[c].response)
     IN IF sets.err
        THEN /\ stage' = [stage EXCEPT ![c] = "warned"]
             /\ UNCHANGED response
        ELSE /\ stage' = [stage EXCEPT ![c] = "merging"]
             /\ response' = [response EXCEPT ![c] = CallsOf(sets.value)]
  /\ UNCHANGED <<request, provided, array, at, coll, merged, found, selected>>

-------------------------------------------------------------------------------
(* Slips in this code, each of which a property below must notice.           *)

\* The merged call is the one of the chain, not a copy.
KeepMergedInPlace(c, slice) ==
  /\ merged' = [merged EXCEPT ![c][at[c]].slice = slice]
  /\ provided' = [k \in DOMAIN provided |->
       IF provided[k].id = merged[c][at[c]].id
       THEN [provided[k] EXCEPT !.slice = slice] ELSE provided[k]]

\* Whether anything is additional is what the last merge says.
BeginMergeAnew(c) ==
  /\ stage[c] = "merging" /\ at[c] <= Len(response[c])
  /\ response[c][at[c]].id \notin LeftOut(FilteredOut)
  /\ coll[c] = 0
  /\ \E k \in DOMAIN provided :
       /\ provided[k].id = response[c][at[c]].id
       /\ merged' = [merged EXCEPT ![c] =
            [j \in DOMAIN merged[c] \cup {at[c]} |->
               IF j = at[c] THEN provided[k] ELSE merged[c][j]]]
  /\ coll' = [coll EXCEPT ![c] = 1]
  /\ found' = [found EXCEPT ![c] = FALSE]
  /\ UNCHANGED <<request, provided, array, stage, response, at, selected>>

\* The merged chain is made with the length of the response, and then appended to.
AppendMergedAfterNils(c, call) ==
  LET next == Len(response[c]) + at[c]
  IN merged' = [merged EXCEPT ![c] =
       [k \in DOMAIN merged[c] \cup {next} |-> IF k = next THEN call ELSE merged[c][k]]]

-------------------------------------------------------------------------------
(* mergeInvocationChains, with the loops of mergeCCCall and merge.           *)

\* newInvocationChain, for calls with slices.
SliceChain(calls) ==
  [k \in {0} \cup (DOMAIN calls \ At(calls, CC)) |->
     IF k # 0 THEN calls[k]
     ELSE [id |-> CC,
           slice |-> IF At(calls, CC) = {} THEN NoSlice ELSE calls[LastAt(calls, CC)].slice]]

\* The call of the response that is looked at, and the calls of the chain with its id.
Current(c) == response[c][at[c]]
Known(c) == At(SliceChain(provided), Current(c).id)

Merging(c) == stage[c] = "merging" /\ at[c] <= Len(response[c])
Passes(c) == Merging(c) /\ Current(c).id \notin LeftOut(FilteredOut)

\* append to the merged chain
AppendMerged(c, call) ==
  merged' = [merged EXCEPT ![c] =
    [k \in DOMAIN merged[c] \cup {at[c]} |-> IF k = at[c] THEN call ELSE merged[c][k]]]

Filtered(c) ==
  /\ Merging(c)
  /\ ~ Passes(c)
  /\ at' = [at EXCEPT ![c] = @ + 1]
  /\ UNCHANGED <<request, provided, array, stage, response, coll, merged, found, selected>>

TakeCall(c) ==
  LET fresh == <<c, at[c]>>
  IN /\ Passes(c)
     /\ Known(c) = {}
     /\ array' = [array EXCEPT ![fresh] = Current(c).colls]
     /\ AppendMerged(c, [id |-> Current(c).id, slice |-> Slice(fresh, Len(Current(c).colls))])
     /\ at' = [at EXCEPT ![c] = @ + 1]
     /\ found' = [found EXCEPT ![c] = TRUE]
     /\ UNCHANGED <<request, provided, stage, response, coll, selected>>

\* merge: a new call with the slice of the one that getCCCall finds ...
BeginMerge(c) ==
  /\ Passes(c)
  /\ coll[c] = 0
  /\ Known(c) # {}
  /\ AppendMerged(c, SliceChain(provided)[FirstAt(SliceChain(provided), Current(c).id)])
  /\ coll' = [coll EXCEPT ![c] = 1]
  /\ UNCHANGED <<request, provided, array, stage, response, at, found, selected>>

\* ... to which the collections it does not contain are appended.
HasCollection(c) == Merging(c) /\ coll[c] \in DOMAIN Current(c).colls
Collection(c) == Current(c).colls[coll[c]]
MergedSlice(c) == merged[c][at[c]].slice

Contained(c) ==
  /\ HasCollection(c)
  /\ Collection(c) \in Range(Elements(MergedSlice(c)))
  /\ coll' = [coll EXCEPT ![c] = @ + 1]
  /\ UNCHANGED <<request, provided, array, stage, response, at, merged, found, selected>>

KeepMerged(c, slice) ==
  /\ merged' = [merged EXCEPT ![c][at[c]].slice = slice]
  /\ UNCHANGED provided

\* Arrays that a call made are its own, and grow as it needs.
HasRoom(slice) ==
  LET k == slice.array[2]
  IN slice.array[1] = Request =>
       k # 0 /\ slice.len < Len(request.chain[k].colls) + request.chain[k].room

\* An array after its first elements were written, and nothing else.
Overwritten(a, first) == first \o SubSeq(a, Len(first) + 1, Len(a))

AppendCollection(c) ==
  LET old == MergedSlice(c)
      target == IF HasRoom(old) THEN old.array ELSE <<c, at[c]>>
  IN /\ HasCollection(c)
     /\ Collection(c) \notin Range(Elements(old))
     /\ array' = [array EXCEPT ![target] =
          Overwritten(@, Append(Elements(old), Collection(c)))]
     /\ KeepMerged(c, Slice(target, old.len + 1))
     /\ coll' = [coll EXCEPT ![c] = @ + 1]
     /\ found' = [found EXCEPT ![c] = TRUE]
     /\ UNCHANGED <<request, stage, response, at, selected>>

EndMerge(c) ==
  /\ Merging(c)
  /\ coll[c] > Len(Current(c).colls)
  /\ coll' = [coll EXCEPT ![c] = 0]
  /\ at' = [at EXCEPT ![c] = @ + 1]
  /\ UNCHANGED <<request, provided, array, stage, response, merged, found, selected>>

-------------------------------------------------------------------------------
\* getEndorsers for the merged chain, if there is anything additional.
Select(c) ==
  /\ stage[c] = "merging"
  /\ at[c] > Len(response[c])
  /\ LET chain == SliceChain(merged[c])
         values == [k \in DOMAIN chain |-> Call(chain[k].id, Range(Elements(chain[k].slice)))]
     IN /\ stage' = [stage EXCEPT ![c] = IF found[c] THEN "selected" ELSE "nothing"]
        /\ selected' = [selected EXCEPT ![c] = IF found[c] THEN values ELSE @]
  /\ UNCHANGED <<request, provided, array, response, at, coll, merged, found>>

Next ==
  \E c \in Calls :
    \/ ReadResponse(c) \/ Filtered(c) \/ TakeCall(c) \/ BeginMerge(c)
    \/ Contained(c) \/ AppendCollection(c) \/ EndMerge(c) \/ Select(c)

Spec == Init /\ [][Next]_vars

-------------------------------------------------------------------------------
(* Properties.                                                               *)

\* The variables have their types; the merged chain has calls where the response
\* has some (selectendorsehandler.go:140-155).
TypeOK ==
  /\ request \in Requests
  /\ array \in [Arrays -> Seq(STRING)]
  /\ stage \in [Calls -> {"absent", "answered", "warned", "merging", "nothing", "selected"}]
  /\ response \in [Calls -> Seq([id : STRING, colls : Seq(STRING)])]
  /\ at \in [Calls -> Nat] /\ coll \in [Calls -> Nat]
  /\ found \in [Calls -> BOOLEAN]
  /\ \A c \in Calls :
       /\ at[c] \in 1 .. Len(response[c]) + 1
       /\ DOMAIN merged[c] \subseteq DOMAIN response[c]
       /\ \A k \in DOMAIN merged[c] :
            merged[c][k] \in [id : STRING, slice : [array : Arrays, len : Nat]]

\* A response gives all the calls the peer wrote, in order and each with all its
\* collections, or none: a part that cannot be read anywhere in it is noticed
\* (selectendorsehandler.go:92-138, rwset_proto_util.go:88-99 and 137-208).
AllOrNothing ==
  \A c \in DOMAIN request.answers :
    LET wrote == request.answers[c].wrote
        sound == request.answers[c].sound
    IN /\ stage[c] = "warned" => ~ sound
       /\ stage[c] \in {"merging", "nothing", "selected"} =>
            /\ sound
            /\ response[c] = CallsOf(wrote)

\* The chain of the request on values.
GivenChain ==
  [k \in DOMAIN request.chain |-> Call(request.chain[k].id, Range(request.chain[k].colls))]
AnswerChain(c) ==
  LET calls == CallsOf(request.answers[c].wrote)
  IN [k \in DOMAIN calls |-> Call(calls[k].id, Range(calls[k].colls))]

\* What the merge gives on values, where there are no slices that could be shared.
ChainOnValues == NewInvocationChain(CC, GivenChain)
MergedOnValues(c) ==
  NewInvocationChain(CC, MergeInvocationChains(ChainOnValues, AnswerChain(c), FilteredOut))

\* The collections that the request gives for a chaincode, where getCCCall finds any.
GivenFor(id) ==
  IF At(ChainOnValues, id) = {} THEN {} ELSE ChainOnValues[FirstAt(ChainOnValues, id)].colls

\* The collections that the answer of call c names for a chaincode.
Named(r, c, id) ==
  UNION {Range(call.colls) : call \in
    {call \in Range(CallsOf(r.answers[c].wrote)) :
       call.id = id /\ call.id \notin LeftOut(FilteredOut)}}

\* A call has the request as if alone when no other one, too, adds a collection to
\* an array that has room.
Adds(r, c, k) == ~ (Named(r, c, r.chain[k].id) \subseteq Range(r.chain[k].colls))
Alone(r, c) ==
  \A d \in DOMAIN r.answers \ {c} : \A k \in DOMAIN r.chain :
    Adds(r, c, k) /\ Adds(r, d, k) => r.chain[k].room = 0

\* Endorsers are selected for the chaincodes and collections of the provided chain
\* and of the response that this call got, in their order, although the slices are
\* shared: unless two calls append to one array, where one writes over what the
\* other one has there (selectendorsehandler.go:140-193).
SelectedAsIfAlone ==
  \A c \in DOMAIN request.answers :
    stage[c] = "selected" /\ Alone(request, c) => selected[c] = MergedOnValues(c)

\* Even then a call finds out whether anything is additional, asks for the right
\* chaincodes in their order, loses no collection that the request gave for them, and
\* asks for none that no response named (selectendorsehandler.go:140-193).
FoundWhateverShared ==
  \A c \in DOMAIN request.answers :
    /\ stage[c] \in {"nothing", "selected"} =>
         (stage[c] = "selected") = FoundAdditional(ChainOnValues, AnswerChain(c), FilteredOut)
    /\ stage[c] = "selected" =>
         /\ DOMAIN selected[c] = DOMAIN MergedOnValues(c)
         /\ \A k \in DOMAIN selected[c] :
              LET call == selected[c][k]
                  merge == MergedOnValues(c)[k]
              IN /\ call.id = merge.id
                 /\ merge.colls \cap GivenFor(call.id) \subseteq call.colls
                 /\ call.colls \subseteq merge.colls \cup
                      UNION {Named(request, d, call.id) : d \in DOMAIN request.answers}

\* The caller's chain is as the caller made it, whatever its calls append to it
\* (selectendorsehandler.go:183-193).
ProvidedUntouched ==
  \A k \in DOMAIN provided :
    /\ provided[k].id = request.chain[k].id
    /\ Elements(provided[k].slice) = request.chain[k].colls

\* The private sets that go with public ones: the same namespaces and collections,
\* with their data, which may be missing.
PvtSetsOf(sets) ==
  LET places == UNION {{i} \X DOMAIN sets[i].colls : i \in DOMAIN sets}
  IN {[i \in DOMAIN sets |->
         [ns |-> sets[i].ns,
          colls |-> [j \in DOMAIN sets[i].colls |->
            [name |-> sets[i].colls[j].name, kv |-> data[<<i, j>>]]]]] :
      data \in [places -> Data \cup {Nil}]}

\* A private set that is converted to bytes and back is the same set, the order of
\* its namespaces and collections included, and one that lacks the data of some
\* collection has no bytes, not even of the others (rwset_proto_util.go:101-122 and
\* 214-282).
PvtRoundTrip ==
  \A c \in DOMAIN request.answers : \A set \in PvtSetsOf(request.answers[c].wrote) :
    LET bytes == PvtToProtoBytes(set)
        hasNil == \E i \in DOMAIN set : \E j \in DOMAIN set[i].colls : set[i].colls[j].kv = Nil
    IN IF hasNil THEN bytes = Failure ELSE PvtFromProtoBytes(bytes.value) = Value(set)
===============================================================================
