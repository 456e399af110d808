--------------------------- MODULE InvocationChain ---------------------------
(***************************************************************************)
(* The invocation chains of pkg/client/channel/invoke: which chaincodes,   *)
(* with which private data collections, a proposal is endorsed for.        *)
(*                                                                         *)
(* A chaincode call is a record of the chaincode's ID and the set of its   *)
(* collections.  A chain is a family of calls indexed by their positions,  *)
(* natural numbers that need not be consecutive: the order of the slice is *)
(* the order of the positions, and leaving a call out leaves a gap.        *)
(* Position 0 is the one newInvocationChain puts the request's own         *)
(* chaincode at; every other chain starts at 1.                            *)
(***************************************************************************)
EXTENDS Naturals

Call(id, colls) == [id |-> id, colls |-> colls]

EmptyChain == [k \in {} |-> Call("", {})]

\* The positions at which a chain calls chaincode id.
At(chain, id) == {k \in DOMAIN chain : chain[k].id = id}

FirstAt(chain, id) == CHOOSE k \in At(chain, id) : \A j \in At(chain, id) : k <= j
LastAt(chain, id) == CHOOSE k \in At(chain, id) : \A j \in At(chain, id) : j <= k

(***************************************************************************)
(* newInvocationChain: the request's chaincode comes first, and takes over *)
(* the collections of the last call of the provided chain that names it.   *)
(***************************************************************************)
NewInvocationChain(cc, chain) ==
  [k \in {0} \cup (DOMAIN chain \ At(chain, cc)) |->
     IF k # 0 THEN chain[k]
     ELSE Call(cc, IF At(chain, cc) = {} THEN {}
                   ELSE chain[LastAt(chain, cc)].colls)]

(***************************************************************************)
(* mergeCCCall: a call of the response that the chain has already gets the *)
(* collections of both; any other is taken as it is.  It is news when the  *)
(* chain lacks the chaincode, or one of the collections.                   *)
(***************************************************************************)
\* A slip: only chaincodes are compared, not their collections.
IsNewsByID(chain, c) == At(chain, c.id) = {}

MergeCCCall(chain, c) ==
  IF At(chain, c.id) = {} THEN c
  ELSE Call(c.id, chain[FirstAt(chain, c.id)].colls \cup c.colls)

IsNews(chain, c) ==
  At(chain, c.id) # {} => ~ (c.colls \subseteq chain[FirstAt(chain, c.id)].colls)

(***************************************************************************)
(* mergeInvocationChains: the calls of the response that pass the filter,  *)
(* merged; calls of the chain that the response does not have are dropped. *)
(* FoundAdditional is the second result.                                   *)
(***************************************************************************)
\* lsccFilter, chained by getCCFilter with the filter of the options.
LeftOut(filteredOut) == {"lscc", "_lifecycle"} \cup filteredOut

Passing(resp, filteredOut) == {k \in DOMAIN resp : resp[k].id \notin LeftOut(filteredOut)}

MergeInvocationChains(chain, resp, filteredOut) ==
  [k \in Passing(resp, filteredOut) |-> MergeCCCall(chain, resp[k])]

FoundAdditional(chain, resp, filteredOut) ==
  \E k \in Passing(resp, filteredOut) : IsNews(chain, resp[k])
==============================================================================
