------------------------ MODULE InvocationChain_proofs ------------------------
(***************************************************************************)
(* What the operators on chains yield, for chains of any length and with   *)
(* any collections.                                                        *)
(***************************************************************************)
EXTENDS InvocationChain, WellFoundedInduction, TLAPS

\* A chain calls the chaincode of a call, with all the call's collections.
Includes(chain, call) ==
  \E j \in DOMAIN chain : chain[j].id = call.id /\ call.colls \subseteq chain[j].colls

\* No two positions have the same chaincode.
OncePerID(chain) == \A j, k \in DOMAIN chain : chain[j].id = chain[k].id => j = k

Less == {ss \in Nat \X Nat : ss[1] < ss[2]}

LEMMA LessIsWellFounded == IsWellFoundedOn(Less, Nat)
  BY NatLessThanWellFounded, Zenon DEF OpToRel, Less

\* getCCCall finds what there is.
LEMMA FirstAtIsAt ==
  ASSUME NEW chain, NEW id, DOMAIN chain \subseteq Nat, At(chain, id) # {}
  PROVE  FirstAt(chain, id) \in At(chain, id)
<1>1. At(chain, id) \subseteq Nat
  BY DEF At
<1>2. PICK k \in At(chain, id) : \A j \in At(chain, id) : ~ (<<j, k>> \in Less)
  <2> DEFINE T == At(chain, id)
  <2> HIDE DEF T, Less
  <2>1. T \subseteq Nat /\ T # {}
    BY <1>1 DEF T
  <2>2. \E x \in T : \A y \in T : ~ (<<y, x>> \in Less)
    BY <2>1, LessIsWellFounded, WFMin
  <2> QED BY <2>2 DEF T
<1>3. \A j \in At(chain, id) : ~ (j < k)
  BY <1>1, <1>2 DEF Less
<1>4. \A j \in At(chain, id) : k <= j
  BY <1>1, <1>3
<1> QED BY <1>2, <1>4 DEF FirstAt

\* When a response has nothing additional, the chain includes all its calls that
\* pass the filter.
LEMMA NothingFound ==
  ASSUME NEW chain, NEW resp, NEW filteredOut, DOMAIN chain \subseteq Nat,
         ~ FoundAdditional(chain, resp, filteredOut),
         NEW k \in Passing(resp, filteredOut)
  PROVE  Includes(chain, resp[k])
<1>1. ~ IsNews(chain, resp[k])
  BY DEF FoundAdditional
<1>2. /\ At(chain, resp[k].id) # {}
      /\ resp[k].colls \subseteq chain[FirstAt(chain, resp[k].id)].colls
  BY <1>1 DEF IsNews
<1> QED BY <1>2, FirstAtIsAt DEF Includes, At

\* A merged call keeps the chaincode and all collections of the response's.
LEMMA MergedCall ==
  ASSUME NEW chain, NEW call
  PROVE  /\ MergeCCCall(chain, call).id = call.id
         /\ call.colls \subseteq MergeCCCall(chain, call).colls
BY DEF MergeCCCall, Call

\* newInvocationChain loses no call of a chain that has each chaincode once.
LEMMA NothingLost ==
  ASSUME NEW cc, NEW chain, DOMAIN chain \subseteq Nat \ {0}, OncePerID(chain),
         NEW k \in DOMAIN chain
  PROVE  \E j \in DOMAIN NewInvocationChain(cc, chain) :
           /\ NewInvocationChain(cc, chain)[j].id = chain[k].id
           /\ NewInvocationChain(cc, chain)[j].colls = chain[k].colls
<1>1. DOMAIN NewInvocationChain(cc, chain) = {0} \cup (DOMAIN chain \ At(chain, cc))
  BY DEF NewInvocationChain
<1>2. CASE chain[k].id # cc
  <2>1. k \in DOMAIN chain \ At(chain, cc) /\ k # 0
    BY <1>2 DEF At
  <2>2. NewInvocationChain(cc, chain)[k] = chain[k]
    BY <2>1 DEF NewInvocationChain
  <2> QED BY <1>1, <2>1, <2>2
<1>3. CASE chain[k].id = cc
  <2>1. At(chain, cc) = {k}
    BY <1>3 DEF At, OncePerID
  <2>2. LastAt(chain, cc) = k
    BY <2>1 DEF LastAt
  <2>3. NewInvocationChain(cc, chain)[0] = Call(cc, chain[k].colls)
    BY <2>1, <2>2 DEF NewInvocationChain
  <2> QED BY <1>1, <1>3, <2>3 DEF Call
<1> QED BY <1>2, <1>3

\* The chain that additional endorsers are selected for includes all calls of the
\* response that pass the filter, whatever the chain before was.
LEMMA MergedIncludes ==
  ASSUME NEW cc, NEW chain, NEW resp, NEW filteredOut,
         DOMAIN resp \subseteq Nat \ {0}, OncePerID(resp),
         NEW k \in Passing(resp, filteredOut)
  PROVE  Includes(NewInvocationChain(cc, MergeInvocationChains(chain, resp, filteredOut)), resp[k])
<1> DEFINE merged == MergeInvocationChains(chain, resp, filteredOut)
<1>1. DOMAIN merged = Passing(resp, filteredOut) /\ Passing(resp, filteredOut) \subseteq DOMAIN resp
  BY DEF MergeInvocationChains, Passing
<1>2. \A j \in DOMAIN merged : merged[j] = MergeCCCall(chain, resp[j])
  BY DEF MergeInvocationChains
<1>3. \A j \in DOMAIN merged : merged[j].id = resp[j].id /\ resp[j].colls \subseteq merged[j].colls
  BY <1>2, MergedCall
<1> HIDE DEF merged
<1>4. DOMAIN merged \subseteq Nat \ {0} /\ OncePerID(merged)
  BY <1>1, <1>3 DEF OncePerID
<1>5. PICK j \in DOMAIN NewInvocationChain(cc, merged) :
        /\ NewInvocationChain(cc, merged)[j].id = merged[k].id
        /\ NewInvocationChain(cc, merged)[j].colls = merged[k].colls
  BY <1>1, <1>4, NothingLost
<1>6. Includes(NewInvocationChain(cc, merged), resp[k])
  BY <1>1, <1>3, <1>5 DEF Includes
<1> QED BY <1>6 DEF merged

LEMMA NewChainPositions ==
  ASSUME NEW cc, NEW chain, DOMAIN chain \subseteq Nat
  PROVE  DOMAIN NewInvocationChain(cc, chain) \subseteq Nat
BY DEF NewInvocationChain

LEMMA NewChainOncePerID ==
  ASSUME NEW cc, NEW chain, DOMAIN chain \subseteq Nat \ {0}, OncePerID(chain)
  PROVE  OncePerID(NewInvocationChain(cc, chain))
<1> DEFINE new == NewInvocationChain(cc, chain)
<1>1. DOMAIN new = {0} \cup (DOMAIN chain \ At(chain, cc))
  BY DEF NewInvocationChain
<1>2. new[0].id = cc
  BY DEF NewInvocationChain, Call
<1>3. \A k \in DOMAIN new \ {0} : new[k] = chain[k] /\ k \in DOMAIN chain /\ chain[k].id # cc
  BY DEF NewInvocationChain, At
<1> HIDE DEF new
<1>4. OncePerID(new)
  BY <1>1, <1>2, <1>3 DEF OncePerID
<1> QED BY <1>4 DEF new

LEMMA MergedOncePerID ==
  ASSUME NEW chain, NEW resp, NEW filteredOut, DOMAIN resp \subseteq Nat \ {0}, OncePerID(resp)
  PROVE  /\ DOMAIN MergeInvocationChains(chain, resp, filteredOut) \subseteq Nat \ {0}
         /\ OncePerID(MergeInvocationChains(chain, resp, filteredOut))
<1> DEFINE merged == MergeInvocationChains(chain, resp, filteredOut)
<1>1. DOMAIN merged = Passing(resp, filteredOut) /\ Passing(resp, filteredOut) \subseteq DOMAIN resp
  BY DEF MergeInvocationChains, Passing
<1>2. \A j \in DOMAIN merged : merged[j] = MergeCCCall(chain, resp[j])
  BY DEF MergeInvocationChains
<1>3. \A j \in DOMAIN merged : merged[j].id = resp[j].id
  BY <1>2, MergedCall
<1> HIDE DEF merged
<1>4. DOMAIN merged \subseteq Nat \ {0} /\ OncePerID(merged)
  BY <1>1, <1>3 DEF OncePerID
<1> QED BY <1>4 DEF merged

-------------------------------------------------------------------------------
(* Theorems.                                                                 *)

\* One additional round is enough: once its endorsers were selected for the merged
\* chain, the same response has nothing additional any more (mergeInvocationChains).
THEOREM OneMergeSettles ==
  ASSUME NEW cc, NEW chain, NEW resp, NEW filteredOut,
         DOMAIN resp \subseteq Nat \ {0}, OncePerID(resp)
  PROVE  ~ FoundAdditional(
             NewInvocationChain(cc, MergeInvocationChains(chain, resp, filteredOut)),
             resp, filteredOut)
<1> DEFINE new == NewInvocationChain(cc, MergeInvocationChains(chain, resp, filteredOut))
<1>1. OncePerID(new)
  BY MergedOncePerID, NewChainOncePerID
<1>2. \A k \in Passing(resp, filteredOut) : Includes(new, resp[k])
  BY MergedIncludes
<1>3. DOMAIN new \subseteq Nat
  BY MergedOncePerID, NewChainPositions
<1> HIDE DEF new
<1>4. ASSUME NEW k \in Passing(resp, filteredOut) PROVE ~ IsNews(new, resp[k])
  <2>1. PICK j \in DOMAIN new : new[j].id = resp[k].id /\ resp[k].colls \subseteq new[j].colls
    BY <1>2 DEF Includes
  <2>2. At(new, resp[k].id) = {j}
    BY <1>1, <2>1 DEF At, OncePerID
  <2>3. FirstAt(new, resp[k].id) = j
    BY <1>3, <2>1, <2>2 DEF FirstAt
  <2> QED BY <2>1, <2>2, <2>3 DEF IsNews
<1>5. ~ FoundAdditional(new, resp, filteredOut)
  BY <1>4 DEF FoundAdditional
<1> QED BY <1>5 DEF new
===============================================================================
