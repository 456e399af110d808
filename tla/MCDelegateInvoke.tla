--------------------------- MODULE MCDelegateInvoke ---------------------------
(* One organisation per chaincode and one for a collection; the responses may *)
(* reveal a second chaincode, a collection, or lifecycle reads.               *)
EXTENDS DelegateInvoke, TLC

CONSTANTS pa, pa2, pb, pc, unparsable

MCPeers == {pa, pa2, pb, pc}
MCMSPID == pa :> "A" @@ pa2 :> "A" @@ pb :> "B" @@ pc :> "C"

\* Peers of two organisations have one URL, as in test/fixtures/sample/fabric.yaml.
MCURL == pa :> "a" @@ pa2 :> "ab" @@ pb :> "ab" @@ pc :> "c"

\* cc is endorsed by A, other by B, and third by B or C; writing to the
\* collection needs C too.
MCPolicy ==
  "cc" :> {{"A"}} @@ "other" :> {{"B"}} @@ "third" :> {{"B"}, {"C"}}
    @@ "coll" :> {{"C"}} @@ "lscc" :> {{}}

MCFilteredOut == {"hidden"}

Plainly(id) == Call(id, {})

MCRWSets ==
  { <<Plainly("cc")>>,
    <<Plainly("lscc"), Plainly("hidden"), Plainly("cc"), Plainly("other")>>,
    <<Call("cc", {"coll"})>>,
    <<Call("cc", {"coll"}), Plainly("third")>>,
    unparsable }

In(mode, targets, chain, accepts, ready) ==
  [mode |-> mode, targets |-> targets, cc |-> "cc", chain |-> chain,
   accepts |-> accepts, ready |-> ready]

MCInputs ==
  {In(m, {}, EmptyChain, MCPeers, TRUE) : m \in Modes}
    \cup {In("invoke", {pa, pb}, EmptyChain, MCPeers, TRUE),
          In("invoke", {}, <<Plainly("other")>>, MCPeers, TRUE),
          In("endorse", {}, EmptyChain, MCPeers \ {pa2}, FALSE),
          In("query", {pa, pa2}, EmptyChain, {}, TRUE),
          \* a chaincode that nobody has to endorse, and no peer that is accepted
          [In("query", {}, EmptyChain, {}, TRUE) EXCEPT !.cc = "lscc"]}

MCRetryable == {"selection", "connection", "additional", "invalid"}

\* For the run of two calls that share the greylist.
SharedPeers == {pa, pb}
SharedInputs ==
  {In("invoke", {}, EmptyChain, SharedPeers, TRUE), In("query", {pa}, EmptyChain, {}, TRUE)}
SharedRWSets == {<<Plainly("cc"), Plainly("other")>>}
SharedRetryable == {"connection", "additional"}

\* For the run with a chain provided in the request.
ChainInputs == {In("invoke", {}, <<Plainly("other")>>, MCPeers, TRUE)}
===============================================================================
