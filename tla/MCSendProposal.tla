---------------------------- MODULE MCSendProposal ----------------------------
(* SendProposal with three peers, two of them at one URL, and a processor     *)
(* that is not a fab.Peer, in target lists of up to MaxTargets entries.       *)
EXTENDS SendProposal, TLC

CONSTANTS p1, p2, p3, plain, MaxTargets

MCPeers == {p1, p2, p3}
MCProcessors == MCPeers \cup {plain}
MCURL == p1 :> "localhost:7051" @@ p2 :> "localhost:7051" @@ p3 :> "other:7051"
MCTargetLists ==
  UNION {[1..n -> MCProcessors \cup {Nil}] : n \in 0..MaxTargets}
===============================================================================
