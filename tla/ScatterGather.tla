---------------------------- MODULE ScatterGather ----------------------------
(***************************************************************************)
(* What one round of proposals promises its caller, with nothing of how it *)
(* is carried out: a fixed set of endpoints is asked, each one answers     *)
(* once, in any order, with a response or with an error, and the round     *)
(* returns when every answer is in.  The call fails if one endpoint did.   *)
(* It may also be rejected, before anyone was asked.                       *)
(*                                                                         *)
(* SendProposal.tla implements this round with goroutines, a mutex and a   *)
(* wait group; DelegateInvoke.tla uses the round as one step.              *)
(***************************************************************************)
EXTENDS Naturals, Sequences

VARIABLES
  asked,      \* the endpoints the round asks, named by their position
  responses,  \* the endpoints that answered with a response, as they came
  errs,       \* the endpoints that answered with an error, as they came
  outcome     \* "none" until the round returns

vars == <<asked, responses, errs, outcome>>

Elems(s) == {s[k] : k \in DOMAIN s}

Answered == Elems(responses) \cup Elems(errs)

Init ==
  /\ asked \in SUBSET Nat
  /\ responses = <<>>
  /\ errs = <<>>
  /\ outcome = "none"

Reject ==
  /\ outcome = "none"
  /\ Answered = {}
  /\ outcome' = "rejected"
  /\ UNCHANGED <<asked, responses, errs>>

Answer(i) ==
  /\ outcome = "none"
  /\ i \in asked \ Answered
  /\ \/ responses' = Append(responses, i) /\ errs' = errs
     \/ errs' = Append(errs, i) /\ responses' = responses
  /\ UNCHANGED <<asked, outcome>>

Return ==
  /\ outcome = "none"
  /\ Answered = asked
  /\ outcome' = IF errs = <<>> THEN "ok" ELSE "failed"
  /\ UNCHANGED <<asked, responses, errs>>

Next ==
  \/ Reject
  \/ \E i \in asked : Answer(i)
  \/ Return

Spec == Init /\ [][Next]_vars
=============================================================================
