---------------------------- MODULE RetriedRequest ----------------------------
(***************************************************************************)
(* What Client.DelegateInvokeHandler promises: a request is attempted once *)
(* and then again only after a failure that may be retried, a bounded      *)
(* number of times; whoever made it is answered once, with the outcome of  *)
(* the last attempt when no further one is due, or is told nothing about   *)
(* it.  Attempts may go on after that.                                     *)
(***************************************************************************)
EXTENDS Naturals

CONSTANTS
  Requests,
  Attempts     \* how many times an attempt may be repeated

VARIABLES
  made,        \* how many attempts of each request ended
  outcome,     \* how the last of them did: "none", "success", "failure", or
               \* "transient", which is a failure that may be retried
  answer       \* what the request was answered: "none" or "unknown", or the outcome

Init ==
  /\ made = [r \in Requests |-> 0]
  /\ outcome = [r \in Requests |-> "none"]
  /\ answer = [r \in Requests |-> "none"]

AnotherDue(r) ==
  \/ outcome[r] = "none"
  \/ outcome[r] = "transient" /\ made[r] <= Attempts

Attempt(r) ==
  /\ AnotherDue(r)
  /\ \E o \in {"success", "failure", "transient"} : outcome' = [outcome EXCEPT ![r] = o]
  /\ made' = [made EXCEPT ![r] = @ + 1]
  /\ UNCHANGED answer

Answer(r) ==
  /\ answer[r] = "none"
  /\ ~ AnotherDue(r)
  /\ answer' = [answer EXCEPT ![r] = outcome[r]]
  /\ UNCHANGED <<made, outcome>>

AnswerNothing(r) ==
  /\ answer[r] = "none"
  /\ answer' = [answer EXCEPT ![r] = "unknown"]
  /\ UNCHANGED <<made, outcome>>

Next == \E r \in Requests : Attempt(r) \/ Answer(r) \/ AnswerNothing(r)

Spec == Init /\ [][Next]_<<made, outcome, answer>>
===============================================================================
