----------------------------- MODULE Transaction -----------------------------
(***************************************************************************)
(* What an application may count on when it has a transaction carried out  *)
(* by a delegate: each transaction is decided at most once, success and    *)
(* refusal are reported after the decision, success only for a transaction *)
(* that is valid, and a report is final.  Any other outcome, "unknown", is *)
(* possible at any time and tells nothing: the transaction may be decided  *)
(* before or later.                                                        *)
(***************************************************************************)
CONSTANTS
  Applications,   \* who has transactions carried out
  Transactions,
  Results,        \* what a valid transaction may result in
  Undecided       \* no result

VARIABLES
  transaction,    \* of each application
  decision,       \* of each transaction: Undecided, "invalid" or its result
  report          \* what each application was told at last

Init ==
  /\ transaction \in [Applications -> Transactions]
  /\ decision = [t \in Transactions |-> Undecided]
  /\ report = [a \in Applications |-> "none"]

Decide(t) ==
  /\ decision[t] = Undecided
  /\ \E d \in Results \cup {"invalid"} : decision' = [decision EXCEPT ![t] = d]
  /\ UNCHANGED <<transaction, report>>

Report(a) ==
  /\ report[a] = "none"
  /\ \E r \in {"success", "refusal", "unknown"} :
       /\ r = "success" => decision[transaction[a]] \in Results
       /\ r = "refusal" => decision[transaction[a]] # Undecided
       /\ report' = [report EXCEPT ![a] = r]
  /\ UNCHANGED <<transaction, decision>>

Next == (\E t \in Transactions : Decide(t)) \/ (\E a \in Applications : Report(a))

Spec == Init /\ [][Next]_<<transaction, decision, report>>
===============================================================================
