----------------------------- MODULE SendProposal -----------------------------
(***************************************************************************)
(* SendSignedProposal (pkg/fab/txn/proposal.go): one signed proposal is    *)
(* sent to a list of proposal processors at once, by one goroutine each.   *)
(* The goroutines append what they get to two slices the caller owns,      *)
(* under one mutex, and the caller returns both slices once the wait group *)
(* lets it through.                                                        *)
(*                                                                         *)
(* A goroutine is named by the position of its target in the argument      *)
(* list; responses and errors are named by the goroutine they came from.   *)
(***************************************************************************)
EXTENDS Integers, Sequences, FiniteSets

CONSTANTS
  Processors,   \* the proposal processors a caller may name
  Peers,        \* those that are a fab.Peer, and so have a URL
  Nil,          \* a nil entry of the target list
  URL,          \* the URL of each peer
  TargetLists   \* the target lists the function is called with

ASSUME PeersAreProcessors == Peers \subseteq Processors
ASSUME NilIsNoProcessor == Nil \notin Processors
ASSUME ListsAreLists == TargetLists \subseteq Seq(Processors \cup {Nil})

VARIABLES
  proposal,   \* the proposal argument is not nil
  targets,    \* the targets argument
  pc,         \* where the caller is
  wg,         \* the counter of the wait group
  mtx,        \* the goroutine that holds responseMtx, Free if none does
  worker,     \* where each goroutine is
  answer,     \* what the processor of each goroutine answered
  snap,       \* the slice a goroutine read and is about to append to
  responses,  \* transactionProposalResponses
  errs,       \* errs
  outcome     \* what the function returned: rejected, a nil error or an error

args == <<proposal, targets>>
vars == <<proposal, targets, pc, wg, mtx, worker, answer, snap, responses,
          errs, outcome>>

Free == 0

Positions == DOMAIN targets

(***************************************************************************)
(* The targets that are asked.  getTargetsWithoutDuplicates keeps the      *)
(* first target of each URL, but gives the list back as it was as soon as  *)
(* one entry is not a fab.Peer.                                            *)
(***************************************************************************)
FirstOfItsURL(ts, i) == \A j \in 1..(i - 1) : URL[ts[j]] # URL[ts[i]]

\* A slip: the duplicates are left in.
KeptWithDuplicates(ts) == DOMAIN ts

Kept(ts) ==
  IF \A i \in DOMAIN ts : ts[i] \in Peers
  THEN {i \in DOMAIN ts : FirstOfItsURL(ts, i)}
  ELSE DOMAIN ts

ArgumentsOK ==
  /\ proposal
  /\ targets # <<>>
  /\ \A i \in Positions : targets[i] # Nil

Init ==
  /\ proposal \in BOOLEAN
  /\ targets \in TargetLists
  /\ pc = "check"
  /\ wg = 0
  /\ mtx = Free
  /\ worker = [i \in Positions |-> "none"]
  /\ answer = [i \in Positions |-> "none"]
  /\ snap = [i \in Positions |-> <<>>]
  /\ responses = <<>>
  /\ errs = <<>>
  /\ outcome = "none"

-------------------------------------------------------------------------------
(* Slips in this code, each of which a property below must notice.           *)

\* wg.Wait() is forgotten.
ReturnWithoutWait ==
  /\ pc = "wait"
  /\ pc' = "returned"
  /\ outcome' = IF errs = <<>> THEN "ok" ELSE "failed"
  /\ UNCHANGED <<args, wg, mtx, worker, answer, snap, responses, errs>>

\* responseMtx.Lock() is forgotten.
AcquireWithoutLock(i) ==
  /\ worker[i] = "answered"
  /\ mtx' = i
  /\ snap' = [snap EXCEPT ![i] = IF answer[i] = "ok" THEN responses ELSE errs]
  /\ worker' = [worker EXCEPT ![i] = "holding"]
  /\ UNCHANGED <<args, pc, wg, answer, responses, errs, outcome>>

\* The error path logs the error and drops it.
ReleaseDroppingErrors(i) ==
  /\ worker[i] = "holding"
  /\ responses' = IF answer[i] = "ok" THEN Append(snap[i], i) ELSE responses
  /\ mtx' = Free
  /\ worker' = [worker EXCEPT ![i] = "leaving"]
  /\ UNCHANGED <<args, pc, wg, answer, snap, errs, outcome>>

\* The error path returns without responseMtx.Unlock().
ReleaseKeepingTheLock(i) ==
  /\ worker[i] = "holding"
  /\ \/ /\ answer[i] = "ok"
        /\ responses' = Append(snap[i], i)
        /\ mtx' = Free
        /\ errs' = errs
     \/ /\ answer[i] = "err"
        /\ errs' = Append(snap[i], i)
        /\ UNCHANGED <<responses, mtx>>
  /\ worker' = [worker EXCEPT ![i] = "leaving"]
  /\ UNCHANGED <<args, pc, wg, answer, snap, outcome>>

\* The error path calls wg.Done() itself, and then the deferred one does.
ReplyWithEarlyDone(i, a) ==
  /\ worker[i] = "calling"
  /\ answer' = [answer EXCEPT ![i] = a]
  /\ worker' = [worker EXCEPT ![i] = "answered"]
  /\ wg' = IF a = "err" THEN wg - 1 ELSE wg
  /\ UNCHANGED <<args, pc, mtx, snap, responses, errs, outcome>>

-------------------------------------------------------------------------------
(* The caller.                                                               *)

Reject ==
  /\ pc = "check"
  /\ ~ ArgumentsOK
  /\ pc' = "returned"
  /\ outcome' = "rejected"
  /\ UNCHANGED <<args, wg, mtx, worker, answer, snap, responses, errs>>

Accept ==
  /\ pc = "check"
  /\ ArgumentsOK
  /\ pc' = "spawn"
  /\ UNCHANGED <<args, wg, mtx, worker, answer, snap, responses, errs, outcome>>

\* wg.Add(1) and the go statement, for the next target of the list.
Spawn(i) ==
  /\ pc = "spawn"
  /\ i \in Kept(targets)
  /\ worker[i] = "none"
  /\ \A j \in Kept(targets) : j < i => worker[j] # "none"
  /\ wg' = wg + 1
  /\ worker' = [worker EXCEPT ![i] = "calling"]
  /\ UNCHANGED <<args, pc, mtx, answer, snap, responses, errs, outcome>>

EndLoop ==
  /\ pc = "spawn"
  /\ \A i \in Kept(targets) : worker[i] # "none"
  /\ pc' = "wait"
  /\ UNCHANGED <<args, wg, mtx, worker, answer, snap, responses, errs, outcome>>

\* wg.Wait() is over, and errs.ToError() is nil for an empty list.
Return ==
  /\ pc = "wait"
  /\ wg = 0
  /\ pc' = "returned"
  /\ outcome' = IF errs = <<>> THEN "ok" ELSE "failed"
  /\ UNCHANGED <<args, wg, mtx, worker, answer, snap, responses, errs>>

-------------------------------------------------------------------------------
(* The goroutine of target i.                                                *)

\* ProcessTransactionProposal comes back: with a response, or with an error,
\* the end of the request's context included.
Reply(i, a) ==
  /\ worker[i] = "calling"
  /\ answer' = [answer EXCEPT ![i] = a]
  /\ worker' = [worker EXCEPT ![i] = "answered"]
  /\ UNCHANGED <<args, pc, wg, mtx, snap, responses, errs, outcome>>

\* responseMtx.Lock(), and the slice is read to be appended to.
Acquire(i) ==
  /\ worker[i] = "answered"
  /\ mtx = Free
  /\ mtx' = i
  /\ snap' = [snap EXCEPT ![i] = IF answer[i] = "ok" THEN responses ELSE errs]
  /\ worker' = [worker EXCEPT ![i] = "holding"]
  /\ UNCHANGED <<args, pc, wg, answer, responses, errs, outcome>>

\* The longer slice is assigned, then responseMtx.Unlock().
Release(i) ==
  /\ worker[i] = "holding"
  /\ \/ /\ answer[i] = "ok"
        /\ responses' = Append(snap[i], i)
        /\ errs' = errs
     \/ /\ answer[i] = "err"
        /\ errs' = Append(snap[i], i)
        /\ responses' = responses
  /\ mtx' = Free
  /\ worker' = [worker EXCEPT ![i] = "leaving"]
  /\ UNCHANGED <<args, pc, wg, answer, snap, outcome>>

\* The deferred wg.Done().
Done(i) ==
  /\ worker[i] = "leaving"
  /\ wg' = wg - 1
  /\ worker' = [worker EXCEPT ![i] = "done"]
  /\ UNCHANGED <<args, pc, mtx, answer, snap, responses, errs, outcome>>

-------------------------------------------------------------------------------
Caller ==
  \/ Reject
  \/ Accept
  \/ \E i \in Positions : Spawn(i)
  \/ EndLoop
  \/ Return

Goroutine(i) ==
  \/ \E a \in {"ok", "err"} : Reply(i, a)
  \/ Acquire(i)
  \/ Release(i)
  \/ Done(i)

Next ==
  \/ Caller
  \/ \E i \in Positions : Goroutine(i)

Spec == Init /\ [][Next]_vars

\* No goroutine that can run is left waiting for ever, and every processor
\* answers at last: the request's context ends with the PeerResponse timeout.
FairSpec == Spec /\ WF_vars(Next)

-------------------------------------------------------------------------------
(* Properties.                                                               *)

Elems(s) == {s[k] : k \in DOMAIN s}

\* The goroutines that were started and did not call wg.Done() yet.
Running == {i \in Positions : worker[i] \notin {"none", "done"}}

TypeOK ==
  /\ proposal \in BOOLEAN
  /\ targets \in TargetLists
  /\ pc \in {"check", "spawn", "wait", "returned"}
  /\ wg \in Nat
  /\ mtx \in Positions \cup {Free}
  /\ worker \in [Positions ->
       {"none", "calling", "answered", "holding", "leaving", "done"}]
  /\ answer \in [Positions -> {"none", "ok", "err"}]
  /\ snap \in [Positions -> Seq(Positions)]
  /\ responses \in Seq(Positions)
  /\ errs \in Seq(Positions)
  /\ outcome \in {"none", "rejected", "ok", "failed"}

\* What the caller gets is what the processors said: no append was lost or made
\* twice by two goroutines that read the same slice, no error is hidden, and no
\* answer is missing (proposal.go:43-59).
EveryAnswerReturned ==
  outcome \in {"ok", "failed"} =>
    /\ Elems(responses) = {i \in Kept(targets) : answer[i] = "ok"}
    /\ Elems(errs) = {i \in Kept(targets) : answer[i] = "err"}
    /\ \A j, k \in DOMAIN responses : responses[j] = responses[k] => j = k
    /\ \A j, k \in DOMAIN errs : errs[j] = errs[k] => j = k
    /\ outcome = "ok" <=> \A i \in Kept(targets) : answer[i] = "ok"

\* When all targets are peers, each URL of the list is asked once, however often
\* the list names it, and its answer is returned (proposal.go:63-84).
EachURLAskedOnce ==
  (\A i \in Positions : targets[i] \in Peers) =>
    /\ \A i, j \in Positions :
         worker[i] # "none" /\ worker[j] # "none" /\ i # j
           => URL[targets[i]] # URL[targets[j]]
    /\ outcome \in {"ok", "failed"} =>
         \A i \in Positions : \E j \in Elems(responses) \cup Elems(errs) :
           URL[targets[j]] = URL[targets[i]]

\* Once the call returned its slices nobody writes to them, and no goroutine of
\* it is left: wg.Wait() is not passed early (proposal.go:38-59).
NoWriteAfterReturn ==
  [][pc = "returned" => UNCHANGED <<responses, errs, mtx, worker>>]_vars

\* The call returns: the mutex is given back on every path and wg reaches 0.
CallReturns == <>(pc = "returned")

\* The round of ScatterGather, with the goroutines, the mutex and the wait group
\* left out.
Round == INSTANCE ScatterGather WITH asked <- Kept(targets)

\* The function implements the round: its steps are the answers of the round, in
\* the order in which they got into the slices, and its return is the round's.
ImplementsRound == Round!Spec
===============================================================================
