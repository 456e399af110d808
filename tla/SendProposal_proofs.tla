------------------------- MODULE SendProposal_proofs -------------------------
(***************************************************************************)
(* Proofs about SendProposal, for every set of processors and every target *)
(* list.  The inductive invariant says where every answer is at any time:  *)
(* with its goroutine, or in one of the slices; and that the counter of    *)
(* the wait group is the number of goroutines that run.                    *)
(***************************************************************************)
EXTENDS SendProposal, FiniteSetTheorems, WellFoundedInduction, TLAPS

Injective(s) == \A j, k \in DOMAIN s : s[j] = s[k] => j = k

\* The goroutines whose answer a is in its slice.
Recorded(a) == {i \in Positions : worker[i] \in {"leaving", "done"} /\ answer[i] = a}

\* Goroutines are started for the kept targets only, and all of them are before
\* the caller waits.
Started ==
  /\ \A i \in Positions : worker[i] # "none" => i \in Kept(targets)
  /\ pc = "check" \/ outcome = "rejected" => \A i \in Positions : worker[i] = "none"
  /\ pc = "wait" \/ outcome \in {"ok", "failed"}
       => \A i \in Kept(targets) : worker[i] # "none"

\* The mutex: its holder, and nobody else, is about to assign a slice, and has
\* read it as it is.
Locked ==
  /\ \A i \in Positions : worker[i] = "holding" <=> mtx = i
  /\ \A i \in Positions :
       worker[i] = "holding" => snap[i] = IF answer[i] = "ok" THEN responses ELSE errs

\* Every answer that was given is where it belongs, once.
Collected ==
  /\ \A i \in Positions : worker[i] \in {"none", "calling"} <=> answer[i] = "none"
  /\ Elems(responses) = Recorded("ok")
  /\ Elems(errs) = Recorded("err")
  /\ Injective(responses)
  /\ Injective(errs)

\* The wait group counts the goroutines that run; none does once the call is
\* over.
Counted ==
  /\ wg = Cardinality(Running)
  /\ pc = "returned" => Running = {}

Outcome ==
  /\ outcome = "none" <=> pc # "returned"
  /\ outcome = "ok" => errs = <<>>
  /\ outcome = "failed" => errs # <<>>

IInv == TypeOK /\ Started /\ Locked /\ Collected /\ Counted /\ Outcome

-------------------------------------------------------------------------------
(* Lemmas.                                                                   *)

\* Goroutines are named by numbers from 1, finitely many, and Free is none.
LEMMA PositionsFinite ==
  ASSUME TypeOK
  PROVE  /\ Len(targets) \in Nat
         /\ Positions = 1..Len(targets)
         /\ IsFiniteSet(Positions)
         /\ Free \notin Positions
<1>1. targets \in Seq(Processors \cup {Nil})
  BY ListsAreLists DEF TypeOK
<1>2. Len(targets) \in Nat /\ Positions = 1..Len(targets)
  BY <1>1 DEF Positions
<1>3. IsFiniteSet(Positions)
  BY <1>2, FS_Interval
<1>4. Free \notin Positions
  BY <1>2 DEF Free
<1> QED BY <1>2, <1>3, <1>4

\* What appending a new element does to the elements of a slice.
LEMMA AppendElems ==
  ASSUME NEW S, NEW s \in Seq(S), NEW e \in S
  PROVE  /\ Append(s, e) \in Seq(S)
         /\ Append(s, e) # <<>>
         /\ Elems(Append(s, e)) = Elems(s) \cup {e}
         /\ Injective(s) /\ e \notin Elems(s) => Injective(Append(s, e))
<1> DEFINE t == Append(s, e)
<1>1. /\ t \in Seq(S) /\ Len(t) = Len(s) + 1
      /\ DOMAIN t = 1..(Len(s) + 1) /\ DOMAIN s = 1..Len(s) /\ Len(s) \in Nat
      /\ \A k \in 1..Len(s) : t[k] = s[k]
      /\ t[Len(s) + 1] = e
  OBVIOUS
<1>2. t # <<>>
  BY <1>1
<1>3. Elems(t) = Elems(s) \cup {e}
  <2>1. Elems(t) \subseteq Elems(s) \cup {e}
    BY <1>1 DEF Elems
  <2>2. Elems(s) \cup {e} \subseteq Elems(t)
    BY <1>1 DEF Elems
  <2> QED BY <2>1, <2>2
<1>4. ASSUME Injective(s), e \notin Elems(s)
      PROVE  Injective(t)
  <2> SUFFICES ASSUME NEW j \in DOMAIN t, NEW k \in DOMAIN t, t[j] = t[k]
               PROVE  j = k
    BY DEF Injective
  <2>1. CASE j \in 1..Len(s) /\ k \in 1..Len(s)
    BY <2>1, <1>1, <1>4 DEF Injective
  <2>2. CASE j = Len(s) + 1 /\ k \in 1..Len(s)
    BY <2>2, <1>1, <1>4 DEF Elems
  <2>3. CASE k = Len(s) + 1 /\ j \in 1..Len(s)
    BY <2>3, <1>1, <1>4 DEF Elems
  <2>4. CASE j = Len(s) + 1 /\ k = Len(s) + 1
    BY <2>4
  <2> QED BY <1>1, <2>1, <2>2, <2>3, <2>4
<1> QED BY <1>1, <1>2, <1>3, <1>4

LEMMA EmptySlice == Elems(<<>>) = {} /\ Injective(<<>>)
  BY DEF Elems, Injective

LEMMA InitIInv == Init => IInv
<1> SUFFICES ASSUME Init PROVE IInv
  OBVIOUS
<1>1. TypeOK
  BY DEF Init, TypeOK
<1>2. Started /\ Outcome
  BY DEF Init, Started, Outcome
<1>3. Locked
  BY <1>1, PositionsFinite DEF Init, Locked
<1>4. Collected
  BY EmptySlice DEF Init, Collected, Recorded
<1>5. Counted
  <2>1. Running = {}
    BY DEF Init, Running
  <2> QED BY <2>1, FS_EmptySet DEF Init, Counted
<1> QED BY <1>1, <1>2, <1>3, <1>4, <1>5 DEF IInv

-------------------------------------------------------------------------------
(* One lemma for each action: it preserves the invariant.                    *)

LEMMA RejectStep == IInv /\ Reject => IInv'
<1> SUFFICES ASSUME IInv, Reject PROVE IInv'
  OBVIOUS
<1> USE DEF Positions, args
<1>1. TypeOK'
  BY DEF IInv, TypeOK, Reject
<1>2. \A i \in Positions : worker[i] = "none"
  BY DEF IInv, Started, Reject
<1>3. (Started /\ Outcome)'
  BY <1>2 DEF IInv, Started, Outcome, Reject
<1>4. Locked' /\ Collected'
  BY DEF IInv, Locked, Collected, Recorded, Reject
<1>5. Counted'
  <2>1. Running = {} /\ Running' = Running
    BY <1>2 DEF Running, Reject
  <2> QED BY <2>1 DEF IInv, Counted, Reject
<1> QED BY <1>1, <1>3, <1>4, <1>5 DEF IInv

LEMMA AcceptStep == IInv /\ Accept => IInv'
<1> SUFFICES ASSUME IInv, Accept PROVE IInv'
  OBVIOUS
<1> USE DEF Positions, args
<1>1. TypeOK'
  BY DEF IInv, TypeOK, Accept
<1>2. (Started /\ Outcome)'
  BY DEF IInv, Started, Outcome, Accept
<1>3. Locked' /\ Collected' /\ Counted'
  BY DEF IInv, Locked, Collected, Recorded, Counted, Running, Accept
<1> QED BY <1>1, <1>2, <1>3 DEF IInv

LEMMA SpawnStep ==
  ASSUME IInv, NEW i \in Positions, Spawn(i)
  PROVE  IInv'
<1> USE DEF Positions, args
<1>1. TypeOK'
  BY DEF IInv, TypeOK, Spawn
<1>2. (Started /\ Outcome)'
  BY DEF IInv, TypeOK, Started, Outcome, Spawn
<1>3. Locked'
  BY DEF IInv, TypeOK, Locked, Spawn
<1>4. Collected'
  <2>1. Recorded("ok")' = Recorded("ok") /\ Recorded("err")' = Recorded("err")
    BY DEF IInv, TypeOK, Recorded, Spawn
  <2> QED BY <2>1 DEF IInv, TypeOK, Collected, Spawn
<1>5. Counted'
  <2>1. Running' = Running \cup {i} /\ i \notin Running
    BY DEF IInv, TypeOK, Running, Spawn
  <2>2. IsFiniteSet(Running)
    BY PositionsFinite, FS_Subset DEF IInv, Running
  <2>3. Cardinality(Running') = Cardinality(Running) + 1
    BY <2>1, <2>2, FS_AddElement
  <2> QED BY <2>3 DEF IInv, Counted, Spawn
<1> QED BY <1>1, <1>2, <1>3, <1>4, <1>5 DEF IInv

LEMMA EndLoopStep == IInv /\ EndLoop => IInv'
<1> SUFFICES ASSUME IInv, EndLoop PROVE IInv'
  OBVIOUS
<1> USE DEF Positions, args
<1>1. TypeOK'
  BY DEF IInv, TypeOK, EndLoop
<1>2. (Started /\ Outcome)'
  BY DEF IInv, Started, Outcome, EndLoop
<1>3. Locked' /\ Collected' /\ Counted'
  BY DEF IInv, Locked, Collected, Recorded, Counted, Running, EndLoop
<1> QED BY <1>1, <1>2, <1>3 DEF IInv

\* When the counter is 0 no goroutine runs.
LEMMA ReturnStep == IInv /\ Return => IInv'
<1> SUFFICES ASSUME IInv, Return PROVE IInv'
  OBVIOUS
<1> USE DEF Positions, args
<1>1. TypeOK'
  BY DEF IInv, TypeOK, Return
<1>2. (Started /\ Outcome)'
  BY DEF IInv, Started, Outcome, Return
<1>3. Locked' /\ Collected'
  BY DEF IInv, Locked, Collected, Recorded, Return
<1>4. Counted'
  <2>1. IsFiniteSet(Running)
    BY PositionsFinite, FS_Subset DEF IInv, Running
  <2>2. Running = {}
    BY <2>1, FS_EmptySet DEF IInv, Counted, Return
  <2>3. Running' = Running
    BY DEF Running, Return
  <2> QED BY <2>2, <2>3 DEF IInv, Counted, Return
<1> QED BY <1>1, <1>2, <1>3, <1>4 DEF IInv

LEMMA ReplyStep ==
  ASSUME IInv, NEW i \in Positions, NEW a \in {"ok", "err"}, Reply(i, a)
  PROVE  IInv'
<1> USE DEF Positions, args
<1>1. TypeOK'
  BY DEF IInv, TypeOK, Reply
<1>2. (Started /\ Outcome)'
  BY DEF IInv, TypeOK, Started, Outcome, Reply
<1>3. Locked'
  BY DEF IInv, TypeOK, Locked, Reply
<1>4. Collected'
  <2>1. Recorded("ok")' = Recorded("ok") /\ Recorded("err")' = Recorded("err")
    BY DEF IInv, TypeOK, Recorded, Reply
  <2> QED BY <2>1 DEF IInv, TypeOK, Collected, Reply
<1>5. Counted'
  <2>1. Running' = Running
    BY DEF IInv, TypeOK, Running, Reply
  <2> QED BY <2>1 DEF IInv, Counted, Reply
<1> QED BY <1>1, <1>2, <1>3, <1>4, <1>5 DEF IInv

LEMMA AcquireStep ==
  ASSUME IInv, NEW i \in Positions, Acquire(i)
  PROVE  IInv'
<1> USE DEF Positions, args
<1>1. TypeOK'
  BY DEF IInv, TypeOK, Acquire
<1>2. (Started /\ Outcome)'
  BY DEF IInv, TypeOK, Started, Outcome, Acquire
<1>3. Locked'
  BY PositionsFinite DEF IInv, TypeOK, Locked, Acquire
<1>4. Collected'
  <2>1. Recorded("ok")' = Recorded("ok") /\ Recorded("err")' = Recorded("err")
    BY DEF IInv, TypeOK, Recorded, Acquire
  <2> QED BY <2>1 DEF IInv, TypeOK, Collected, Acquire
<1>5. Counted'
  <2>1. Running' = Running
    BY DEF IInv, TypeOK, Running, Acquire
  <2> QED BY <2>1 DEF IInv, Counted, Acquire
<1> QED BY <1>1, <1>2, <1>3, <1>4, <1>5 DEF IInv

\* The slice that is assigned is the one it was read from, longer by one answer
\* that was in neither slice before.
LEMMA ReleaseStep ==
  ASSUME IInv, NEW i \in Positions, Release(i)
  PROVE  IInv'
<1> USE DEF Positions, args
<1>1. /\ worker[i] = "holding" /\ worker' = [worker EXCEPT ![i] = "leaving"]
      /\ worker \in [Positions ->
           {"none", "calling", "answered", "holding", "leaving", "done"}]
      /\ answer' = answer /\ answer[i] \in {"ok", "err"}
      /\ responses \in Seq(Positions) /\ errs \in Seq(Positions)
      /\ snap[i] = IF answer[i] = "ok" THEN responses ELSE errs
      /\ i \notin Recorded("ok") /\ i \notin Recorded("err")
  BY DEF IInv, TypeOK, Locked, Collected, Recorded, Release
<1>2. \/ answer[i] = "ok" /\ responses' = Append(responses, i) /\ errs' = errs
      \/ answer[i] = "err" /\ errs' = Append(errs, i) /\ responses' = responses
  BY <1>1 DEF Release
<1>3. responses' \in Seq(Positions) /\ errs' \in Seq(Positions)
  <2>1. Append(responses, i) \in Seq(Positions) /\ Append(errs, i) \in Seq(Positions)
    BY <1>1, AppendElems
  <2> QED BY <1>1, <1>2, <2>1
<1>4. TypeOK'
  BY <1>3 DEF IInv, TypeOK, Release
<1>5. Started'
  BY <1>1 DEF IInv, TypeOK, Started, Release
<1>6. pc # "returned"
  BY <1>1 DEF IInv, Counted, Running
<1>7. Outcome'
  BY <1>6 DEF IInv, Outcome, Release
<1>8. Locked'
  BY <1>1, PositionsFinite DEF IInv, TypeOK, Locked, Release
<1>9. Collected'
  <2>1. CASE answer[i] = "ok"
    <3>1. Recorded("ok")' = Recorded("ok") \cup {i} /\ Recorded("err")' = Recorded("err")
      BY <1>1, <2>1 DEF Recorded, Release
    <3>2. responses' = Append(responses, i) /\ errs' = errs
      BY <1>2, <2>1
    <3>3. Elems(responses') = Elems(responses) \cup {i} /\ Injective(responses')
      BY <1>1, <3>2, AppendElems DEF IInv, Collected
    <3>4. (\A j \in Positions : worker[j] \in {"none", "calling"} <=> answer[j] = "none")'
      BY <1>1, <2>1 DEF IInv, Collected, Release
    <3> QED BY <3>1, <3>2, <3>3, <3>4 DEF IInv, Collected
  <2>2. CASE answer[i] = "err"
    <3>1. Recorded("err")' = Recorded("err") \cup {i} /\ Recorded("ok")' = Recorded("ok")
      BY <1>1, <2>2 DEF Recorded, Release
    <3>2. errs' = Append(errs, i) /\ responses' = responses
      BY <1>2, <2>2
    <3>3. Elems(errs') = Elems(errs) \cup {i} /\ Injective(errs')
      BY <1>1, <3>2, AppendElems DEF IInv, Collected
    <3>4. (\A j \in Positions : worker[j] \in {"none", "calling"} <=> answer[j] = "none")'
      BY <1>1, <2>2 DEF IInv, Collected, Release
    <3> QED BY <3>1, <3>2, <3>3, <3>4 DEF IInv, Collected
  <2> QED BY <1>1, <2>1, <2>2
<1>10. Counted'
  <2>1. Running' = Running
    BY <1>1 DEF Running, Release
  <2> QED BY <2>1, <1>6 DEF IInv, Counted, Release
<1> QED BY <1>4, <1>5, <1>7, <1>8, <1>9, <1>10 DEF IInv

LEMMA DoneStep ==
  ASSUME IInv, NEW i \in Positions, Done(i)
  PROVE  IInv'
<1> USE DEF Positions, args
<1>1. Counted' /\ wg' \in Nat
  <2>1. Running' = Running \ {i} /\ i \in Running
    BY DEF IInv, TypeOK, Running, Done
  <2>2. IsFiniteSet(Running)
    BY PositionsFinite, FS_Subset DEF IInv, Running
  <2>3. Cardinality(Running') = Cardinality(Running) - 1 /\ IsFiniteSet(Running')
    BY <2>1, <2>2, FS_RemoveElement
  <2>4. wg' = Cardinality(Running')
    BY <2>3 DEF IInv, Counted, Done
  <2>5. Cardinality(Running') \in Nat
    BY <2>3, FS_CardinalityType
  <2>6. pc' # "returned"
    BY <2>1 DEF IInv, Counted, Done
  <2> QED BY <2>4, <2>5, <2>6 DEF Counted
<1>2. TypeOK'
  BY <1>1 DEF IInv, TypeOK, Done
<1>3. (Started /\ Outcome)'
  BY DEF IInv, TypeOK, Started, Outcome, Done
<1>4. Locked'
  BY DEF IInv, TypeOK, Locked, Done
<1>5. Collected'
  <2>1. Recorded("ok")' = Recorded("ok") /\ Recorded("err")' = Recorded("err")
    BY DEF IInv, TypeOK, Recorded, Done
  <2> QED BY <2>1 DEF IInv, TypeOK, Collected, Done
<1> QED BY <1>1, <1>2, <1>3, <1>4, <1>5 DEF IInv

LEMMA StutterStep == IInv /\ UNCHANGED vars => IInv'
  BY DEF IInv, TypeOK, Started, Locked, Collected, Recorded, Counted, Running,
         Outcome, Positions, vars, args

LEMMA NextIInv == IInv /\ [Next]_vars => IInv'
<1> SUFFICES ASSUME IInv, [Next]_vars PROVE IInv'
  OBVIOUS
<1>1. CASE Reject   BY <1>1, RejectStep
<1>2. CASE Accept   BY <1>2, AcceptStep
<1>3. CASE \E i \in Positions : Spawn(i)   BY <1>3, SpawnStep
<1>4. CASE EndLoop  BY <1>4, EndLoopStep
<1>5. CASE Return   BY <1>5, ReturnStep
<1>6. CASE \E i \in Positions : \E a \in {"ok", "err"} : Reply(i, a)
  BY <1>6, ReplyStep
<1>7. CASE \E i \in Positions : Acquire(i)   BY <1>7, AcquireStep
<1>8. CASE \E i \in Positions : Release(i)   BY <1>8, ReleaseStep
<1>9. CASE \E i \in Positions : Done(i)      BY <1>9, DoneStep
<1>10. CASE UNCHANGED vars   BY <1>10, StutterStep
<1> QED BY <1>1, <1>2, <1>3, <1>4, <1>5, <1>6, <1>7, <1>8, <1>9, <1>10
        DEF Next, Caller, Goroutine

LEMMA InvariantHolds == Spec => []IInv
<1> QED BY InitIInv, NextIInv, PTL DEF Spec

-------------------------------------------------------------------------------
(* Theorems.                                                                 *)

\* The variables have their types; the counter of the wait group never goes
\* below zero, where wg.Done() would panic.
THEOREM TypeCorrect == Spec => []TypeOK
<1>1. IInv => TypeOK
  BY DEF IInv
<1> QED BY <1>1, InvariantHolds, PTL

\* At the return the slices hold all answers, each of them once.
LEMMA IInvImpliesAnswers == IInv => EveryAnswerReturned
<1> SUFFICES ASSUME IInv, outcome \in {"ok", "failed"}
             PROVE  EveryAnswerReturned
  BY DEF EveryAnswerReturned
<1>1. \A i \in Kept(targets) : worker[i] = "done"
  BY DEF IInv, TypeOK, Outcome, Counted, Started, Running, Positions, Kept
<1>2. \A i \in Positions : worker[i] # "none" => i \in Kept(targets)
  BY DEF IInv, Started
<1>3. Kept(targets) \subseteq Positions
  BY DEF Kept, Positions
<1>4. /\ Recorded("ok") = {i \in Kept(targets) : answer[i] = "ok"}
      /\ Recorded("err") = {i \in Kept(targets) : answer[i] = "err"}
  BY <1>1, <1>2, <1>3 DEF Recorded
<1>5. /\ Elems(responses) = {i \in Kept(targets) : answer[i] = "ok"}
      /\ Elems(errs) = {i \in Kept(targets) : answer[i] = "err"}
  BY <1>4 DEF IInv, Collected
<1>6. Injective(responses) /\ Injective(errs)
  BY DEF IInv, Collected
<1>7. outcome = "ok" <=> \A i \in Kept(targets) : answer[i] = "ok"
  <2>1. \A i \in Kept(targets) : answer[i] \in {"ok", "err"}
    BY <1>1, <1>3 DEF IInv, TypeOK, Collected
  <2>2. ASSUME outcome = "ok"
        PROVE  \A i \in Kept(targets) : answer[i] = "ok"
    <3>1. Elems(errs) = {}
      BY <2>2, EmptySlice DEF IInv, Outcome
    <3> QED BY <1>5, <2>1, <3>1
  <2>3. ASSUME outcome = "failed"
        PROVE  \E i \in Kept(targets) : answer[i] # "ok"
    <3>1. errs # <<>> /\ errs \in Seq(Positions)
      BY <2>3 DEF IInv, Outcome, TypeOK
    <3>2. 1 \in DOMAIN errs
      BY <3>1
    <3>3. errs[1] \in Elems(errs)
      BY <3>2 DEF Elems
    <3> QED BY <1>5, <3>3
  <2> QED BY <2>2, <2>3
<1> QED BY <1>5, <1>6, <1>7 DEF EveryAnswerReturned, Injective

\* No append of a goroutine is lost, none is made twice, and no error is hidden,
\* for every number of goroutines and every interleaving of them.
THEOREM AnswersCorrect == Spec => []EveryAnswerReturned
  BY InvariantHolds, IInvImpliesAnswers, PTL

\* A call that has returned leaves nothing running: its slices are the caller's.
THEOREM NoLateWrite == Spec => NoWriteAfterReturn
<1> DEFINE Quiet == pc = "returned" => UNCHANGED <<responses, errs, mtx, worker>>
<1>1. IInv /\ [Next]_vars => [Quiet]_vars
  <2> SUFFICES ASSUME IInv, Next, pc = "returned"
               PROVE  UNCHANGED <<responses, errs, mtx, worker>>
    BY DEF vars
  <2>1. \A i \in Positions : worker[i] \in {"none", "done"}
    BY DEF IInv, Counted, Running
  <2>2. ~ Caller
    BY DEF Caller, Reject, Accept, Spawn, EndLoop, Return
  <2>3. \A i \in Positions : ~ Goroutine(i)
    BY <2>1 DEF Goroutine, Reply, Acquire, Release, Done
  <2> QED BY <2>2, <2>3 DEF Next
<1> QED BY <1>1, InvariantHolds, PTL DEF Spec, NoWriteAfterReturn

Less == {ss \in Nat \X Nat : ss[1] < ss[2]}

LEMMA LessIsWellFounded == IsWellFoundedOn(Less, Nat)
  BY NatLessThanWellFounded, Zenon DEF OpToRel, Less

\* A list of peers names each URL for a first time.
LEMMA FirstExists ==
  ASSUME TypeOK, NEW i \in Positions
  PROVE  \E j \in Positions : URL[targets[j]] = URL[targets[i]] /\ FirstOfItsURL(targets, j)
<1> DEFINE Same == {j \in Positions : URL[targets[j]] = URL[targets[i]]}
<1>1. Same \subseteq Nat /\ i \in Same
  BY PositionsFinite
<1>2. PICK j \in Same : \A k \in Same : ~ (<<k, j>> \in Less)
  <2> HIDE DEF Same, Less
  <2> QED BY <1>1, LessIsWellFounded, WFMin
<1>3. \A k \in Same : ~ (k < j)
  BY <1>1, <1>2 DEF Less
<1>4. \A k \in 1..(j - 1) : URL[targets[k]] # URL[targets[j]]
  <2> SUFFICES ASSUME NEW k \in 1..(j - 1), URL[targets[k]] = URL[targets[j]]
               PROVE  FALSE
    OBVIOUS
  <2>1. j \in 1..Len(targets) /\ Len(targets) \in Nat /\ Positions = 1..Len(targets)
    BY PositionsFinite
  <2>2. k \in Same /\ k < j
    BY <2>1
  <2> QED BY <2>2, <1>3
<1> QED BY <1>4 DEF FirstOfItsURL

\* When all targets are peers, the call asks each URL of its list, and no URL
\* twice, however long the list and wherever its duplicates are.
THEOREM URLsAskedOnce == Spec => []EachURLAskedOnce
<1>1. ASSUME IInv, \A i \in Positions : targets[i] \in Peers
      PROVE  \A i, j \in Positions :
               worker[i] # "none" /\ worker[j] # "none" /\ i # j
                 => URL[targets[i]] # URL[targets[j]]
  <2> SUFFICES ASSUME NEW i \in Positions, NEW j \in Positions,
                      worker[i] # "none", worker[j] # "none", i < j
               PROVE  URL[targets[i]] # URL[targets[j]]
    BY <1>1, PositionsFinite DEF IInv
  <2>1. i \in Kept(targets) /\ j \in Kept(targets)
    BY <1>1 DEF IInv, Started
  <2>2. FirstOfItsURL(targets, j)
    BY <2>1, <1>1 DEF Kept, Positions
  <2>3. i \in 1..(j - 1)
    BY <1>1, PositionsFinite DEF IInv
  <2> QED BY <2>2, <2>3 DEF FirstOfItsURL
<1>2. ASSUME IInv, \A i \in Positions : targets[i] \in Peers,
             outcome \in {"ok", "failed"}, NEW i \in Positions
      PROVE  \E j \in Elems(responses) \cup Elems(errs) :
               URL[targets[j]] = URL[targets[i]]
  <2>1. PICK j \in Positions : URL[targets[j]] = URL[targets[i]]
                               /\ FirstOfItsURL(targets, j)
    BY <1>2, FirstExists DEF IInv
  <2>2. j \in Kept(targets)
    BY <1>2, <2>1 DEF Kept, Positions
  <2>3. worker[j] = "done" /\ answer[j] \in {"ok", "err"}
    BY <1>2, <2>2 DEF IInv, TypeOK, Outcome, Counted, Running, Started, Collected
  <2>4. j \in Recorded("ok") \cup Recorded("err")
    BY <2>3 DEF Recorded
  <2> QED BY <1>2, <2>1, <2>4 DEF IInv, Collected
<1>3. IInv => EachURLAskedOnce
  BY <1>1, <1>2 DEF EachURLAskedOnce
<1> QED BY <1>3, InvariantHolds, PTL

-------------------------------------------------------------------------------
(* The refinement of ScatterGather.                                          *)

LEMMA InitRefines == Init => Round!Init
<1> SUFFICES ASSUME Init PROVE Round!Init
  OBVIOUS
<1>1. TypeOK
  BY InitIInv DEF IInv
<1>2. Kept(targets) \subseteq Nat
  BY <1>1, PositionsFinite DEF Kept, Positions
<1> QED BY <1>2 DEF Init, Round!Init

\* A Release is an answer of the round, Reject and Return are what they are
\* called, and every other step is none of the round's.
LEMMA NextRefines == IInv /\ [Next]_vars => [Round!Next]_(Round!vars)
<1> SUFFICES ASSUME IInv, [Next]_vars PROVE [Round!Next]_(Round!vars)
  OBVIOUS
<1> USE DEF Round!vars, args
<1>1. CASE Reject
  <2>1. Elems(responses) = {} /\ Elems(errs) = {}
    BY <1>1 DEF IInv, Started, Collected, Recorded, Reject
  <2>2. Round!Reject
    BY <1>1, <2>1 DEF IInv, Outcome, Reject, Round!Reject, Round!Answered, Round!Elems, Elems
  <2> QED BY <2>2 DEF Round!Next
<1>2. CASE Accept   BY <1>2 DEF Accept
<1>3. CASE \E i \in Positions : Spawn(i)   BY <1>3 DEF Spawn
<1>4. CASE EndLoop  BY <1>4 DEF EndLoop
<1>5. CASE Return
  <2>1. IInv' BY <1>5, NextIInv
  <2>2. \A i \in Kept(targets) : worker[i] = "done"
    BY <1>5, <2>1 DEF IInv, TypeOK, Counted, Running, Started, Return, Positions, Kept
  <2>3. Elems(responses) \cup Elems(errs) = Kept(targets)
    BY <2>2 DEF IInv, TypeOK, Collected, Recorded, Started, Positions, Kept
  <2>4. Round!Return
    BY <1>5, <2>3 DEF IInv, Outcome, Return, Round!Return, Round!Answered, Round!Elems, Elems
  <2> QED BY <2>4 DEF Round!Next
<1>6. CASE \E i \in Positions : \E a \in {"ok", "err"} : Reply(i, a)
  BY <1>6 DEF Reply
<1>7. CASE \E i \in Positions : Acquire(i)   BY <1>7 DEF Acquire
<1>8. ASSUME NEW i \in Positions, Release(i)
      PROVE  Round!Next
  <2>1. /\ i \in Kept(targets)
        /\ i \notin Elems(responses) /\ i \notin Elems(errs)
        /\ outcome = "none"
    BY <1>8 DEF IInv, Started, Collected, Recorded, Counted, Running, Outcome, Release
  <2>2. \/ responses' = Append(responses, i) /\ errs' = errs
        \/ errs' = Append(errs, i) /\ responses' = responses
    BY <1>8 DEF IInv, Locked, Release
  <2>3. Round!Answer(i)
    BY <1>8, <2>1, <2>2 DEF Release, Round!Answer, Round!Answered, Round!Elems, Elems
  <2> QED BY <2>1, <2>3 DEF Round!Next
<1>9. CASE \E i \in Positions : Done(i)      BY <1>9 DEF Done
<1>10. CASE UNCHANGED vars   BY <1>10 DEF vars
<1> QED BY <1>1, <1>2, <1>3, <1>4, <1>5, <1>6, <1>7, <1>8, <1>9, <1>10
        DEF Next, Caller, Goroutine

\* The goroutines, the mutex and the wait group implement the round, in which
\* answers come one by one and the return comes after the last.
THEOREM RoundImplemented == Spec => ImplementsRound
<1> QED BY InitRefines, NextRefines, InvariantHolds, PTL
        DEF Spec, ImplementsRound, Round!Spec
===============================================================================
