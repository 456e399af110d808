----------------------------- MODULE LowS_proofs -----------------------------
(***************************************************************************)
(* Proofs about LowS, for curves of every odd order.                       *)
(***************************************************************************)
EXTENDS LowS, TLAPS

\* What is known of S along the way.
Progress ==
  /\ stage # "returned" => err = "none"
  /\ stage \in {"drawn", "normalised"} \/ Signed =>
       curve \in Curves /\ drawn \in 1 .. Order[curve] - 1
  /\ stage = "drawn" => s = drawn
  /\ stage = "normalised" \/ Signed => s = ToLowS(curve, drawn) /\ curve \in Recognized

IInv == TypeOK /\ Progress

\* Half of an odd order.
LEMMA HalfOfOdd ==
  ASSUME NEW c \in Curves
  PROVE  /\ HalfOrder(c) \in Nat
         /\ Order[c] = 2 * HalfOrder(c) + 1
         /\ Order[c] \in Nat
<1>1. Order[c] \in Nat \ {0, 1} /\ Order[c] % 2 = 1
  BY OrdersAreNumbers, OrdersAreOdd
<1> QED
  BY <1>1 DEF HalfOrder

\* Of S and its complement one is low, and ToLowS finds it from either.
LEMMA LowIsCanonical ==
  ASSUME NEW c \in Curves, NEW x \in 1 .. Order[c] - 1
  PROVE  /\ ToLowS(c, x) \in 1 .. HalfOrder(c)
         /\ ToLowS(c, x) = x \/ ToLowS(c, x) = Order[c] - x
         /\ ToLowS(c, Order[c] - x) = ToLowS(c, x)
  BY HalfOfOdd DEF ToLowS, IsLowS, Complement

LEMMA InitInvariant == Init => IInv
  BY DEF Init, IInv, TypeOK, Progress, Signed

LEMMA StepInvariant == IInv /\ [Next]_vars => IInv'
<1> SUFFICES ASSUME IInv, [Next]_vars PROVE IInv'
  OBVIOUS
<1>1. CASE Draw
  <2>1. PICK c \in Curves : curve' = c /\ \E x \in 1 .. Order[c] - 1 : drawn' = x /\ s' = x
    BY <1>1 DEF Draw
  <2>2. Order[c] \in Nat
    BY OrdersAreNumbers
  <2> QED
    BY <1>1, <2>1, <2>2 DEF Draw, IInv, TypeOK, Progress, Signed
<1>2. CASE DrawFails
  BY <1>2 DEF DrawFails, Fail, IInv, TypeOK, Progress, Signed
<1>3. CASE Normalise
  <2>1. curve \in Curves /\ drawn \in 1 .. Order[curve] - 1 /\ s = drawn /\ err = "none"
    BY <1>3 DEF Normalise, IInv, Progress
  <2>2. ToLowS(curve, drawn) \in 1 .. HalfOrder(curve) /\ HalfOrder(curve) \in Nat
    BY <2>1, LowIsCanonical, HalfOfOdd
  <2>3. ToLowS(curve, drawn)' = ToLowS(curve, drawn)
    BY <1>3 DEF Normalise, ToLowS, IsLowS, Complement, HalfOrder
  <2> QED
    BY <1>3, <2>1, <2>2, <2>3 DEF Normalise, IInv, TypeOK, Progress, Signed
<1>4. CASE UnrecognizedCurve
  BY <1>4 DEF UnrecognizedCurve, Fail, IInv, TypeOK, Progress, Signed
<1>5. CASE Marshal
  BY <1>5 DEF Marshal, Fail, IInv, TypeOK, Progress, Signed, ToLowS, IsLowS, Complement, HalfOrder
<1>6. CASE UNCHANGED vars
  BY <1>6 DEF vars, IInv, TypeOK, Progress, Signed, ToLowS, IsLowS, Complement, HalfOrder
<1> QED
  BY <1>1, <1>2, <1>3, <1>4, <1>5, <1>6 DEF Next

LEMMA InvariantHolds == Spec => []IInv
  BY InitInvariant, StepInvariant, PTL DEF Spec

-------------------------------------------------------------------------------
\* The variables have their types.
THEOREM TypeCorrect == Spec => []TypeOK
<1>1. IInv => TypeOK
  BY DEF IInv
<1> QED
  BY <1>1, InvariantHolds, PTL

\* For every odd order, Sign returns the one of S and N - S that is accepted.
THEOREM SignaturesAreLow == Spec => []OnlyLowSignatures
<1>1. ASSUME IInv, Signed
      PROVE  /\ curve \in Recognized
             /\ s \in 1 .. Order[curve] - 1
             /\ s = drawn \/ s = Order[curve] - drawn
             /\ 2 * s < Order[curve]
             /\ ToLowS(curve, Order[curve] - drawn) = s
  <2>1. curve \in Curves /\ drawn \in 1 .. Order[curve] - 1 /\ s = ToLowS(curve, drawn)
    BY <1>1 DEF IInv, Progress
  <2>2. /\ HalfOrder(curve) \in Nat
        /\ Order[curve] = 2 * HalfOrder(curve) + 1
    BY <2>1, HalfOfOdd
  <2>3. /\ ToLowS(curve, drawn) \in 1 .. HalfOrder(curve)
        /\ ToLowS(curve, drawn) = drawn \/ ToLowS(curve, drawn) = Order[curve] - drawn
        /\ ToLowS(curve, Order[curve] - drawn) = ToLowS(curve, drawn)
    BY <2>1, LowIsCanonical
  <2>4. curve \in Recognized
    BY <1>1 DEF IInv, Progress
  <2> QED
    BY <2>1, <2>2, <2>3, <2>4
<1>2. IInv => OnlyLowSignatures
  BY <1>1 DEF OnlyLowSignatures
<1> QED
  BY <1>2, InvariantHolds, PTL
==============================================================================
