--------------------------------- MODULE LowS ---------------------------------
(***************************************************************************)
(* User.Sign, IsLowS and ToLowS (pkg/msp/user.go).  Of the two values S    *)
(* and N - S that make a signature valid on a curve of order N, verifiers  *)
(* accept only the lower one.  The signature is drawn by crypto/ecdsa,     *)
(* which is external; S is a number here, not a bit string.                *)
(***************************************************************************)
EXTENDS Integers

CONSTANTS
  Curves,      \* the curves of keys
  Order,       \* the order of each
  Recognized,  \* those that curveHalfOrders has
  NoCurve      \* no key yet

ASSUME OrdersAreNumbers == Order \in [Curves -> Nat \ {0, 1}]
ASSUME OrdersAreOdd == \A c \in Curves : Order[c] % 2 = 1
ASSUME RecognizedAreCurves == Recognized \subseteq Curves
ASSUME NoCurveIsNone == NoCurve \notin Curves

VARIABLES
  curve,       \* the curve of the key
  drawn,       \* the S that was drawn
  s,           \* the S that is to be returned
  stage,       \* where Sign is
  err          \* the error Sign returned

vars == <<curve, drawn, s, stage, err>>

-------------------------------------------------------------------------------
(* Slips in this code, each of which a property below must notice.           *)

\* Half the order is rounded up.
HalfOrderUp(c) == (Order[c] + 1) \div 2

\* A high S is made low as a negative number.
ComplementNegated(c, x) == x - Order[c]

-------------------------------------------------------------------------------
HalfOrder(c) == Order[c] \div 2

IsLowS(c, x) == x <= HalfOrder(c)

Complement(c, x) == Order[c] - x

ToLowS(c, x) == IF IsLowS(c, x) THEN x ELSE Complement(c, x)

Init ==
  /\ curve = NoCurve
  /\ drawn = 0
  /\ s = 0
  /\ stage = "idle"
  /\ err = "none"

Fail(why) ==
  /\ stage' = "returned"
  /\ err' = why
  /\ s' = 0

\* ecdsa.Sign: some S of the group, or an error.
Draw ==
  /\ stage = "idle"
  /\ \E c \in Curves :
       /\ curve' = c
       /\ \E x \in 1 .. Order[c] - 1 : drawn' = x /\ s' = x
  /\ stage' = "drawn"
  /\ UNCHANGED err

DrawFails ==
  /\ stage = "idle"
  /\ Fail("draw")
  /\ UNCHANGED <<curve, drawn>>

Normalise ==
  /\ stage = "drawn"
  /\ curve \in Recognized
  /\ s' = ToLowS(curve, s)
  /\ stage' = "normalised"
  /\ UNCHANGED <<curve, drawn, err>>

UnrecognizedCurve ==
  /\ stage = "drawn"
  /\ curve \notin Recognized
  /\ Fail("curve")
  /\ UNCHANGED <<curve, drawn>>

\* MarshalECDSASignature
Marshal ==
  /\ stage = "normalised"
  /\ \/ stage' = "returned" /\ UNCHANGED <<s, err>>
     \/ Fail("marshal")
  /\ UNCHANGED <<curve, drawn>>

Next == Draw \/ DrawFails \/ Normalise \/ UnrecognizedCurve \/ Marshal

Spec == Init /\ [][Next]_vars

-------------------------------------------------------------------------------
\* The variables have their types (User.Sign).
TypeOK ==
  /\ curve \in Curves \cup {NoCurve}
  /\ drawn \in Nat
  /\ s \in Nat
  /\ stage \in {"idle", "drawn", "normalised", "returned"}
  /\ err \in {"none", "draw", "curve", "marshal"}

Signed == stage = "returned" /\ err = "none"

\* A signature that is returned is valid, as its S is the one that was drawn or
\* its complement, and it is the only one of the two that a verifier accepts:
\* its S is in the lower half, the other's is not; and it would be the same if
\* the complement had been drawn.  Keys of curves whose half order is not known
\* sign nothing (User.Sign, ToLowS, IsLowS).
OnlyLowSignatures ==
  Signed =>
    /\ curve \in Recognized
    /\ s \in 1 .. Order[curve] - 1
    /\ s = drawn \/ s = Order[curve] - drawn
    /\ 2 * s < Order[curve]
    /\ ToLowS(curve, Order[curve] - drawn) = s
==============================================================================
