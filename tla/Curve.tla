-------------------------------- MODULE Curve --------------------------------
(***************************************************************************)
(* What src/cash.rs, src/recoverable.rs and src/spend.rs take from the     *)
(* curve library: keys are scalars, public keys are points, and an x-only  *)
(* key is the x coordinate of two of them, one with an even y.             *)
(***************************************************************************)
EXTENDS Naturals

CONSTANTS
  Order,           \* of the group
  Points, Infinity,
  mulG(_),         \* the point of a scalar
  PointAdd(_, _),
  x(_),            \* the x coordinate of a point
  even_y(_)        \* whether its y is even

Scalars == 0..(Order - 1)
SecretKeys == 1..(Order - 1)

Add(a, b) == IF a + b < Order THEN a + b ELSE a + b - Order

ASSUME CurveAssumption ==
  /\ Order \in Nat \ {0, 1}
  /\ \A a \in Scalars :
       /\ mulG(a) \in Points
       /\ mulG(a) = Infinity <=> a = 0
  /\ \A a, b \in Scalars : mulG(Add(a, b)) = PointAdd(mulG(a), mulG(b))
  /\ \A a, b \in SecretKeys :
       x(mulG(a)) = x(mulG(b)) <=> a = b \/ a = Order - b
  /\ \A a \in SecretKeys : even_y(mulG(a)) <=> ~ even_y(mulG(Order - a))
  /\ \A p \in Points : p = mulG(0) \/ \E a \in SecretKeys : p = mulG(a)

XCoordinates == {x(p) : p \in Points \ {Infinity}}

\* The point an x-only key stands for.
lift_x(q) == CHOOSE p \in Points \ {Infinity} : x(p) = q /\ even_y(p)

\* The key of that point: what BIP 340 signs with, and what the x-only tweak
\* of a key pair adds to.
EvenKey(key) == IF even_y(mulG(key)) THEN key ELSE Order - key

\* SecretKey::add_tweak and PublicKey::add_exp_tweak, and their x-only kin.
\* An Option: a tweak at or above the order is refused, and so is a result
\* that is no key.
add_tweak(key, tweak) ==
  {k \in {Add(key, tweak)} : tweak < Order /\ k # 0}

\* A mistake to catch: a tweak is taken as it comes.
add_exp_tweak_unrefused(point, tweak) == {PointAdd(point, mulG(tweak))}

add_exp_tweak(point, tweak) ==
  {p \in {PointAdd(point, mulG(tweak))} : tweak < Order /\ p # Infinity}
=============================================================================
