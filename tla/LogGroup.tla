------------------------------ MODULE LogGroup ------------------------------
(***************************************************************************)
(* elliptic_curve256_algebra as its callers see it: a cyclic group of      *)
(* prime order GroupOrder, written additively.  A point is its logarithm   *)
(* to the base of the generator, so that points and scalars are the same   *)
(* numbers; what the two implementations of the interface compute is the   *)
(* subject of GFpCurve and Ed25519.                                        *)
(***************************************************************************)
EXTENDS Integers, Sequences

CONSTANT GroupOrder

ASSUME GroupAssumption == GroupOrder \in Nat \ {0, 1}

Scalar == 0..(GroupOrder - 1)

InvalidParameter == "invalid parameter"
Success == "success"

GeneratorMul(k) == k % GroupOrder
PointMul(point, k) == (k * point) % GroupOrder
AddPoints(a, b) == (a + b) % GroupOrder

\* verify_linear_combination: the points, each times its coefficient.
LinearCombination(points, coefficients) ==
  LET sum[i \in 0..Len(points)] ==
        IF i = 0 THEN 0 ELSE AddPoints(sum[i - 1], PointMul(points[i], coefficients[i]))
  IN  sum[Len(points)]

\* The inverse of a nonzero scalar, 0 for one that has none.
InverseScalar(a) ==
  IF a % GroupOrder = 0 THEN 0 ELSE CHOOSE b \in Scalar : (a * b) % GroupOrder = 1
=============================================================================
