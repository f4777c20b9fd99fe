----------------------------- MODULE Arithmetic -----------------------------
(***************************************************************************)
(* Sums, differences, products and sizes of intervals of machine integers, *)
(* calculated without overflow or with a status that tells of it           *)
(* (core/arithmetic.h).  What the code does with 64 bits is done here with *)
(* 2 * Half values, so that all operands can be enumerated; the theorems   *)
(* of DfgDataProof are about every Half.                                   *)
(***************************************************************************)
EXTENDS Integers

CONSTANT Half  \* the smallest signed integer is -Half

ASSUME HalfAssumption == Half \in Nat \ {0}

UMax == 2 * Half - 1
IMin == -Half
IMax == Half - 1
Unsigned == 0 .. UMax
Signed == IMin .. IMax

(* The values of a sum or difference as an unsigned and a signed integer   *)
WrapU(x) == IF x > UMax THEN x - 2 * Half ELSE IF x < 0 THEN x + 2 * Half ELSE x
WrapI(x) == IF x > IMax THEN x - 2 * Half ELSE IF x < IMin THEN x + 2 * Half ELSE x

Low(x) == x % (2 * Half)
LowI(x) == WrapI(Low(x))

(* Division as in C, towards 0                                             *)
Quotient(a, b) ==
  LET Abs(x) == IF x < 0 THEN -x ELSE x
      q == Abs(a) \div Abs(b)
  IN  IF (a < 0) = (b < 0) THEN q ELSE -q

Exact(out) == [status |-> "exact", out |-> out]
Result(under, over, out) ==
  [status |-> IF under THEN "underflow" ELSE IF over THEN "overflow" ELSE "exact",
   out |-> out]

-----------------------------------------------------------------------------
(* Sums.  If both operands are equal nothing is checked.                   *)
AddSafeU(a, b) ==
  Result(FALSE, (a > b /\ UMax - a < b) \/ (b > a /\ UMax - b < a), WrapU(a + b))

AddSafeI(a, b) ==
  Result(/\ a < 0 /\ b < 0
         /\ (a < b /\ -(IMin - a) > b) \/ (b < a /\ -(IMin - b) > a),
         /\ a > 0 /\ b > 0
         /\ (a > b /\ IMax - a < b) \/ (b > a /\ IMax - b < a),
         WrapI(a + b))

SubSafeU(a, b) == Result(a < b, FALSE, WrapU(a - b))

(* Mutant: the smallest integer is negated.                                *)
SubNegated(a, b) ==
  Result(a < 0 /\ b > 0 /\ -(IMin - a) < b,
         a > 0 /\ b < 0 /\ IMax - a < -b /\ b # IMin, WrapI(a - b))

SubSafeI(a, b) ==
  Result(a < 0 /\ b > 0 /\ -(IMin - a) < b,
         a > 0 /\ b < 0 /\ (b = IMin \/ IMax - a < -b), WrapI(a - b))

(* The size of a negative integer: all bits inverted, plus one             *)
SafeNegate(v) == WrapU(UMax - WrapU(v) + 1)

AddSafeUI(a, b) == IF b < 0 THEN SubSafeU(a, WrapU(-b)) ELSE AddSafeU(a, b)

AddSafeIU(a, b) ==
  Result(FALSE,
         \/ a >= 0 /\ IMax - a < b
         \/ a < 0 /\ SafeNegate(a) < b /\ b - SafeNegate(a) > IMax,
         LowI(a + b))

SubSafeUI(a, b) ==
  Result(b > 0 /\ a < b, b < 0 /\ UMax - a < SafeNegate(b), WrapU(a - b))

-----------------------------------------------------------------------------
(* Products are calculated with twice the bits and then checked.  For a    *)
(* signed result only the upper half of the bits is, so that the sign bit  *)
(* of the lower one may be set.                                            *)
CheckI(x) ==
  [out |-> LowI(x),
   status |-> IF x >= 2 * Half THEN "overflow"
              ELSE IF x < IMin THEN "underflow" ELSE "exact"]

CheckU(x) ==
  [out |-> Low(x),
   status |-> IF x >= 2 * Half THEN "overflow" ELSE IF x < 0 THEN "underflow" ELSE "exact"]

MulSafeI(a, b) == CheckI(a * b)

(* A product of unsigned integers may not fit into the signed integer that *)
(* it is calculated with; what it is taken for then is undefined.          *)
MulSafeU(a, b) ==
  IF a * b < 2 * Half * Half THEN {CheckU(a * b)}
  ELSE {[CheckU(a * b) EXCEPT !.status = s] : s \in {"overflow", "underflow"}}

MulDivSafeU(a, b, c) == CheckU((a * b) \div c)

(* Mutant: the product is cut off before it is divided.                    *)
MulDivCut(a, b, c) == CheckI(Quotient(LowI(a * b), c))

MulDivSafeI(a, b, c) == CheckI(Quotient(a * b, c))

MulDivSafeUII(a, b, c) == CheckU(Quotient(a * b, c))

(* Sizes of intervals, 1 if they cannot be represented.  Unsigned          *)
(* intervals that are open to the right have signed ends.                  *)
Failed == [status |-> "failed", out |-> 0]

RightOpenSizeI(left, right) ==
  IF right < left THEN Failed
  ELSE Exact(IF left < 0 /\ right >= 0 THEN WrapU(SafeNegate(left) + right)
             ELSE WrapU(right - left))

RightOpenSizeU(left, right) ==
  IF WrapI(right) < WrapI(left) THEN Failed
  ELSE Exact(WrapU(WrapI(right) - WrapI(left)))

ClosedSizeI(left, right) ==
  IF (left = IMin /\ right = IMax) \/ right < left THEN Failed
  ELSE Exact(WrapU(RightOpenSizeI(left, right).out + 1))

ClosedSizeU(left, right) ==
  IF right < left \/ (left = 0 /\ right = UMax) THEN Failed
  ELSE Exact(WrapU(right - left + 1))

(* Saturation                                                              *)
Saturated(r, least, most) ==
  [r EXCEPT !.out = CASE r.status = "overflow" -> most
                      [] r.status = "underflow" -> least
                      [] OTHER -> @]

SatU(r) == Saturated(r, 0, UMax)
SatI(r) == Saturated(r, IMin, IMax)
=============================================================================
