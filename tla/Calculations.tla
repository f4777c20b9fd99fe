---------------------------- MODULE Calculations ----------------------------
(***************************************************************************)
(* All operations of Arithmetic on all operands, and what their results    *)
(* promise.                                                                *)
(***************************************************************************)
EXTENDS Arithmetic

(* One calculation                                                         *)
VARIABLE sum  \* the operation with its operands and its result

Operations ==
  [op : {"add_u", "sub_u", "mul_u", "closed_u", "open_u"}, a : Unsigned, b : Unsigned, c : {1}]
    \cup [op : {"add_i", "sub_i", "mul_i", "closed_i", "open_i"}, a : Signed, b : Signed, c : {1}]
    \cup [op : {"add_ui", "sub_ui"}, a : Unsigned, b : Signed, c : {1}]
    \cup [op : {"add_iu", "mul_iu"}, a : Signed, b : Unsigned, c : {1}]
    \cup [op : {"muldiv_u"}, a : Unsigned, b : Unsigned, c : Unsigned \ {0}]
    \cup [op : {"muldiv_i"}, a : Signed, b : Signed, c : Signed \ {0}]
    \cup [op : {"muldiv_uii"}, a : Unsigned, b : Signed, c : Signed \ {0}]
    \cup [op : {"muldiv_iuu"}, a : Signed, b : Unsigned, c : Unsigned \ {0}]

Outcomes(o) ==
  CASE o.op = "add_u" -> {AddSafeU(o.a, o.b)}
    [] o.op = "add_i" -> {AddSafeI(o.a, o.b)}
    [] o.op = "add_ui" -> {AddSafeUI(o.a, o.b)}
    [] o.op = "add_iu" -> {AddSafeIU(o.a, o.b)}
    [] o.op = "sub_u" -> {SubSafeU(o.a, o.b)}
    [] o.op = "sub_i" -> {SubSafeI(o.a, o.b)}
    [] o.op = "sub_ui" -> {SubSafeUI(o.a, o.b)}
    [] o.op = "mul_u" -> MulSafeU(o.a, o.b)
    [] o.op \in {"mul_i", "mul_iu"} -> {MulSafeI(o.a, o.b)}
    [] o.op = "muldiv_u" -> {MulDivSafeU(o.a, o.b, o.c)}
    [] o.op \in {"muldiv_i", "muldiv_iuu"} -> {MulDivSafeI(o.a, o.b, o.c)}
    [] o.op = "muldiv_uii" -> {MulDivSafeUII(o.a, o.b, o.c)}
    [] o.op = "closed_u" -> {ClosedSizeU(o.a, o.b)}
    [] o.op = "closed_i" -> {ClosedSizeI(o.a, o.b)}
    [] o.op = "open_u" -> {RightOpenSizeU(o.a, o.b)}
    [] o.op = "open_i" -> {RightOpenSizeI(o.a, o.b)}

NoSum == [of |-> [op |-> "none"]]

ArithmeticInit == sum = NoSum

Calculate ==
  /\ sum = NoSum
  /\ \E o \in Operations : \E r \in Outcomes(o) : sum' = [of |-> o, result |-> r]

ArithmeticNext == Calculate

-----------------------------------------------------------------------------
(* Properties                                                              *)

(* What an operation is about                                              *)
Truth(o) ==
  CASE o.op \in {"add_u", "add_i", "add_ui", "add_iu"} -> o.a + o.b
    [] o.op \in {"sub_u", "sub_i", "sub_ui"} -> o.a - o.b
    [] o.op \in {"closed_u", "closed_i"} -> o.b - o.a + 1
    [] o.op \in {"open_u", "open_i"} -> o.b - o.a
    [] OTHER -> Quotient(o.a * o.b, o.c)

IsSize(o) == o.op \in {"closed_u", "closed_i", "open_u", "open_i"}
IsSigned(o) ==
  o.op \in {"add_i", "add_iu", "sub_i", "mul_i", "mul_iu", "muldiv_i", "muldiv_iuu"}
Least(o) == IF IsSigned(o) THEN IMin ELSE 0
Most(o) == IF IsSigned(o) THEN IMax ELSE UMax
Saturation(o, r) == IF IsSigned(o) THEN SatI(r) ELSE SatU(r)

(* The operands whose overflow is not noticed, or that are said to         *)
(* overflow and do not                                                     *)
Unnoticed(o) ==
  \/ o.op \in {"add_u", "add_i", "add_ui"} /\ o.a = o.b
  \/ o.op = "sub_i" /\ o.a = 0 /\ o.b = IMin
  \/ o.op \in {"mul_i", "mul_iu", "muldiv_i", "muldiv_iuu"} /\ Truth(o) \in Half .. UMax
  \/ o.op = "open_u" /\ o.b < Half /\ o.a >= Half

Unfounded(o) ==
  \/ o.op = "add_i" /\ o.a < 0 /\ o.b < 0
  \/ o.op = "mul_u" /\ o.a * o.b >= 2 * Half * Half
  \/ o.op = "open_u" /\ o.a < Half /\ o.b >= Half

(* An exact result is what the operation is about and fits.  Other results *)
(* did not fit, at the end that the status tells, and saturating leaves    *)
(* the value that is nearest.                                              *)
ExactRight(r, t, least, most) == r.status = "exact" => r.out = t /\ t \in least .. most

Founded(o, r, t, least, most) ==
  /\ r.status = "underflow" => t < least
  /\ r.status = "overflow" => t > most
  /\ r.status = "failed" => o.a > o.b \/ t > most

Nearest(t, least, most) == IF t < least THEN least ELSE IF t > most THEN most ELSE t

Right(o, r) ==
  /\ ~Unnoticed(o) => ExactRight(r, Truth(o), Least(o), Most(o))
  /\ ~Unfounded(o) => Founded(o, r, Truth(o), Least(o), Most(o))
  /\ ~Unnoticed(o) /\ ~Unfounded(o) /\ ~IsSize(o) =>
       Saturation(o, r).out = Nearest(Truth(o), Least(o), Most(o))

(* What is called exact is so, and what is said to be too small or too     *)
(* large is so; the exceptions are equal summands, pairs of negative ones, *)
(* 0 less the smallest integer, products that reach the sign bit, products *)
(* of unsigned integers beyond three quarters of the bits, and right-open  *)
(* intervals around the middle of the unsigned integers                    *)
(* (core/arithmetic.h).                                                    *)
ArithmeticRight == sum # NoSum => Right(sum.of, sum.result)

ArithmeticSpec == ArithmeticInit /\ [][ArithmeticNext]_sum
=============================================================================
