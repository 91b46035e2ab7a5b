------------------------------ MODULE MpfrArith ------------------------------
(***************************************************************************)
(* Arithmetic under -M (mpfr.c): mpg_interpret and the operations it      *)
(* dispatches to, mpg_add, mpg_sub, mpg_mul, mpg_pow, mpg_div and mpg_mod, *)
(* the increments and unary minus.  An operand NODE is a GMP integer or an *)
(* MPFR float: [int, v].  Each operation computes with GMP when both      *)
(* operands are integers and the result is one, with MPFR otherwise,      *)
(* first converting integer operands with mpg_tofloat into the static     *)
(* temporaries _mpf_t1 and _mpf_t2, whose precision is the state kept     *)
(* from one instruction to the next.                                       *)
(*                                                                         *)
(* Operand values are integers (the floats a program computes from its    *)
(* integer constants and inputs).  A value is [k, n, d]: the rational     *)
(* n / d (k = "num", d > 0), or k = "inf", "-inf", "nan", or "divzero"    *)
(* for GMP's division-by-zero abort.  An MPFR result stands for the one   *)
(* rounding, to the working precision, of the exact value of the MPFR     *)
(* function on the operands it was given; its value here is that exact    *)
(* value.  PRECISION_MIN is scaled down with the operands.                *)
(***************************************************************************)
EXTENDS Integers, FiniteSets

CONSTANTS
  PRECISION_MIN,   \* precision _mpf_t1 and _mpf_t2 are initialised with
  MPFR_PREC_MAX,   \* the largest precision MPFR supports
  Ints,            \* the integer values operands take
  Exponents        \* the values of a right operand of ^ (TLC's integers
                   \* bound the powers it can compute)

Num(n, d) == [k |-> "num", n |-> n, d |-> d]
IntV(z)   == Num(z, 1)
Special(k) == [k |-> k, n |-> 0, d |-> 1]
VEq(x, y) == x.k = y.k /\ (x.k = "num" => x.n * y.d = y.n * x.d)

IntNode(z)   == [int |-> TRUE, v |-> IntV(z)]     \* mpg_integer()
FloatNode(x) == [int |-> FALSE, v |-> x]         \* mpg_float()

Pow0(a, b) == IF b = 0 THEN 1 ELSE a^b           \* a^b, with 0^0 = 1
Sgn(a) == IF a > 0 THEN 1 ELSE IF a < 0 THEN -1 ELSE 0
Abs(a) == IF a < 0 THEN -a ELSE a

(* The exact value of an operation on integers a and b, what the MPFR    *)
(* functions mpfr_add, mpfr_sub, mpfr_mul, mpfr_div, mpfr_pow, mpfr_fmod *)
(* and mpfr_neg round: x / 0 is an infinity of the sign of x (NaN for     *)
(* 0 / 0), 0 to a negative power +inf, fmod has the dividend's sign and   *)
(* fmod(x, 0) is NaN.                                                     *)
Exact(op, a, b) ==
  CASE op = "plus"  -> IntV(a + b)
    [] op = "minus" -> IntV(a - b)
    [] op = "times" -> IntV(a * b)
    [] op = "neg"   -> IntV(-a)
    [] op = "quotient" ->
         IF b # 0 THEN Num(a * Sgn(b), Abs(b))
         ELSE CASE a > 0 -> Special("inf") [] a < 0 -> Special("-inf") [] OTHER -> Special("nan")
    [] op = "exp" ->
         IF b >= 0 THEN IntV(Pow0(a, b))
         ELSE IF a = 0 THEN Special("inf")
         ELSE Num(Sgn(Pow0(a, -b)), Abs(Pow0(a, -b)))
    [] op = "mod" ->
         IF b = 0 THEN Special("nan") ELSE IntV(Sgn(a) * (Abs(a) % Abs(b)))

(* mpz_mod: the remainder of floor division by |b|, never negative; GMP *)
(* aborts on a zero divisor.                                              *)
mpz_mod(a, b) == IF b = 0 THEN Special("divzero") ELSE IntV(a % Abs(b))

RECURSIVE BitLen(_)
BitLen(m) == IF m = 0 THEN 0 ELSE 1 + BitLen(m \div 2)
RECURSIVE Scan1(_)
Scan1(m) == IF m % 2 = 1 THEN 0 ELSE 1 + Scan1(m \div 2)
mpz_sizeinbase2(z) == IF z = 0 THEN 1 ELSE BitLen(Abs(z))

(* mpfr_set_z: z rounded to nearest (ties to even) on p bits.             *)
RoundAt(m, q, r) ==
  IF 2 * r > q \/ (2 * r = q /\ ((m - r) \div q) % 2 = 1) THEN m - r + q ELSE m - r
RoundMag(m, p) == IF BitLen(m) <= p THEN m ELSE RoundAt(m, 2^(BitLen(m) - p), m % 2^(BitLen(m) - p))
RoundBits(z, p) == Sgn(z) * RoundMag(Abs(z), p)

(* Seeded-bug variant: the significant bits counted one short (the msb   *)
(* position taken as 0-based).                                            *)
ToFloatPrecShort(z, cur) ==
  IF mpz_sizeinbase2(z) > PRECISION_MIN
  THEN IF mpz_sizeinbase2(z) - Scan1(Abs(z)) - 1 > PRECISION_MIN
       THEN mpz_sizeinbase2(z) - Scan1(Abs(z)) - 1 ELSE cur
  ELSE cur

Clamp(p) == IF p > MPFR_PREC_MAX THEN MPFR_PREC_MAX ELSE p

(* mpg_tofloat's choice of precision for the temporary of precision cur: *)
(* the significant bits of z (msb down to the lowest 1 bit) when z has   *)
(* more than PRECISION_MIN bits and they are more than PRECISION_MIN,    *)
(* clamped to MPFR_PREC_MAX; otherwise the temporary keeps its precision. *)
ToFloatPrec(z, cur) ==
  IF mpz_sizeinbase2(z) > PRECISION_MIN
  THEN IF Clamp(mpz_sizeinbase2(z) - Scan1(Abs(z))) > PRECISION_MIN
       THEN Clamp(mpz_sizeinbase2(z) - Scan1(Abs(z))) ELSE cur
  ELSE cur

(* mpg_tofloat: the temporary's new precision and the value mpfr_set_z   *)
(* leaves in it.                                                          *)
ToFloatIn(z, p) == [prec |-> p, val |-> RoundBits(z, p)]
mpg_tofloat(z, cur) == ToFloatIn(z, ToFloatPrec(z, cur))

(* MP_FLOAT(T): an integer operand converted in its temporary, a float   *)
(* operand used as it is.                                                 *)
MP_FLOAT(t, cur) == IF t.int THEN mpg_tofloat(t.v.n, cur) ELSE [prec |-> cur, val |-> t.v.n]

(* An operation's result NODE and the temporaries' precisions after it.  *)
Res(r, tp) == [r |-> r, tp |-> tp]
(* mpfr_X on the converted operands, and the temporaries they leave.     *)
OnFloats(op, c1, c2) == Res(FloatNode(Exact(op, c1.val, c2.val)), [t1 |-> c1.prec, t2 |-> c2.prec])

(* mpg_add, mpg_sub, mpg_mul: mpz_X for two integers; otherwise mpfr_X,  *)
(* or mpfr_X_z / mpfr_z_sub, which take an integer operand exactly.      *)
mpg_addsubmul(op, t1, t2, tp) ==
  IF t1.int /\ t2.int THEN Res(IntNode(Exact(op, t1.v.n, t2.v.n).n), tp)
  ELSE Res(FloatNode(Exact(op, t1.v.n, t2.v.n)), tp)

(* mpg_pow: mpz_pow_ui for two integers with an exponent >= 0 (that fits *)
(* an unsigned long), mpfr_pow on both converted otherwise; mpfr_pow_z   *)
(* for a float base and an integer exponent, mpfr_pow for a float        *)
(* exponent (the base converted when an integer).                        *)
mpg_pow(t1, t2, tp) ==
  IF t1.int /\ t2.int
  THEN IF t2.v.n >= 0 THEN Res(IntNode(Pow0(t1.v.n, t2.v.n)), tp)
       ELSE OnFloats("exp", MP_FLOAT(t1, tp.t1), MP_FLOAT(t2, tp.t2))
  ELSE IF t2.int THEN Res(FloatNode(Exact("exp", t1.v.n, t2.v.n)), tp)
  ELSE OnFloats("exp", MP_FLOAT(t1, tp.t1), [prec |-> tp.t2, val |-> t2.v.n])

(* mpg_div: mpz_divexact when both are integers, the divisor is not 0   *)
(* and divides the dividend; mpfr_div on both converted otherwise.       *)
mpg_div(t1, t2, tp) ==
  IF t1.int /\ t2.int /\ t2.v.n # 0 /\ t1.v.n % Abs(t2.v.n) = 0
  THEN Res(IntNode(t1.v.n \div t2.v.n), tp)
  ELSE OnFloats("quotient", MP_FLOAT(t1, tp.t1), MP_FLOAT(t2, tp.t2))

(* mpg_mod: mpz_mod for two integers, mpfr_fmod on both converted        *)
(* otherwise.                                                             *)
mpg_mod(t1, t2, tp) ==
  IF t1.int /\ t2.int THEN Res([int |-> TRUE, v |-> mpz_mod(t1.v.n, t2.v.n)], tp)
  ELSE OnFloats("mod", MP_FLOAT(t1, tp.t1), MP_FLOAT(t2, tp.t2))

Operation(op, t1, t2, tp) ==
  CASE op \in {"plus", "minus", "times"} -> mpg_addsubmul(op, t1, t2, tp)
    [] op = "exp"      -> mpg_pow(t1, t2, tp)
    [] op = "quotient" -> mpg_div(t1, t2, tp)
    [] op = "mod"      -> mpg_mod(t1, t2, tp)

(* The operand NODEs: every value of Ints as a GMP integer and as a float. *)
Operands == {[int |-> b, v |-> IntV(z)] : b \in BOOLEAN, z \in Ints}
BinaryOps == {"plus", "minus", "times", "exp", "quotient", "mod"}
IncDecOps == {"preincrement", "predecrement", "postincrement", "postdecrement"}
NoNode == [int |-> TRUE, v |-> Special("nan")]

VARIABLES
  tprec,   \* [t1, t2]: the precisions of _mpf_t1 and _mpf_t2
  top      \* the last instruction: [op, a, b, r, var], r the NODE it left
           \* on the stack, var what its variable holds after it

vars == <<tprec, top>>

(* init_mpfr: mpfr_init2(_mpf_t1, PRECISION_MIN), the same for _mpf_t2.  *)
Init ==
  /\ tprec = [t1 |-> PRECISION_MIN, t2 |-> PRECISION_MIN]
  /\ top = [op |-> "none", a |-> NoNode, b |-> NoNode, r |-> NoNode, var |-> NoNode]

(* Op_X, Op_X_i and Op_assign_X for the six binary operators: the operands *)
(* popped (or the constant of Op_X_i, or the variable's value for an      *)
(* assignment, which gets the result) go to mpg_X, whose result replaces  *)
(* the top of the stack.                                                   *)
Apply(op, t1, t2, res) ==
  /\ tprec' = res.tp
  /\ top' = [op |-> op, a |-> t1, b |-> t2, r |-> res.r, var |-> res.r]
Binary(op, t1, t2) == Apply(op, t1, t2, Operation(op, t1, t2, tprec))

(* Op_pre/postincrement and decrement: mpz_add_ui / mpz_sub_ui for an      *)
(* integer (in place when the NODE is not shared), mpfr_add_si for a      *)
(* float; the stack gets the new value, or a copy of the old one.         *)
IncDec(op, t) ==
  LET d == IF op \in {"preincrement", "postincrement"} THEN 1 ELSE -1
      new == [int |-> t.int, v |-> IntV(t.v.n + d)]
  IN  /\ top' = [op |-> op, a |-> t, b |-> t, var |-> new,
                 r |-> IF op \in {"preincrement", "predecrement"} THEN new ELSE t]
      /\ UNCHANGED tprec

(* Op_unary_minus: mpfr_neg for a float, mpz_neg for an integer.          *)
UnaryMinus(t) ==
  /\ top' = [op |-> "neg", a |-> t, b |-> t, var |-> t,
             r |-> [int |-> t.int, v |-> Exact("neg", t.v.n, 0)]]
  /\ UNCHANGED tprec

Next ==
  \/ \E op \in BinaryOps, t1, t2 \in Operands :
       (op = "exp" => t2.v.n \in Exponents) /\ Binary(op, t1, t2)
  \/ \E op \in IncDecOps, t \in Operands : IncDec(op, t)
  \/ \E t \in Operands : UnaryMinus(t)

Spec == Init /\ [][Next]_vars

-----------------------------------------------------------------------------
(* Every +, -, *, /, ^, unary minus, increment and decrement under -M    *)
(* gives the exact value of the operator on its operands (rounded once,  *)
(* for an MPFR result) whether each operand is a GMP integer or an MPFR  *)
(* float, whatever precision earlier conversions left in _mpf_t1 and      *)
(* _mpf_t2: the GMP paths are taken only when the result is an integer,  *)
(* and mpg_tofloat converts an integer operand exactly.                  *)
ArithExact ==
  /\ top.op \in (BinaryOps \ {"mod"}) \cup {"neg"} =>
       VEq(top.r.v, Exact(top.op, top.a.v.n, top.b.v.n))
  /\ top.op \in IncDecOps =>
       /\ VEq(top.var.v, IntV(top.a.v.n + (IF top.op \in {"preincrement", "postincrement"} THEN 1 ELSE -1)))
       /\ top.var.int = top.a.int
       /\ top.r = IF top.op \in {"preincrement", "predecrement"} THEN top.var ELSE top.a

(* The comment of mpg_tofloat: "13 % 2" and "13 % 2.0" print the same.  *)
(* awk's % is fmod, the remainder of the division truncated toward zero, *)
(* so x % y under -M should not depend on whether x and y are GMP         *)
(* integers or MPFR floats (a zero divisor, which mpz_mod is handed      *)
(* unchecked, left aside).                                                 *)
ModExact ==
  top.op = "mod" /\ top.b.v.n # 0 => VEq(top.r.v, Exact("mod", top.a.v.n, top.b.v.n))

=============================================================================
