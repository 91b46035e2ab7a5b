---------------------------- MODULE MpfrCompare ----------------------------
(***************************************************************************)
(* mpg_cmp of mpfr.c: the comparison of two numbers under -M, which       *)
(* cmp_numbers (and so the sorting of asort, asorti and PROCINFO["sorted_ *)
(* in"]) uses.  A NODE is [int, v]: a GMP integer (int TRUE) holds an      *)
(* integer, an MPFR float an integer, an infinity or NaN.  Only the       *)
(* sign of an MPFR or GMP comparison is specified, and only it is used.    *)
(* A value is [k, n]: k "num" with the number n, or "inf", "-inf", "nan". *)
(***************************************************************************)
EXTENDS Integers

IsNaN(t) == ~t.int /\ t.v.k = "nan"                \* mpfr_nan_p

(* mpfr_cmp, mpfr_cmp_z and mpz_cmp on values that are not NaN: the sign *)
(* of x - y, the infinities beyond every number.                          *)
Below(x, y) ==
  x # y /\ (x.k = "-inf" \/ y.k = "inf" \/ (x.k = "num" /\ y.k = "num" /\ x.n < y.n))
mpfr_cmp(x, y) == IF x = y THEN 0 ELSE IF Below(x, y) THEN -1 ELSE 1

(* Seeded-bug variant: the result of the swapped comparison not negated. *)
FlipKeep(ret) == ret

(* ret > 0 ? -1 : (ret < 0): the result of mpfr_cmp_z(t2, t1) turned     *)
(* into that of comparing t1 with t2.                                      *)
Flip(ret) == IF ret > 0 THEN -1 ELSE IF ret < 0 THEN 1 ELSE 0

(* mpg_cmp: NaN above everything and equal to NaN; a float and an        *)
(* integer compared by mpfr_cmp_z with the float first.                   *)
mpg_cmp(t1, t2) ==
  CASE ~t1.int /\ ~t2.int ->
         IF IsNaN(t1) THEN (IF IsNaN(t2) THEN 0 ELSE 1)
         ELSE IF IsNaN(t2) THEN -1 ELSE mpfr_cmp(t1.v, t2.v)
    [] ~t1.int -> IF IsNaN(t1) THEN 1 ELSE mpfr_cmp(t1.v, t2.v)
    [] ~t2.int -> IF IsNaN(t2) THEN -1 ELSE Flip(mpfr_cmp(t2.v, t1.v))
    [] OTHER   -> mpfr_cmp(t1.v, t2.v)

=============================================================================
