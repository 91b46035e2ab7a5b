----------------------------- MODULE MpfrNumber -----------------------------
(***************************************************************************)
(* String to number under -M (mpfr.c): mpg_force_number, force_mpnum and  *)
(* the scanners they call, mpg_maybe_float and mpg_strtoui, with          *)
(* mpfr_strtofr (MPFR) modelled by the prefix it accepts.                 *)
(*                                                                         *)
(* A string is stptr[0 .. stlen-1], a sequence of one-character strings;  *)
(* positions are 1-based and Len(s) + 1 is cpend.  A value is a decimal   *)
(* [m, x], m * 10^x with m not a multiple of 10 (0 is [0, 0]); an MPFR    *)
(* value stands for the rounding of that decimal to the working           *)
(* precision, the one rounding mpfr_strtofr makes.  A NODE is            *)
(* [str, type, val, maybe_num, number, numcur], type "MPZN", "MPFN" or    *)
(* "none" (a string not yet converted).                                   *)
(***************************************************************************)
EXTENDS Integers, SequencesExt

Space == {" "}                       \* isspace
DecDigits == {"0", "1", "2", "3", "4", "5", "6", "7", "8", "9"}
OctDigits == {"0", "1", "2", "3", "4", "5", "6", "7"}
HexDigits == DecDigits \cup {"a", "b", "c", "d", "e", "f", "A", "B", "C", "D", "E", "F"}
BaseDigits(base) == CASE base = 8 -> OctDigits [] base = 10 -> DecDigits [] OTHER -> HexDigits

(* The value of a digit character (the model's strings use 0 and 1, and *)
(* the hexadecimal letters only in base 16).                             *)
DigitVal(c) ==
  CASE c = "0" -> 0 [] c = "1" -> 1 [] c = "2" -> 2 [] c = "3" -> 3 [] c = "4" -> 4
    [] c = "5" -> 5 [] c = "6" -> 6 [] c = "7" -> 7 [] c = "8" -> 8 [] c = "9" -> 9
    [] c \in {"a", "A"} -> 10 [] c \in {"b", "B"} -> 11 [] c \in {"c", "C"} -> 12
    [] c \in {"d", "D"} -> 13 [] c \in {"e", "E"} -> 14 [] OTHER -> 15

RECURSIVE Norm(_, _)
Norm(m, x) == IF m = 0 THEN [m |-> 0, x |-> 0]
              ELSE IF m % 10 = 0 THEN Norm(m \div 10, x + 1) ELSE [m |-> m, x |-> x]

(* The value of s[i .. j-1] as digits of a base.                           *)
DigitsValue(s, i, j, base) ==
  FoldLeft(LAMBDA a, c : a * base + DigitVal(c), 0, SubSeq(s, i, j - 1))

(* The first position at or after i whose character is not in D.         *)
Span(s, i, D) ==
  LET k == SelectInSubSeq(s, i, Len(s), LAMBDA c : c \notin D) IN
  IF k = 0 THEN Len(s) + 1 ELSE k

(* mpg_strtoui on s[i ..]: a "0x" (base 16) or "0" (base 8) prefix is     *)
(* skipped, then the longest run of digits of the base is given to        *)
(* mpz_set_str; ret is -1 and the value untouched when there is none.     *)
(* end is *end.                                                            *)
StrtouiDigits(s, start, end, base) ==
  [ret |-> IF end > start THEN 0 ELSE -1, end |-> end, val |-> DigitsValue(s, start, end, base)]
StrtouiFrom(s, start, base) == StrtouiDigits(s, start, Span(s, start, BaseDigits(base)), base)
mpg_strtoui(s, i, base) ==
  StrtouiFrom(s, CASE base = 16 /\ i + 1 <= Len(s) /\ s[i] = "0" /\ s[i + 1] \in {"x", "X"} -> i + 2
                   [] base = 8 /\ i <= Len(s) /\ s[i] = "0" -> i + 1
                   [] OTHER -> i,
              base)

(* Seeded-bug variant: only the lower-case exponent letter looked for.   *)
MaybeFloatNoUpperE(s, i) == \E k \in i .. Len(s) : s[k] \in {".", "e"}

(* mpg_maybe_float on s[i ..]: "inf" or "nan" in any case at the start,  *)
(* or a decimal point, 'e' or 'E' anywhere.                               *)
mpg_maybe_float(s, i) ==
  \/ /\ Len(s) - i + 1 >= 3
     /\ \/ s[i] \in {"i", "I"} /\ s[i + 1] \in {"n", "N"} /\ s[i + 2] \in {"f", "F"}
        \/ s[i] \in {"n", "N"} /\ s[i + 1] \in {"a", "A"} /\ s[i + 2] \in {"n", "N"}
  \/ \E k \in i .. Len(s) : s[k] \in {".", "e", "E"}

(* The length of a sign at position i, and whether it is a minus.       *)
SignLen(s, i) == IF i <= Len(s) /\ s[i] \in {"+", "-"} THEN 1 ELSE 0
Negative(s, i) == i <= Len(s) /\ s[i] = "-"

(* The exponent at k, "e" or "E", a sign and digits s[j .. e-1]: its end *)
(* and value, or end k and 0 when it has no digit.                       *)
ExpDigits(s, k, j, e) ==
  IF e > j
  THEN [end |-> e, ex |-> IF Negative(s, k + 1) THEN -DigitsValue(s, j, e, 10)
                                                ELSE DigitsValue(s, j, e, 10)]
  ELSE [end |-> k, ex |-> 0]
ExpSigned(s, k, j) == ExpDigits(s, k, j, Span(s, j, DecDigits))
Exponent(s, k) ==
  IF k <= Len(s) /\ s[k] \in {"e", "E"} THEN ExpSigned(s, k, k + 1 + SignLen(s, k + 1))
  ELSE [end |-> k, ex |-> 0]

(* mpfr_strtofr on s[i ..] in base 10: the longest prefix                 *)
(* [sign] digits [. digits] [(e|E) [sign] digits] with a digit in the     *)
(* mantissa; end is i (no conversion) when there is none.  The integer   *)
(* digits are s[i1 .. i2-1], those after a point s[i2+1 .. i3-1].         *)
StrtofrValue(s, i, nd, mant, frac, e) ==
  IF nd = 0 THEN [end |-> i, val |-> Norm(0, 0)]
  ELSE [end |-> e.end, val |-> Norm(IF Negative(s, i) THEN -mant ELSE mant, e.ex - frac)]
StrtofrFrac(s, i, i1, i2, i3, frac) ==
  StrtofrValue(s, i, (i2 - i1) + frac,
               DigitsValue(s, i1, i2, 10) * 10^frac + DigitsValue(s, i2 + 1, i3, 10),
               frac, Exponent(s, i3))
StrtofrPoint(s, i, i1, i2, i3) ==
  StrtofrFrac(s, i, i1, i2, i3, IF i3 > i2 THEN i3 - i2 - 1 ELSE 0)
StrtofrInt(s, i, i1, i2) ==
  StrtofrPoint(s, i, i1, i2, IF i2 <= Len(s) /\ s[i2] = "." THEN Span(s, i2 + 1, DecDigits) ELSE i2)
StrtofrSigned(s, i, i1) == StrtofrInt(s, i, i1, Span(s, i1, DecDigits))
mpfr_strtofr(s, i) == StrtofrSigned(s, i, i + SignLen(s, i))

(* mpg_zero: the NODE becomes a GMP integer of value 0.                   *)
mpg_zero(n) == [n EXCEPT !.type = "MPZN", !.val = Norm(0, 0)]

(* force_mpnum (do_nondec FALSE, so base 10): the NODE it leaves and its *)
(* answer.  An empty or all-blank string is zeroed and refused.  After   *)
(* the leading blanks (cp) and a sign (cp1), a string that cannot be a   *)
(* float goes to mpg_strtoui as an integer (negated after a '-'),        *)
(* anything else to mpfr_strtofr, sign included; the answer is whether   *)
(* the scan, followed by trailing blanks, reached cpend.                 *)
ScanDone(s, ptr) == Span(s, ptr, Space) = Len(s) + 1
ForceInt(n, s, cp, z) ==
  [ok |-> ScanDone(s, z.end),
   node |-> [mpg_zero(n) EXCEPT !.val = Norm(IF s[cp] = "-" THEN -z.val ELSE z.val, 0)]]
ForceFloat(n, s, f) ==
  [ok |-> ScanDone(s, f.end), node |-> [n EXCEPT !.type = "MPFN", !.val = f.val]]
ForceFrom(n, s, cp, cp1) ==
  IF ~mpg_maybe_float(s, cp1) THEN ForceInt(n, s, cp, mpg_strtoui(s, cp1, 10))
  ELSE ForceFloat(n, s, mpfr_strtofr(s, cp))
ForceSkipped(n, s, cp) ==
  IF cp > Len(s) THEN [ok |-> FALSE, node |-> mpg_zero(n)]
  ELSE ForceFrom(n, s, cp, cp + SignLen(s, cp))
force_mpnum(n) == ForceSkipped(n, n.str, Span(n.str, 1, Space))

(* mpg_force_number: a NODE that already holds a current number is left *)
(* alone; otherwise MAYBE_NUM is cleared and, when force_mpnum succeeds, *)
(* NUMCUR is set, with NUMBER for a value that came from input.          *)
ForceResult(n, r) ==
  [r.node EXCEPT !.maybe_num = FALSE, !.numcur = @ \/ r.ok,
                 !.number = @ \/ (r.ok /\ n.maybe_num)]
mpg_force_number(n) ==
  IF n.type # "none" /\ n.numcur THEN n ELSE ForceResult(n, force_mpnum(n))

=============================================================================
