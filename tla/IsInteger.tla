------------------------------ MODULE IsInteger ------------------------------
(***************************************************************************)
(* is_integer of int_array.c: the test, made on every lookup of the cint   *)
(* and int arrays, whether a subscript is an integer they may store, and  *)
(* its side effects on the subscript NODE (numbr, NUMCUR, NUMINT, and the *)
(* STRING -> NUMBER retyping of user input).                               *)
(*                                                                         *)
(* A subscript is a record of the flags and fields is_integer reads:       *)
(*   numint, numcur, strcur, user_input  (flags), isnull (== Nnull_string),*)
(*   d and integral (subs->numbr: an integer, or with integral FALSE some  *)
(*   non-integral double near d), and                                      *)
(*   str (stptr[0 .. stlen-1], a sequence of one-character strings).      *)
(* awk_long_t and int32_t are LongBits- and Int32Bits-bit two's-complement *)
(* integers; the checked instances scale both down.                        *)
(***************************************************************************)
EXTENDS Integers, Sequences, TLC

CONSTANTS
  LongBits,    \* width of awk_long_t (awk.h)
  Int32Bits,   \* width of int32_t, at most LongBits
  DoMpfr       \* do_mpfr: -M given

AWKLONGMAX == 2^(LongBits - 1) - 1
AWKLONGMIN == -AWKLONGMAX - 1
INT32_MAX  == 2^(Int32Bits - 1) - 1
INT32_MIN  == -INT32_MAX - 1

(* The result of an out-of-range multiply-add: wrapped to awk_long_t, as  *)
(* the two's-complement builds gawk is compiled by produce it.            *)
Wrap(x) == ((x - AWKLONGMIN) % 2^LongBits) + AWKLONGMIN

(* char_digit_value: the value of a decimal digit, -1 for anything else.  *)
DigitOf == "0" :> 0 @@ "1" :> 1 @@ "2" :> 2 @@ "3" :> 3 @@ "4" :> 4 @@
           "5" :> 5 @@ "6" :> 6 @@ "7" :> 7 @@ "8" :> 8 @@ "9" :> 9
char_digit_value(c) == IF c \in DOMAIN DigitOf THEN DigitOf[c] ELSE -1

(* is_integer's answer and the fields it leaves in the NODE.              *)
Reject(subs) == [ok |-> FALSE, numcur |-> subs.numcur, numint |-> FALSE,
                 d |-> subs.d, user_input_number |-> FALSE]
Accept(subs, l, int) ==
  [ok |-> int, numcur |-> TRUE, numint |-> int, d |-> l,
   user_input_number |-> subs.user_input]

(* Seeded-bug variant: the l > AWKLONGMAX/10 range test dropped, so the   *)
(* multiply wraps.                                                         *)
RECURSIVE ParseDigitsNoRange(_, _, _)
ParseDigitsNoRange(s, k, l) ==
  IF k > Len(s) THEN [done |-> TRUE, l |-> l]
  ELSE LET i == char_digit_value(s[k]) IN
       CASE i = -1 -> [done |-> FALSE, l |-> l]
         [] l <= (AWKLONGMAX - 9) \div 10 -> ParseDigitsNoRange(s, k + 1, l * 10 + i)
         [] i <= AWKLONGMAX - Wrap(l * 10) ->
              ParseDigitsNoRange(s, k + 1, Wrap(l * 10) + i)
         [] i - 1 = AWKLONGMAX - Wrap(l * 10) /\ s[1] = "-" /\ k = Len(s) ->
              [done |-> TRUE, l |-> AWKLONGMIN]
         [] OTHER -> [done |-> FALSE, l |-> l]

(* Seeded-bug variant: no special case for AWKLONGMIN.                    *)
RECURSIVE ParseDigitsNoMin(_, _, _)
ParseDigitsNoMin(s, k, l) ==
  IF k > Len(s) THEN [done |-> TRUE, l |-> l]
  ELSE LET i == char_digit_value(s[k]) IN
       CASE i = -1 -> [done |-> FALSE, l |-> l]
         [] l <= (AWKLONGMAX - 9) \div 10 -> ParseDigitsNoMin(s, k + 1, l * 10 + i)
         [] l > AWKLONGMAX \div 10 -> [done |-> FALSE, l |-> l]
         [] i <= AWKLONGMAX - l * 10 -> ParseDigitsNoMin(s, k + 1, l * 10 + i)
         [] OTHER -> [done |-> FALSE, l |-> l]

(* The "while (++cp != cpend)" loop from the character at index k on,     *)
(* with the value l so far: overflow is avoided by testing before each   *)
(* multiply-add, and the one value beyond AWKLONGMAX that a minus sign    *)
(* makes representable is accepted as AWKLONGMIN when it ends the string. *)
RECURSIVE ParseDigits(_, _, _)
ParseDigits(s, k, l) ==
  IF k > Len(s) THEN [done |-> TRUE, l |-> l]
  ELSE LET i == char_digit_value(s[k]) IN
       CASE i = -1 -> [done |-> FALSE, l |-> l]
         [] l <= (AWKLONGMAX - 9) \div 10 -> ParseDigits(s, k + 1, l * 10 + i)
         [] l > AWKLONGMAX \div 10 -> [done |-> FALSE, l |-> l]
         [] i <= AWKLONGMAX - l * 10 -> ParseDigits(s, k + 1, l * 10 + i)
         [] i - 1 = AWKLONGMAX - l * 10 /\ s[1] = "-" /\ k = Len(s) ->
              [done |-> TRUE, l |-> AWKLONGMIN]
         [] OTHER -> [done |-> FALSE, l |-> l]

(* The string path after the first-character tests: a parse from the      *)
(* first digit (index j, value l), then negation, NUMCUR, and the int32   *)
(* range test for NUMINT.                                                  *)
ParsedString(subs, p) ==
  LET l == IF p.l > 0 /\ subs.str[1] = "-" THEN -p.l ELSE p.l
  IN  IF p.done
      THEN Accept(subs, l, INT32_MIN <= l /\ l <= INT32_MAX)
      ELSE Reject(subs)

(* "00", "011", "-0", "-011": not what sprintf("%ld") produces.          *)
LeadingZero(s) ==
  Len(s) > 1 /\ (s[1] = "0" \/ (s[1] = "-" /\ s[2] = "0"))

(* The string path of is_integer (no NUMCUR).                             *)
StringPath(subs) ==
  LET s == subs.str
      l == IF s = <<>> THEN -1 ELSE char_digit_value(s[1])
  IN  CASE s = <<>> \/ (l = -1 /\ s[1] # "-") -> Reject(subs)
        [] LeadingZero(s) -> Reject(subs)
        [] Len(s) = 1 /\ l # -1 -> Accept(subs, l, TRUE)
        [] l = -1 /\ (Len(s) = 1 \/ char_digit_value(s[2]) = -1) -> Reject(subs)
        [] l = -1 -> ParsedString(subs, ParseDigits(s, 3, char_digit_value(s[2])))
        [] OTHER  -> ParsedString(subs, ParseDigits(s, 2, l))

(* standard_integer_string: /^0$/ or /^-?[1-9][0-9]*$/.                   *)
standard_integer_string(s) ==
  LET j == IF s # <<>> /\ s[1] = "-" THEN 2 ELSE 1
  IN  \/ s = <<"0">>
      \/ /\ j <= Len(s)
         /\ char_digit_value(s[j]) >= 1
         /\ \A k \in j + 1 .. Len(s) : char_digit_value(s[k]) >= 0

(* The NUMCUR path: an integral double within int32_t, whose string (if   *)
(* any) is the one sprintf("%ld") would give.                              *)
NumberPath(subs) ==
  IF /\ subs.integral
     /\ INT32_MIN <= subs.d /\ subs.d <= INT32_MAX
     /\ (~subs.strcur \/ standard_integer_string(subs.str))
  THEN [ok |-> TRUE, numcur |-> TRUE, numint |-> TRUE, d |-> subs.d,
        user_input_number |-> FALSE]
  ELSE Reject(subs)

(* is_integer(symbol, subs), without CHECK_INTEGER_USING_FORCE_NUMBER.     *)
is_integer(subs) ==
  CASE subs.numint -> [ok |-> TRUE, numcur |-> subs.numcur, numint |-> TRUE,
                       d |-> subs.d, user_input_number |-> FALSE]
    [] subs.isnull \/ DoMpfr -> Reject(subs)
    [] subs.numcur -> NumberPath(subs)
    [] OTHER -> StringPath(subs)

=============================================================================
