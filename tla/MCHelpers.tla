----------------------------- MODULE MCHelpers ------------------------------
(***************************************************************************)
(* Checks the pure helpers of the array back ends input by input: the HAT *)
(* arithmetic of cint_array.c (HatGeometry) on subscripts, and is_integer *)
(* of int_array.c (IsInteger) on subscript NODEs.  The state is the input *)
(* under test, a record [key] or [subs]; Init enumerates the inputs and   *)
(* the spec stutters on each, so every invariant is evaluated once per    *)
(* input.                                                                  *)
(*                                                                         *)
(* is_integer is checked with awk_long_t scaled to 8 bits and int32_t to  *)
(* the same width (as on a build whose long is 32 bits), so every string  *)
(* of up to four characters over the alphabet below reaches each overflow *)
(* branch of the digit loop: "127", "128", "-128", "-129", "999", "1270".  *)
(***************************************************************************)
EXTENDS HatGeometry, IsInteger, IntHashVectors, ArgvStore, MpfrNumber, MpfrCompare, SequencesExt

(* Subscripts 0 .. 2^(NHAT+2) and every 2^j - 1, 2^j, 2^j + 1 below 2^31  *)
(* (TLC's integers stop at 2^31 - 1, the largest subscript ISUINT takes):*)
(* all small HATs and the first and last subscript of every top-level    *)
(* HAT, where half-HATs and nested HATs begin.                            *)
BoundaryInputs ==
  (0 .. 2^(NHAT + 2))
    \cup {2^j - 1 : j \in 1 .. 30}
    \cup {2^j : j \in 0 .. 30}
    \cup {2^j + 1 : j \in 0 .. 30}
    \cup {(2^30 - 1) + 2^30}

CONSTANT Inputs          \* the subscripts checked, each in [0, 2^31)

Chars == {"-", "0", "1", "2", "7", "8", "9", "x"}
MaxLen == 4

Strings(n) == UNION {[1 .. k -> Chars] : k \in 0 .. n}

Base == [numint |-> FALSE, isnull |-> FALSE, numcur |-> FALSE, strcur |-> TRUE,
         user_input |-> FALSE, d |-> 0, integral |-> TRUE, str |-> <<>>]

StringInputs ==
  {[Base EXCEPT !.str = s, !.user_input = u] : s \in Strings(MaxLen), u \in BOOLEAN}

NumberValues == {0, 3, -3, INT32_MAX, INT32_MAX + 1, INT32_MIN, INT32_MIN - 1}

NumberInputs ==
  {[Base EXCEPT !.numcur = TRUE, !.d = d, !.integral = i, !.strcur = sc, !.str = s] :
     d \in NumberValues, i \in BOOLEAN, sc \in BOOLEAN, s \in Strings(2)}

FlagInputs ==
  {[Base EXCEPT !.numint = TRUE, !.numcur = TRUE, !.d = 3],
   [Base EXCEPT !.isnull = TRUE, !.numcur = TRUE]}

(* Values stored into ARGV: every string of up to five characters over a  *)
(* letter, a digit, ':', '=' and another character, in and not in the    *)
(* shadow array; "a::a=", "a:::=", "a::1=", "a:a=" and "1a=" among them.   *)
ArgvChars == {"a", "1", ":", "=", "/"}
ArgvInputs == {[val |-> s, shadow |-> b] : s \in BoundedSeq(ArgvChars, 5), b \in BOOLEAN}

(* Strings NODEs under -M, from input (MAYBE_NUM) or not: every string   *)
(* of up to five characters over a digit, both signs, a blank, the       *)
(* decimal point and both exponent letters ("1e+1", "-1.E1", " +1 ",     *)
(* "1e", "+", ". " among them).                                           *)
NumChars == {"1", "+", "-", " ", ".", "e", "E"}
NumInputs ==
  {[str |-> s, type |-> "none", val |-> Norm(0, 0), maybe_num |-> b,
    number |-> FALSE, numcur |-> FALSE] : s \in BoundedSeq(NumChars, 5), b \in BOOLEAN}

VARIABLE input

(* mpg_cmp's inputs: the GMP integers -1, 0 and 2, and the same values as  *)
(* MPFR floats together with both infinities and NaN.                      *)
CmpValues == {-1, 0, 2}
CmpNodes == {[int |-> b, v |-> [k |-> "num", n |-> x]] : b \in BOOLEAN, x \in CmpValues}
              \cup {[int |-> FALSE, v |-> [k |-> k, n |-> 0]] : k \in {"inf", "-inf", "nan"}}

Init == input \in {[key |-> k] : k \in Inputs}
                    \cup {[subs |-> s] : s \in StringInputs \cup NumberInputs \cup FlagInputs}
                    \cup {[hash |-> t] : t \in Vectors}
                    \cup {[argv |-> a] : a \in ArgvInputs}
                    \cup {[num |-> n] : n \in NumInputs}
                    \cup {[cmp |-> p] : p \in CmpNodes \X CmpNodes}
Next == UNCHANGED input
Spec == Init /\ [][Next]_input

OnKey  == "key" \in DOMAIN input     \* a subscript for the HAT arithmetic
OnSubs == "subs" \in DOMAIN input    \* a subscript NODE for is_integer
OnHash == "hash" \in DOMAIN input    \* <<k, hsize, int_hash(k, hsize)>> from C
OnArgv == "argv" \in DOMAIN input    \* a value stored into ARGV in sandbox mode
OnNum  == "num" \in DOMAIN input     \* a string NODE given to mpg_force_number
OnCmp  == "cmp" \in DOMAIN input     \* two number NODEs given to mpg_cmp

RECURSIVE BitLength(_)
BitLength(n) == IF n = 0 THEN 0 ELSE 1 + BitLength(n \div 2)

(* cint_hash's bit trick computes floor(log2(k)) for every k > 0, the     *)
(* number of binary digits of k minus one.                                *)
Log2FloorCorrect ==
  OnKey /\ input.key > 0 => LET key == input.key IN Log2Floor(key) = BitLength(key) - 1

(* tree_lookup from an empty HAT never indexes past the table it just     *)
(* allocated (half of array_size for a HALFHAT), places the subscript at  *)
(* an offset inside a leaf of at most 2^NHAT slots, and a leaf base plus  *)
(* that offset, what leaf_list reports, gives the subscript back.         *)
PathInBounds ==
  OnKey =>
  LET key == input.key
      S == LookupPath(<<>>, key)
      L == LeafStep(<<>>, key)
  IN  /\ \A j \in DOMAIN S : S[j].i < ActualSize(S[j])
      /\ key - L.base \in 0 .. L.size - 1
      /\ L.size <= 2^NHAT

(* Reference: the decimal strings sprintf("%ld") prints, and their value. *)
Digits == {"0", "1", "2", "3", "4", "5", "6", "7", "8", "9"}
Unsigned(t) == t # <<>> /\ ToSet(t) \subseteq Digits /\ (t[1] = "0" => Len(t) = 1)
Printed(s) ==
  \/ Unsigned(s)
  \/ s # <<>> /\ s[1] = "-" /\ Unsigned(Tail(s)) /\ Tail(s) # <<"0">>
Magnitude(t) == FoldLeft(LAMBDA a, c : a * 10 + DigitOf[c], 0, t)
Value(s) == IF s[1] = "-" THEN -Magnitude(Tail(s)) ELSE Magnitude(s)
InInt32(v) == INT32_MIN <= v /\ v <= INT32_MAX

Expected(x) ==
  CASE x.numint -> TRUE
    [] x.isnull -> FALSE
    [] x.numcur -> x.integral /\ InInt32(x.d) /\ (x.strcur => Printed(x.str))
    [] OTHER    -> Printed(x.str) /\ InInt32(Value(x.str))

(* The comments of is_integer ("3" and "-3" yes, "+3" and "03" no) and of *)
(* standard_integer_string: a subscript is taken as an integer exactly    *)
(* when it is the string sprintf("%ld") gives for an int32_t value, or an *)
(* integral number in range whose string, if cached, is that string.      *)
IsIntegerCorrect == OnSubs => is_integer(input.subs).ok = Expected(input.subs)

(* The digit loop of is_integer guards every multiply-add against          *)
(* awk_long_t overflow: a printed decimal string gets NUMCUR with exactly  *)
(* its value when that value fits in awk_long_t (AWKLONGMIN included),     *)
(* and is left without NUMCUR otherwise.                                   *)
NumbrExact ==
  OnSubs =>
  LET subs == input.subs IN
  ~subs.numint /\ ~subs.isnull /\ ~subs.numcur /\ Printed(subs.str) =>
    LET r == is_integer(subs)
        inLong == AWKLONGMIN <= Value(subs.str) /\ Value(subs.str) <= AWKLONGMAX
    IN  /\ r.numcur = inLong
        /\ inLong => r.d = Value(subs.str)

(* int_hash: the halves arithmetic computes what the C function computes, *)
(* for negative subscripts, carries between the halves, shifts across the *)
(* 16-bit boundary and the largest table size.                            *)
IntHashMatchesC == OnHash => IntHash(input.hash[1], input.hash[2]) = input.hash[3]

(* Reference for argv_store: an identifier, and a variable name, that is *)
(* an identifier, or an identifier, "::" and a possibly empty run of      *)
(* identifier characters (argv_store does not ask the part after "::" to  *)
(* begin with a letter).                                                   *)
Ident(t) == t # <<>> /\ is_letter(t[1]) /\ \A i \in 2 .. Len(t) : is_identchar(t[i])
VarName(n) ==
  \/ Ident(n)
  \/ \E i \in 1 .. Len(n) - 2 :
       /\ Ident(SubSeq(n, 1, i)) /\ n[i + 1] = ":" /\ n[i + 2] = ":"
       /\ \A j \in i + 3 .. Len(n) : is_identchar(n[j])

(* In sandbox mode a program can put into ARGV only an empty string, an  *)
(* element of the original command line, or name=value where name, the  *)
(* text before the first '=', is a variable name: never another file     *)
(* name, however the ':' and '=' characters are placed.                  *)
ArgvStoreAdmits ==
  OnArgv =>
  LET s == input.argv.val IN
  argv_store(s, input.argv.shadow) =
    \/ s = <<>> \/ input.argv.shadow
    \/ \E k \in 1 .. Len(s) : s[k] = "=" /\ "=" \notin ToSet(SubSeq(s, 1, k - 1))
                           /\ VarName(SubSeq(s, 1, k - 1))

(* Reference for force_mpnum: the blank-trimmed text is a decimal,       *)
(* [sign] mantissa [(e|E) [sign] digits], the mantissa digits with at    *)
(* most one decimal point and at least one digit; its value.             *)
TrimTo(s, I) == IF I = {} THEN <<>> ELSE SubSeq(s, Min(I), Max(I))
Trim(s) == TrimTo(s, {i \in 1 .. Len(s) : s[i] \notin Space})
Unsign(t) == IF t # <<>> /\ t[1] \in {"+", "-"} THEN Tail(t) ELSE t
AllDigits(t) == \A i \in 1 .. Len(t) : t[i] \in DecDigits
IsMantissa(t) ==
  /\ \E i \in 1 .. Len(t) : t[i] \in DecDigits
  /\ \/ AllDigits(t)
     \/ \E k \in 1 .. Len(t) : t[k] = "." /\ AllDigits(SubSeq(t, 1, k - 1))
                                      /\ AllDigits(SubSeq(t, k + 1, Len(t)))
IsExponent(e) == Unsign(e) # <<>> /\ AllDigits(Unsign(e))
ExpAt(u, k) ==
  u[k] \in {"e", "E"} /\ IsMantissa(SubSeq(u, 1, k - 1)) /\ IsExponent(SubSeq(u, k + 1, Len(u)))
IsDecimalU(u) == IsMantissa(u) \/ \E k \in 1 .. Len(u) : ExpAt(u, k)
IsDecimal(t) == IsDecimalU(Unsign(t))
SeqValue(d) == FoldLeft(LAMBDA a, c : a * 10 + DigitVal(c), 0, d)
ExpValue(e) == IF e = <<>> THEN 0 ELSE IF e[1] = "-" THEN -SeqValue(Tail(e)) ELSE SeqValue(Unsign(e))
(* m * 10^-frac * 10^ev for mantissa m (point at pt, 0 if none) and the  *)
(* exponent text e.                                                       *)
MantValue(neg, m, pt, e) ==
  LET mv == SeqValue(SelectSeq(m, LAMBDA c : c # "."))
      frac == IF pt = 0 THEN 0 ELSE Len(m) - pt
  IN  Norm(IF neg THEN -mv ELSE mv, ExpValue(e) - frac)
SplitValue(neg, u, k) ==
  MantValue(neg, SubSeq(u, 1, k - 1), SelectInSeq(SubSeq(u, 1, k - 1), LAMBDA c : c = "."),
            SubSeq(u, k + 1, Len(u)))
DecimalValueU(neg, u) ==
  SplitValue(neg, u, IF \E j \in 1 .. Len(u) : ExpAt(u, j)
                     THEN CHOOSE j \in 1 .. Len(u) : ExpAt(u, j) ELSE Len(u) + 1)
DecimalValue(t) == DecimalValueU(t[1] = "-", Unsign(t))
LoneSign(t) == t # <<>> /\ t[1] \in {"+", "-"} /\ Trim(Tail(t)) = <<>>

NumStringCheck(n, r, t, numeric) ==
  /\ r.numcur = numeric
  /\ r.number = (numeric /\ n.maybe_num)
  /\ LoneSign(t) => r.type = "MPZN" /\ r.val = Norm(0, 0)
  /\ IsDecimal(t) =>
       /\ r.val = DecimalValue(t)
       /\ r.type = "MPZN" <=> \A i \in 1 .. Len(t) : t[i] \notin {".", "e", "E"}
NumStringFor(n, t) == NumStringCheck(n, mpg_force_number(n), t, IsDecimal(t) \/ LoneSign(t))

(* mpg_force_number makes a string NODE a current number exactly when,   *)
(* blanks trimmed, it is a decimal (or a lone sign, which force_mpnum    *)
(* takes as 0: mpg_strtoui finds no digit and leaves ptr at cpend); the  *)
(* value is the decimal's, held as a GMP integer exactly when the text   *)
(* has no point or exponent; NUMBER is added only for input text.        *)
NumStringExact == OnNum => NumStringFor(input.num, Trim(input.num.str))


-----------------------------------------------------------------------------
(* The order a sort needs, from the comment of mpg_cmp: by value, whatever *)
(* the representation, with NaN greater than every other value and equal  *)
(* to every NaN.                                                          *)
CmpRank(v) == CASE v.k = "-inf" -> -100 [] v.k = "inf" -> 100 [] v.k = "nan" -> 200 [] OTHER -> v.n
CmpSign(d) == IF d > 0 THEN 1 ELSE IF d < 0 THEN -1 ELSE 0

(* Every comparison mpg_cmp makes, of a GMP integer and an MPFR float in   *)
(* either order, with infinities and NaN on either side, has the sign of   *)
(* that order, so that cmp_numbers is antisymmetric and transitive and    *)
(* the sorts built on it are well defined under -M.                       *)
MpgCmpOrders ==
  OnCmp => CmpSign(mpg_cmp(input.cmp[1], input.cmp[2]))
             = CmpSign(CmpRank(input.cmp[1].v) - CmpRank(input.cmp[2].v))

=============================================================================
