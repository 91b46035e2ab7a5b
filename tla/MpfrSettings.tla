---------------------------- MODULE MpfrSettings ----------------------------
(***************************************************************************)
(* The MPFR settings of mpfr.c under -M: init_mpfr, and set_PREC and       *)
(* set_ROUNDMODE, which gawk calls when the program assigns to PREC or     *)
(* ROUNDMODE.  The state is MPFR's default precision and rounding mode,   *)
(* ROUND_MODE, do_ieee_fmt and the exponent range max_exp/min_exp that     *)
(* format_ieee (IEEE_FMT) uses to emulate an IEEE-754 binary format.       *)
(*                                                                         *)
(* A value assigned to PREC is [kind, str, num]: kind "number" (NUMBER),   *)
(* "string" (STRING only) or "strnum" (STRING|MAYBE_NUM, from input), str  *)
(* its text (one of a few strings, compared without regard to case by    *)
(* strcasecmp, so written in lower case here) and num the value           *)
(* force_number and get_number_si give it.                                 *)
(***************************************************************************)
EXTENDS Integers, Sequences

CONSTANTS
  MPFR_PREC_MIN, MPFR_PREC_MAX,   \* the precisions MPFR accepts
  EMIN_DEFAULT, EMAX_DEFAULT,     \* MPFR_EMIN_DEFAULT, MPFR_EMAX_DEFAULT
  DEFAULT_PREC, DEFAULT_RMODE,    \* what main passes to init_mpfr
  NumericStrs,                    \* strings force_number finds a number in
  PrecInputs,                     \* values a program assigns to PREC
  RoundInputs                     \* strings a program assigns to ROUNDMODE

VARIABLES
  default_prec,   \* mpfr_set_default_prec
  default_rnd,    \* mpfr_set_default_rounding_mode
  ROUND_MODE,
  do_ieee_fmt,
  max_exp, min_exp

vars == <<default_prec, default_rnd, ROUND_MODE, do_ieee_fmt, max_exp, min_exp>>

(* ieee_fmts[]: name, precision, emax, emin.                               *)
ieee_fmts ==
  << [name |-> "half",   precision |-> 11,  emax |-> 16,     emin |-> -23],
     [name |-> "single", precision |-> 24,  emax |-> 128,    emin |-> -148],
     [name |-> "double", precision |-> 53,  emax |-> 1024,   emin |-> -1073],
     [name |-> "quad",   precision |-> 113, emax |-> 16384,  emin |-> -16493],
     [name |-> "oct",    precision |-> 237, emax |-> 262144, emin |-> -262377] >>

(* get_rnd_mode: the MPFR rounding mode of a character, or -1 (here       *)
(* "none").  The build is taken to have MPFR 3 or later, so 'A' is known. *)
get_rnd_mode(c) ==
  CASE c \in {"N", "n"} -> "RNDN" [] c \in {"Z", "z"} -> "RNDZ"
    [] c \in {"U", "u"} -> "RNDU" [] c \in {"D", "d"} -> "RNDD"
    [] c \in {"A", "a"} -> "RNDA" [] OTHER -> "none"

(* init_mpfr: the default precision and rounding mode main asks for; no  *)
(* IEEE emulation and MPFR's default exponent range.                      *)
Init ==
  /\ default_prec = DEFAULT_PREC
  /\ ROUND_MODE = get_rnd_mode(DEFAULT_RMODE)
  /\ default_rnd = ROUND_MODE
  /\ do_ieee_fmt = FALSE
  /\ max_exp = EMAX_DEFAULT /\ min_exp = EMIN_DEFAULT

(* force_number on a MAYBE_NUM value: NUMBER when its text is a number.  *)
IsNumber(val) == val.kind = "number" \/ (val.kind = "strnum" /\ val.str \in NumericStrs)

(* The index of the IEEE format a pure string names, 0 when none.         *)
FmtIndex(val) ==
  IF IsNumber(val) \/ ~\E i \in DOMAIN ieee_fmts : ieee_fmts[i].name = val.str THEN 0
  ELSE CHOOSE i \in DOMAIN ieee_fmts : ieee_fmts[i].name = val.str

(* Seeded-bug variant: a valid numeric PREC that leaves IEEE emulation on. *)
SetPrecNumKeepIeee(val) ==
  IF val.num < MPFR_PREC_MIN \/ val.num > MPFR_PREC_MAX
  THEN UNCHANGED <<default_prec, do_ieee_fmt, max_exp, min_exp>>
  ELSE default_prec' = val.num /\ UNCHANGED <<do_ieee_fmt, max_exp, min_exp>>

(* The numeric branch (prec <= 0): get_number_si of the value; outside    *)
(* [MPFR_PREC_MIN, MPFR_PREC_MAX] a warning and nothing changes,          *)
(* otherwise IEEE emulation ends and the value is the precision.          *)
SetPrecNum(val) ==
  IF val.num < MPFR_PREC_MIN \/ val.num > MPFR_PREC_MAX
  THEN UNCHANGED <<default_prec, do_ieee_fmt, max_exp, min_exp>>
  ELSE /\ default_prec' = val.num /\ do_ieee_fmt' = FALSE
       /\ UNCHANGED <<max_exp, min_exp>>

(* The IEEE branch: the format's precision and exponent range, and       *)
(* do_ieee_fmt (the MPFR exponent range itself is left alone).            *)
SetPrecFmt(f) ==
  /\ default_prec' = f.precision
  /\ max_exp' = f.emax /\ min_exp' = f.emin
  /\ do_ieee_fmt' = TRUE

(* set_PREC: the program assigns val to PREC.                             *)
set_PREC(val) ==
  /\ IF FmtIndex(val) # 0 THEN SetPrecFmt(ieee_fmts[FmtIndex(val)]) ELSE SetPrecNum(val)
  /\ UNCHANGED <<default_rnd, ROUND_MODE>>

(* set_ROUNDMODE: the program assigns the string s to ROUNDMODE; one      *)
(* character naming a mode sets it, anything else only warns.             *)
set_ROUNDMODE(s) ==
  LET rndm == IF Len(s) = 1 THEN get_rnd_mode(s[1]) ELSE "none" IN
  /\ IF rndm # "none" THEN default_rnd' = rndm /\ ROUND_MODE' = rndm
     ELSE UNCHANGED <<default_rnd, ROUND_MODE>>
  /\ UNCHANGED <<default_prec, do_ieee_fmt, max_exp, min_exp>>

Next ==
  \/ \E val \in PrecInputs : set_PREC(val)
  \/ \E s \in RoundInputs : set_ROUNDMODE(s)

Spec == Init /\ [][Next]_vars

-----------------------------------------------------------------------------
(* While IEEE-754 emulation is on, the precision of new numbers and the   *)
(* exponent range format_ieee subnormalizes them to are those of one and  *)
(* the same format, whatever mix of format names, numeric, invalid and    *)
(* strnum values the program assigned to PREC before.                     *)
IeeeConsistent ==
  do_ieee_fmt =>
    \E i \in DOMAIN ieee_fmts :
      /\ ieee_fmts[i].precision = default_prec
      /\ ieee_fmts[i].emax = max_exp /\ ieee_fmts[i].emin = min_exp

=============================================================================
