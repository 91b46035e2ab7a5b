------------------------------- MODULE MCMpfr -------------------------------
(***************************************************************************)
(* The three stateful models of mpfr.c checked in one run, side by side: *)
(* NR and FNR (NrVar), the arithmetic dispatch of mpg_interpret           *)
(* (MpfrArith) and the PREC/ROUNDMODE settings (MpfrSettings).  They      *)
(* share no state; part, fixed by Init, says which one a behaviour runs,  *)
(* so the states are those of the three models, not their product.       *)
(* MpfrArith is extended; NrVar and MpfrSettings, whose Init, Next and    *)
(* Spec would clash with its names, are instantiated as NR and ST.        *)
(*                                                                         *)
(* NrVar: long scaled to 3 bits (LONG_MAX = 3, long in -4 .. 3); assigned  *)
(* values reach two quotients either side of zero and beyond the range of *)
(* long, floats included, and records carry a counter from the most       *)
(* negative assignable value up to 2 * LONG_MAX + 1.                       *)
(*                                                                         *)
(* MpfrArith: PRECISION_MIN scaled from 64 to 3 bits, so that 13 (four    *)
(* significant bits) and 25 (five) need a wider temporary while -7 (three)*)
(* and 24 (two: 11000) fit the initial one.  The operands give zero and   *)
(* negative divisors and exponents, dividing and non-dividing pairs, and  *)
(* a negative dividend with a positive divisor for %.                     *)
(*                                                                         *)
(* MpfrSettings: PREC gets every IEEE format name but two, as a string    *)
(* and as input; numeric strings and numbers below, at and above           *)
(* MPFR_PREC_MIN (2); a string that is neither.  ROUNDMODE gets valid      *)
(* modes in both cases, an unknown letter, a digit, two letters and "".  *)
(***************************************************************************)
EXTENDS MpfrArith, TLC

CONSTANTS Counters, LongBits, Assigned, MaxCount, nr, fnr,
          MPFR_PREC_MIN, EMIN_DEFAULT, EMAX_DEFAULT, DEFAULT_PREC, DEFAULT_RMODE,
          NumericStrs, PrecInputs, RoundInputs

VARIABLES val, mq, lv, count, lastread, part,
          default_prec, default_rnd, ROUND_MODE, do_ieee_fmt, max_exp, min_exp

NR == INSTANCE NrVar
ST == INSTANCE MpfrSettings

NRVars == <<val, mq, lv, count, lastread>>
STVars == <<default_prec, default_rnd, ROUND_MODE, do_ieee_fmt, max_exp, min_exp>>

MCInit == NR!Init /\ Init /\ ST!Init /\ part \in {"nr_fnr", "arith", "settings"}

MCNext ==
  \/ part = "nr_fnr" /\ NR!Next /\ UNCHANGED <<tprec, top, STVars, part>>
  \/ part = "arith" /\ Next /\ UNCHANGED <<NRVars, STVars, part>>
  \/ part = "settings" /\ ST!Next /\ UNCHANGED <<NRVars, tprec, top, part>>

MCSpec == MCInit /\ [][MCNext]_<<NRVars, tprec, top, STVars, part>>

(* Every read of NR or FNR gives exactly the value the program assigned    *)
(* plus the records counted since (NrVar's ReadIsCount: mpg_set_var,       *)
(* the carry into MNR/MFNR and mpg_update_var's shortcut agree).           *)
ReadIsCount == NR!ReadIsCount

(* While IEEE-754 emulation is on, precision and exponent range are those *)
(* of one format, whatever was assigned to PREC before (MpfrSettings'      *)
(* IeeeConsistent: set_PREC's numeric branch ends the emulation).         *)
IeeeConsistent == ST!IeeeConsistent

Perms == Permutations({nr, fnr})

MCCounters == {nr, fnr}

MCAssigned ==
  {[int |-> TRUE, num |-> x, frac |-> FALSE] : x \in {-7, -4, -1, 2, 5}}
    \cup {[int |-> FALSE, num |-> x, frac |-> f] : x \in {-1, 2}, f \in BOOLEAN}

MCInts == {-7, 0, 3, 13, 24, 25}
MCExponents == {-1, 0, 3}

PrecStrs == {"double", "oct", "53", "1", "x"}
StrVal(s) == CASE s = "53" -> 53 [] s = "1" -> 1 [] OTHER -> 0
MCPrecInputs ==
  {[kind |-> "number", str |-> "", num |-> n] : n \in {-5, 1, 2, 24}}
    \cup {[kind |-> k, str |-> s, num |-> StrVal(s)] : k \in {"string", "strnum"}, s \in PrecStrs}
MCNumericStrs == {"53", "1"}
MCRoundInputs == {<<"N">>, <<"z">>, <<"A">>, <<"x">>, <<"1">>, <<"N", "N">>, <<>>}
MCEminDefault == 1 - 2^30

=============================================================================
