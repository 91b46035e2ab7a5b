------------------------------- MODULE NrVar -------------------------------
(***************************************************************************)
(* NR and FNR under -M (mpfr.c).  The record counters are longs that gawk  *)
(* increments per record; to go beyond LONG_MAX each has an mpz quotient   *)
(* (MNR, MFNR) and the awk-visible value is                                *)
(*     var_value = MNR * LONG_MAX + NR.                                    *)
(* mpg_set_var splits a value the program assigned into quotient and       *)
(* remainder; mpg_update_var rebuilds var_value from them before the       *)
(* program reads it, keeping the old NODE when it still holds the value.  *)
(*                                                                         *)
(* A number NODE is [int, num, frac]: a GMP integer (int) or an MPFR float *)
(* whose value truncated toward zero is num, with frac when it is not     *)
(* integral.  long is LongBits-bit; the checked instance scales it down   *)
(* so that values beyond LONG_MAX and their wrap in mpz_get_si occur.      *)
(***************************************************************************)
EXTENDS Integers

CONSTANTS
  Counters,    \* {NR_node, FNR_node}
  LongBits,    \* width of long
  Assigned,    \* number NODEs a program may assign to NR or FNR
  MaxCount     \* bound on the value records carry a counter to

LONG_MAX == 2^(LongBits - 1) - 1
NoRead == [none |-> TRUE]     \* not read since the last assignment

Num(x) == [int |-> TRUE, num |-> x, frac |-> FALSE]   \* mpg_integer() set to x

(* mpz_get_si: the low bits of the magnitude, with the sign applied (GMP's *)
(* result for a value that does not fit in a long).                       *)
GetSi(x) == IF x >= 0 THEN x % 2^(LongBits - 1)
            ELSE -1 - ((-x - 1) % 2^(LongBits - 1))

(* Seeded-bug variant: mpz_tdiv_q_ui, the quotient rounded toward zero    *)
(* and the magnitude of the remainder returned.                            *)
SetVarTrunc(v) ==
  LET q == IF v.num >= 0 THEN v.num \div LONG_MAX ELSE -((-v.num) \div LONG_MAX)
      m == v.num - q * LONG_MAX
  IN  [q |-> q, r |-> IF m >= 0 THEN m ELSE -m]

(* mpg_set_var: r is the integer, or the float rounded toward zero; the    *)
(* floor division by LONG_MAX stores the quotient in MNR/MFNR and returns  *)
(* the non-negative remainder for NR/FNR.                                  *)
mpg_set_var(v) == [q |-> v.num \div LONG_MAX, r |-> v.num % LONG_MAX]

(* mpg_update_var: with a zero quotient the NODE is replaced only when it  *)
(* is a float or its long value differs from the counter; otherwise a new  *)
(* integer NODE of counter + quotient * LONG_MAX.                          *)
mpg_update_var(v, q, nr) ==
  IF q = 0
  THEN IF ~v.int \/ GetSi(v.num) # nr THEN Num(nr) ELSE v
  ELSE Num(nr + q * LONG_MAX)

VARIABLES
  val,       \* c -> var_value of NR_node / FNR_node
  mq,        \* c -> MNR / MFNR
  lv,        \* c -> the long NR / FNR
  count,     \* c -> the value the program set plus the records counted since
  lastread   \* c -> what a read gave since the value last changed, or NoRead

vars == <<val, mq, lv, count, lastread>>

(* init_mpfr: MNR and MFNR are mpz_init'ed to 0, NR and FNR start at 0.     *)
Init ==
  /\ val = [c \in Counters |-> Num(0)]
  /\ mq = [c \in Counters |-> 0]
  /\ lv = [c \in Counters |-> 0]
  /\ count = [c \in Counters |-> 0]
  /\ lastread = [c \in Counters |-> NoRead]

(* The program assigns v to NR or FNR: var_value becomes v and the setter   *)
(* stores mpg_set_var's remainder in the long counter.                     *)
Assign(c, v) ==
  LET s == mpg_set_var(v) IN
  /\ val' = [val EXCEPT ![c] = v]
  /\ mq' = [mq EXCEPT ![c] = s.q]
  /\ lv' = [lv EXCEPT ![c] = s.r]
  /\ count' = [count EXCEPT ![c] = v.num]
  /\ lastread' = [lastread EXCEPT ![c] = NoRead]

(* The input code counts a record (the environment): the long counter is   *)
(* incremented, carrying into the quotient when it reaches LONG_MAX, the   *)
(* representation mpg_update_var's comment documents.                      *)
Record(c) ==
  /\ count[c] < MaxCount
  /\ IF lv[c] + 1 = LONG_MAX
     THEN mq' = [mq EXCEPT ![c] = @ + 1] /\ lv' = [lv EXCEPT ![c] = 0]
     ELSE lv' = [lv EXCEPT ![c] = @ + 1] /\ UNCHANGED mq
  /\ count' = [count EXCEPT ![c] = @ + 1]
  /\ lastread' = [lastread EXCEPT ![c] = NoRead]
  /\ UNCHANGED val

(* The program reads NR or FNR: mpg_update_var refreshes var_value first.  *)
Read(c) ==
  LET v == mpg_update_var(val[c], mq[c], lv[c]) IN
  /\ val' = [val EXCEPT ![c] = v]
  /\ lastread' = [lastread EXCEPT ![c] = v]
  /\ UNCHANGED <<mq, lv, count>>

Next == \E c \in Counters :
          \/ \E v \in Assigned : Assign(c, v)
          \/ Record(c)
          \/ Read(c)

Spec == Init /\ [][Next]_vars

-----------------------------------------------------------------------------
(* Every read of NR or FNR gives exactly the value the program assigned    *)
(* (rounded toward zero) plus the records counted since, whatever the sign *)
(* of that value and however often the long counter carried: set_var's    *)
(* floor division, the carry and update_var's keep-the-old-NODE shortcut   *)
(* (which compares only the low bits of a possibly larger integer) agree.  *)
ReadIsCount ==
  \A c \in Counters :
    lastread[c] # NoRead =>
      lastread[c].int /\ lastread[c].num = count[c]

=============================================================================
