------------------------------- MODULE IntHash -------------------------------
(***************************************************************************)
(* int_hash of int_array.c: Paul Hsieh's final mixing of SuperFastHash on  *)
(* the uint32_t image of the subscript, reduced modulo the table size.     *)
(*                                                                         *)
(* TLC's integers stop at 2^31 - 1, so a uint32_t is a pair of 16-bit     *)
(* halves and every operation (<<, >>, ^, + modulo 2^32, %) is done on    *)
(* the halves.                                                             *)
(***************************************************************************)
EXTENDS Naturals, Integers, Bitwise

HALF == 2^16

(* (uint32_t) k for a subscript k in [-2^31, 2^31).                        *)
U32(k) ==
  [hi |-> ((k - (k % HALF)) \div HALF) % HALF, lo |-> k % HALF]

(* h << s for 0 < s < 32, bits shifted past bit 31 dropped.                *)
Shl(w, s) ==
  IF s < 16
  THEN [hi |-> (w.hi % 2^(16 - s)) * 2^s + w.lo \div 2^(16 - s),
        lo |-> (w.lo % 2^(16 - s)) * 2^s]
  ELSE [hi |-> (w.lo % 2^(32 - s)) * 2^(s - 16), lo |-> 0]

(* h >> s for 0 < s < 32.                                                  *)
Shr(w, s) ==
  IF s < 16
  THEN [hi |-> w.hi \div 2^s,
        lo |-> (w.lo \div 2^s) + (w.hi % 2^s) * 2^(16 - s)]
  ELSE [hi |-> 0, lo |-> w.hi \div 2^(s - 16)]

XorW(a, b) == [hi |-> a.hi ^^ b.hi, lo |-> a.lo ^^ b.lo]

(* Seeded-bug variant: the carry out of the low half lost.               *)
AddWNoCarry(a, b) == [hi |-> (a.hi + b.hi) % HALF, lo |-> (a.lo + b.lo) % HALF]

(* a + b modulo 2^32: the carry out of the low half goes to the high one. *)
AddW(a, b) ==
  [hi |-> ((a.hi + b.hi) + (a.lo + b.lo) \div HALF) % HALF,
   lo |-> (a.lo + b.lo) % HALF]

(* x + y modulo m for 0 <= x, y < m < 2^31, without leaving 0 .. m - 1.    *)
AddMod(x, y, m) == IF x >= m - y THEN x - (m - y) ELSE x + y

RECURSIVE TimesPow2Mod(_, _, _)
TimesPow2Mod(x, s, m) ==
  IF s = 0 THEN x ELSE TimesPow2Mod(AddMod(x, x, m), s - 1, m)

(* h % hsize for hsize < 2^31: (hi * 2^16 + lo) mod hsize.                 *)
ModW(w, m) == AddMod(TimesPow2Mod(w.hi % m, 16, m), w.lo % m, m)

(* The six mixing steps of int_hash, in the order of the code.             *)
Mix1(h) == XorW(h, Shl(h, 3))
Mix2(h) == AddW(h, Shr(h, 5))
Mix3(h) == XorW(h, Shl(h, 4))
Mix4(h) == AddW(h, Shr(h, 17))
Mix5(h) == XorW(h, Shl(h, 25))
Mix6(h) == AddW(h, Shr(h, 6))

(* int_hash(k, hsize); "if (h >= hsize) h %= hsize" is h % hsize.          *)
IntHash(k, hsize) ==
  ModW(Mix6(Mix5(Mix4(Mix3(Mix2(Mix1(U32(k))))))), hsize)

=============================================================================
