----------------------------- MODULE HatGeometry -----------------------------
(***************************************************************************)
(* The arithmetic of cint_array.c: which top-level HAT a subscript goes    *)
(* to (cint_hash), how big the leaf array that will hold it is estimated   *)
(* to be (cint_lookup), and the path of HAT nodes tree_lookup walks and    *)
(* initialises down to that leaf.  These are pure operators; CintArray     *)
(* uses them on its state and MCHelpers checks them over all small         *)
(* subscripts and the 32-bit boundaries.                                   *)
(***************************************************************************)
EXTENDS Naturals, SequencesExt, Bitwise

CONSTANT EnvNHAT         \* getenv_long("NHAT"); any value <= 1 means unset

INT32_BIT == 32

(* cint_array_init: NHAT from the environment when 1 < NHAT < 32, else    *)
(* the default 10, then clamped to the last usable entry of               *)
(* power_two_table (31 entries, 2^0 .. 2^30).                              *)
NHAT ==
  LET nelems == 31
      v == IF EnvNHAT > 1 /\ EnvNHAT < INT32_BIT THEN EnvNHAT ELSE 10
  IN  IF v > nelems - 2 THEN nelems - 2 ELSE v

THRESHOLD == 2^(NHAT + 1)

(* The bit-twiddling floor(log2(num)) of cint_hash for 0 < num < 2^32:  *)
(* for each shift of 16, 8, 4 and 2 bits, shift when num > 2^shift - 1     *)
(* (0xFFFF, 0xFF, 0x0F, 0x03) and or the shift into r; finally or in       *)
(* num >> 1.                                                               *)
RECURSIVE ShiftSteps(_, _, _)
ShiftSteps(num, r, shifts) ==
  IF shifts = <<>> THEN r | shiftR(num, 1)
  ELSE LET sh == IF num > 2^Head(shifts) - 1 THEN Head(shifts) ELSE 0
       IN  ShiftSteps(shiftR(num, sh), r | sh, Tail(shifts))

(* Seeded-bug variants, named ...Le, ...Ge, ...No03, test that the        *)
(* invariants of MCHelpers and CintArray detect a wrong cint_hash or      *)
(* tree_lookup: the 0x03 step left out; a node flagged HALFHAT when       *)
(* n >= m/2; the single low HAT used for m <= NHAT.                       *)
Log2FloorNo03(num) == ShiftSteps(num, 0, <<16, 8, 4>>)

Log2Floor(num) == ShiftSteps(num, 0, <<16, 8, 4, 2>>)

(* cint_hash: the top-level slot of subscript k.  All k < 2^NHAT share    *)
(* slot NHAT; otherwise the slot is the bit length of k.  ISUINT admits   *)
(* only k < 2^31, so the (uint32_t) cast keeps k.                          *)
CintHash(k) ==
  IF k = 0 THEN NHAT
  ELSE LET r == Log2Floor(k)
       IN  IF r < NHAT THEN NHAT ELSE 1 + r

(* cint_lookup's estimate of the exponent of the leaf array a new          *)
(* subscript of bucket h1 = m + 1 will need: halve m while it is >= NHAT.  *)
EstLeafExp(m) ==
  LET RECURSIVE Halve(_)
      Halve(li) == IF li >= NHAT THEN Halve((li + 1) \div 2) ELSE li
  IN  Halve(IF m > NHAT THEN m ELSE NHAT)

(* A HAT node as stored in its NODE: array_base, array_size, the HALFHAT  *)
(* flag and table_size.  clearnode() leaves every field zero.              *)
NoTree == [base |-> 0, size |-> 0, half |-> FALSE, cnt |-> 0]

(* The node tree_lookup(tree, k, m, base) works with: the stored one, or, *)
(* when tree->table_size is 0, the one it initialises from m and base:    *)
(* array_size 2^n with n = (m + 1) / 2, HALFHAT when n > m / 2.            *)
NodeAtHalfGe(t, id, m, base) ==
  IF id \in DOMAIN t /\ t[id].cnt > 0 THEN t[id]
  ELSE [base |-> base, size |-> 2^((m + 1) \div 2),
        half |-> (m + 1) \div 2 >= m \div 2, cnt |-> 0]

NodeAt(t, id, m, base) ==
  IF id \in DOMAIN t /\ t[id].cnt > 0 THEN t[id]
  ELSE [base |-> base, size |-> 2^((m + 1) \div 2),
        half |-> (m + 1) \div 2 > m \div 2, cnt |-> 0]

(* tree_lookup(tree, k, m, base), one level per element of the result.    *)
(* A node id is its path: <<h1>> for symbol->nodes[h1], then the child    *)
(* indices.  t is the current function from ids to stored nodes.  Each    *)
(* step records the node's array_base and array_size, the child index i   *)
(* computed from them, and the base passed down (base + size * i, from    *)
(* the argument base).  The node recurses into a HAT child while          *)
(* n > NHAT, else its child is a leaf of the node's own size.             *)
RECURSIVE Steps(_, _, _, _, _), StepFrom(_, _, _, _, _, _),
          StepWith(_, _, _, _, _, _)
Steps(t, id, k, m, base) ==
  StepFrom(t, id, k, (m + 1) \div 2, base, NodeAt(t, id, m, base))

StepFrom(t, id, k, n, base, node) ==
  StepWith(t, id, k, n, node,
           [id |-> id, base |-> node.base, size |-> node.size,
            half |-> node.half, i |-> (k - node.base) \div node.size,
            cbase |-> base + node.size * ((k - node.base) \div node.size)])

StepWith(t, id, k, n, node, step) ==
  IF n > NHAT THEN <<step>> \o Steps(t, id \o <<step.i>>, k, n, step.cbase)
              ELSE <<step>>

(* cint_lookup's call of tree_lookup on symbol->nodes[h1], m = h1 - 1.    *)
PathFromLe(t, k, h1) ==
  IF h1 - 1 <= NHAT THEN Steps(t, <<h1>>, k, NHAT, 0)
                    ELSE Steps(t, <<h1>>, k, h1 - 1, 2^(h1 - 1))

PathFrom(t, k, h1) ==
  IF h1 - 1 < NHAT THEN Steps(t, <<h1>>, k, NHAT, 0)
                   ELSE Steps(t, <<h1>>, k, h1 - 1, 2^(h1 - 1))

LookupPath(t, k) == PathFrom(t, k, CintHash(k))

(* The leaf_lookup call at the end of the path: the leaf's id, size and   *)
(* base.                                                                   *)
LeafOf(last) == [id |-> last.id \o <<last.i>>, size |-> last.size,
                 base |-> last.cbase]

LeafStep(t, k) == LeafOf(Last(LookupPath(t, k)))

(* Entries of a HAT node's table that are allocated: half of array_size   *)
(* for a HALFHAT.                                                          *)
ActualSize(node) == IF node.half THEN node.size \div 2 ELSE node.size

=============================================================================
