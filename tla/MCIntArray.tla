----------------------------- MODULE MCIntArray -----------------------------
(***************************************************************************)
(* Small constants for IntArray.  The size schedule is scaled down from   *)
(* 13, 127, ... 1073741827 to two sizes so that a handful of subscripts   *)
(* makes the table grow once and then reach ARRAYMAXED; the hash is the    *)
(* real int_hash at those sizes.                                           *)
(***************************************************************************)
EXTENDS IntArray

CONSTANT s1

MCIntKeys == {-5, -4, 0, 1, 2, 10}
MCOtherKeys == {s1}
MCSizes == <<2, 3>>
MCChainMax == 1

=============================================================================
