------------------------------ MODULE MCContext -----------------------------
(***************************************************************************)
(* Context with the main context and two more, so that contexts nest two *)
(* deep above main and a freed context is reused; one scanned line and   *)
(* one source file distinguish a restored sourceline/source from a reset  *)
(* one; one-instruction pools with two slots per block.                   *)
(***************************************************************************)
EXTENDS Context, TLC

CONSTANTS main, e1, e2, f, null, x

MCCtx == {main, e1, e2}
MCLines == {7}
MCSrcs == {f}
MCSymNames == {x}
None == {}

(* e1 and e2 are interchangeable. *)
Perms == Permutations({e1, e2})

=============================================================================
