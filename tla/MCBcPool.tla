------------------------------ MODULE MCBcPool ------------------------------
(***************************************************************************)
(* BcPool with sizes 1 and 2 and blocks of 3 instructions: 3 is not a     *)
(* multiple of 2, so the size-2 pool leaves a slot unused at the end of   *)
(* each block (the waste INSTR_CHUNK's comment mentions), while the       *)
(* size-1 pool fills its blocks exactly.  Two blocks per size make the    *)
(* walk cover a full older block and a partial newest one.  The values   *)
(* are set in MCBcPool.cfg.                                                *)
(***************************************************************************)
EXTENDS BcPool

=============================================================================
