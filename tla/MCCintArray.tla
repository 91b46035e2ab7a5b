---------------------------- MODULE MCCintArray ----------------------------
(***************************************************************************)
(* CintArray for TLC.  NHAT = 2, the smallest value cint_array_init       *)
(* accepts, gives THRESHOLD = 8 and makes every kind of HAT appear among  *)
(* subscripts below 64:                                                    *)
(*   1, 3   bucket NHAT (0 .. 3): two leaves of 2 in one HAT;             *)
(*   9      bucket 4 (8 .. 15): a HALFHAT with leaves of 4;               *)
(*   16     bucket 5 (16 .. 31): a full HAT with leaves of 4;             *)
(*   40, 41 bucket 6 (32 .. 63): a HALFHAT of HALFHATs, both in one leaf. *)
(* Together they allocate 20 slots, more than THRESHOLD, so subscripts    *)
(* spill into the xarray and get promoted.  str is a subscript that is    *)
(* not ISUINT.                                                             *)
(***************************************************************************)
EXTENDS CintArray

CONSTANT str

MCUintKeys == {1, 3, 9, 16, 40, 41}
MCOtherKeys == {str}

=============================================================================
