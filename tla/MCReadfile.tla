---------------------------- MODULE MCReadfile ----------------------------
EXTENDS Readfile

(* int of 4 bits (INT_MAX 7), size_t of 6 bits ((size_t)-1/2 = 31): the    *)
(* empty file, a short one, INT_MAX, INT_MAX + 1 (EFBIG for the parser,    *)
(* read by readfile()) and 2^IntBits - 1, whose (int) is EOF.             *)
MCLens == {0, 3, 7, 8, 15}

=============================================================================
