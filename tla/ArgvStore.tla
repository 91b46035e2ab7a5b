------------------------------ MODULE ArgvStore ------------------------------
(***************************************************************************)
(* argv_store of cint_array.c: in sandbox mode, the store function of the *)
(* ARGV array.  A value a program stores into ARGV is let through when it *)
(* is empty, when it is an element of the shadow copy of the command-line *)
(* ARGV, or when its text before the first '=' is a variable name;        *)
(* anything else is fatal ("cannot add a new file ... in sandbox mode").  *)
(*                                                                         *)
(* The value is newval->stptr[0 .. stlen-1], a sequence of one-character  *)
(* strings; inShadow is in_array(argv_shadow_array, newval).              *)
(***************************************************************************)
EXTENDS Integers, SequencesExt

CONSTANTS
  IdentLetters, \* characters is_letter accepts (alphabetic and '_')
  IdentDigits  \* characters is_identchar accepts besides IdentLetters

is_letter(c)    == c \in IdentLetters
is_identchar(c) == c \in IdentLetters \cup IdentDigits

(* strchr(s, c), as an index of s from position from on, 0 when absent.  *)
StrChr(s, from, c) == SelectInSubSeq(s, from, Len(s), LAMBDA x : x = c)

(* Seeded-bug variant: the check for a ':' after the "::" dropped.        *)
BadVarNoSecondColon(arg) ==
  \/ arg = <<>> \/ ~is_letter(arg[1])
  \/ \E i \in 2 .. Len(arg) : ~is_identchar(arg[i]) /\ arg[i] # ":"
  \/ LET cp1 == StrChr(arg, 1, ":") IN
       cp1 # 0 /\ (cp1 = Len(arg) \/ arg[cp1 + 1] # ":")

(* The name test run on arg, the text before the first '=' (cut there by *)
(* *cp = '\0'): a letter, then identifier characters or ':', and, when   *)
(* there is a ':', the first one begins "::" and no ':' follows it.      *)
BadVar(arg) ==
  \/ arg = <<>> \/ ~is_letter(arg[1])
  \/ \E i \in 2 .. Len(arg) : ~is_identchar(arg[i]) /\ arg[i] # ":"
  \/ LET cp1 == StrChr(arg, 1, ":") IN
       cp1 # 0 /\ (cp1 = Len(arg) \/ arg[cp1 + 1] # ":" \/ StrChr(arg, cp1 + 2, ":") # 0)

(* argv_store: TRUE when the value is kept, FALSE when gawk dies with a   *)
(* fatal error.                                                            *)
argv_store(newval, inShadow) ==
  LET cp == StrChr(newval, 1, "=") IN
  \/ newval = <<>>
  \/ cp = 0 /\ inShadow
  \/ cp # 0 /\ (~BadVar(SubSeq(newval, 1, cp - 1)) \/ inShadow)

=============================================================================
