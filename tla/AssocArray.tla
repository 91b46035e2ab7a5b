----------------------------- MODULE AssocArray -----------------------------
(***************************************************************************)
(* What every gawk array implementation promises its caller (the          *)
(* array_funcs_t contract of awk.h): a set of subscripts, the element      *)
(* count that length(a) reports (symbol->table_size), and the answer of    *)
(* the last operation.                                                     *)
(*                                                                         *)
(*   lookup  (alookup)  returns the slot of s, installing "" if absent;    *)
(*   exists  (aexists)  returns the slot of s or NULL, never allocates;    *)
(*   remove  (aremove)  returns success iff s was there;                  *)
(*   clear   (aclear)   empties the array.                                 *)
(*                                                                         *)
(* The cint (HAT) and int (hash) backends are shown to implement this      *)
(* specification through a refinement mapping.  Values are not modelled:   *)
(* every backend stores a pointer it never inspects.                       *)
(***************************************************************************)
EXTENDS Naturals, FiniteSets

CONSTANT Subs            \* the subscripts a model may use

VARIABLES
  contents,              \* the subscripts present
  count,                 \* what length(a) reports
  ret                    \* the answer of the last operation

vars == <<contents, count, ret>>

Answers == {"none", "found", "installed", "absent", "removed"}

TypeOK ==
  /\ contents \subseteq Subs
  /\ count \in Nat
  /\ ret \in Answers

Init ==
  /\ contents = {}
  /\ count = 0
  /\ ret = "none"

Lookup(s) ==
  /\ ret' = IF s \in contents THEN "found" ELSE "installed"
  /\ contents' = contents \cup {s}
  /\ count' = IF s \in contents THEN count ELSE count + 1

Exists(s) ==
  /\ ret' = IF s \in contents THEN "found" ELSE "absent"
  /\ UNCHANGED <<contents, count>>

Remove(s) ==
  IF s \in contents
  THEN /\ contents' = contents \ {s}
       /\ count' = count - 1
       /\ ret' = "removed"
  ELSE /\ ret' = "absent"
       /\ UNCHANGED <<contents, count>>

Clear ==
  /\ contents' = {}
  /\ count' = 0
  /\ ret' = "none"

Next ==
  \/ \E s \in Subs : Lookup(s) \/ Exists(s) \/ Remove(s)
  \/ Clear

Spec == Init /\ [][Next]_vars

(* The count an implementation reports is the number of subscripts it     *)
(* holds.                                                                  *)
CountIsSize == count = Cardinality(contents)

=============================================================================
