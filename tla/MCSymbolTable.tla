--------------------------- MODULE MCSymbolTable ---------------------------
EXTENDS SymbolTable

(* "a" and its "awk::a" spelling, two function names, a scalar name, and   *)
(* SYMTAB, a user variable name only under --posix.                        *)
MCNames == {<<"", "a">>, <<"awk", "a">>, <<"", "f">>, <<"", "g">>,
            <<"", "SYMTAB">>}

(* f(a, a, a): three parameters of one name, so that install links one in *)
(* ahead of another; g(f): a parameter named like a function.             *)
MCParamsOf == <<"", "f">> :> <<"a", "a", "a">> @@ <<"", "g">> :> <<"f">>

=============================================================================
