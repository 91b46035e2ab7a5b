---------------------------- MODULE SymbolTable ----------------------------
(***************************************************************************)
(* The symbol tables of symbol.c: global_table (FUNCTAB and SYMTAB),      *)
(* func_table, symbol_table and param_table, with install, lookup,        *)
(* install_params/remove_params (the dup_ent chains of same-named         *)
(* parameters), remove_symbol, the counters get_symbols sizes its lists   *)
(* by, load_symbols (PROCINFO["identifiers"]) and check_param_names.      *)
(*                                                                         *)
(* A name is <<ns, id>>: ns "awk" is the "awk::" prefix install and       *)
(* lookup strip, any other ns is kept.  A global symbol is a record of     *)
(* its vname and type; a parameter NODE of make_params is [f, i], the      *)
(* i-th parameter of the function named f.  dup_ent is a field of those   *)
(* NODEs, so it outlives the param_table entries that point at them.       *)
(***************************************************************************)
EXTENDS Naturals, Sequences, SequencesExt, FiniteSets

CONSTANTS
  Names,      \* names the parser and extensions install
  ParamsOf,   \* the parameter names of each function name that has any
  MaxVars     \* bound on var_count

NULL == [null |-> TRUE]
NoFunc == <<"", "">>

FuncTypes == {"Node_func", "Node_ext_func", "Node_builtin_func"}
VarTypes  == {"Node_var", "Node_var_array", "Node_var_new"}

(* The key install and lookup make of a name.                             *)
Key(n) == IF n[1] = "awk" THEN <<"", n[2]>> ELSE n

Params(fk) == IF fk \in DOMAIN ParamsOf THEN ParamsOf[fk] ELSE <<>>
ParamNodes == UNION {{[f |-> fk, i |-> i] : i \in 1 .. Len(ParamsOf[fk])} : fk \in DOMAIN ParamsOf}
PKey(p) == <<"", ParamsOf[p.f][p.i]>>

VARIABLES
  gtab, ftab, stab,  \* global_table, func_table, symbol_table: key -> symbol
  ptab,              \* param_table: key -> the parameter NODE stored
  dup,               \* dup_ent of every parameter NODE
  func_count, var_count,
  inparams,          \* the function whose parameters are installed
  posix,             \* do_posix || do_traditional
  identifiers,       \* PROCINFO["identifiers"]
  loaded             \* no table changed since load_symbols

vars == <<gtab, ftab, stab, ptab, dup, func_count, var_count, inparams, posix,
          identifiers, loaded>>

Sym(n, t) == [vname |-> n, type |-> t]

(* init_symbol_table: FUNCTAB and SYMTAB installed with                    *)
(* installing_specials set, so into global_table and not counted.          *)
Init ==
  /\ gtab = <<"", "FUNCTAB">> :> Sym(<<"", "FUNCTAB">>, "Node_var_array")
            @@ <<"", "SYMTAB">> :> Sym(<<"", "SYMTAB">>, "Node_var_array")
  /\ ftab = <<>> /\ stab = <<>> /\ ptab = <<>>
  /\ dup = [p \in ParamNodes |-> NULL]
  /\ func_count = 0 /\ var_count = 0
  /\ inparams = NoFunc
  /\ posix \in BOOLEAN
  /\ identifiers = <<>>
  /\ loaded = FALSE

(* lookup(name): param_table, then global_table unless posix, then         *)
(* func_table, then symbol_table; the first that has the key.              *)
lookup(n) ==
  LET k == Key(n) IN
  CASE k \in DOMAIN ptab -> ptab[k]
    [] ~posix /\ k \in DOMAIN gtab -> gtab[k]
    [] k \in DOMAIN ftab -> ftab[k]
    [] k \in DOMAIN stab -> stab[k]
    [] OTHER -> NULL

(* Seeded-bug variant: Node_var_new not counted as a variable.             *)
CountsVarNoNew(t) == t \notin FuncTypes \cup {"Node_var_new"} \/ t = "Node_func"

(* install(name, NULL, type): the counters (var_count includes Node_func). *)
CountsVar(t) == t \notin {"Node_ext_func", "Node_builtin_func"}

(* Seeded-bug variant: builtins missing from install's func_table test.    *)
InFuncTableNoBuiltin(t) == t \in {"Node_func", "Node_ext_func"}

(* install's choice of func_table over symbol_table.                       *)
InFuncTable(t) == t \in FuncTypes

(* install_symbol(name, type), by a caller that found the name unknown to *)
(* lookup (the parser's and make_builtin's redefinition checks).           *)
InstallSymbol(n, t) ==
  /\ lookup(n) = NULL
  /\ var_count < MaxVars
  /\ IF InFuncTable(t)
     THEN ftab' = (Key(n) :> Sym(n, t)) @@ ftab /\ UNCHANGED stab
     ELSE stab' = (Key(n) :> Sym(n, t)) @@ stab /\ UNCHANGED ftab
  /\ func_count' = IF t = "Node_func" THEN func_count + 1 ELSE func_count
  /\ var_count' = IF CountsVar(t) THEN var_count + 1 ELSE var_count
  /\ loaded' = FALSE
  /\ UNCHANGED <<gtab, ptab, dup, inparams, posix, identifiers>>

(* install(pname, parm, Node_param_list) on st = [ptab, dup]: a name      *)
(* already present gets the NODE linked in after the stored one.           *)
InstallParam(st, p) ==
  LET k == PKey(p) IN
  IF k \in DOMAIN st.ptab
  THEN LET prev == st.ptab[k]
       IN  [st EXCEPT !.dup = [@ EXCEPT ![p] = st.dup[prev], ![prev] = p]]
  ELSE [st EXCEPT !.ptab = (k :> p) @@ @]

ParamSeq(fk) == [i \in 1 .. Len(Params(fk)) |-> [f |-> fk, i |-> i]]

(* install_params(func) for a Node_func, by the parser of its body (the   *)
(* callers never nest it).                                                 *)
InstallParams(fk) ==
  /\ inparams = NoFunc
  /\ fk \in DOMAIN ftab /\ ftab[fk].type = "Node_func"
  /\ LET st == FoldLeft(InstallParam, [ptab |-> ptab, dup |-> dup], ParamSeq(fk))
     IN  ptab' = st.ptab /\ dup' = st.dup
  /\ inparams' = fk
  /\ UNCHANGED <<gtab, ftab, stab, func_count, var_count, posix, identifiers, loaded>>

(* Seeded-bug variant: the unlink left to assoc_clear.                     *)
RemoveParamNoUnlink(st, p) ==
  [st EXCEPT !.ptab = [k \in DOMAIN @ \ {PKey(p)} |-> @[k]]]

(* One turn of remove_params' loop: a stored NODE with a dup_ent has its  *)
(* dup_ent unlinked, otherwise the key is removed.                         *)
RemoveParam(st, p) ==
  LET k == PKey(p)
      tmp2 == IF k \in DOMAIN st.ptab THEN st.ptab[k] ELSE NULL
  IN  IF tmp2 # NULL /\ st.dup[tmp2] # NULL
      THEN [st EXCEPT !.dup[tmp2] = st.dup[st.dup[tmp2]]]
      ELSE [st EXCEPT !.ptab = [kk \in DOMAIN @ \ {k} |-> @[kk]]]

(* remove_params(func): the loop from the last parameter down, then       *)
(* assoc_clear(param_table).                                               *)
RemoveParams ==
  /\ inparams # NoFunc
  /\ LET st == FoldLeft(RemoveParam, [ptab |-> ptab, dup |-> dup],
                        Reverse(ParamSeq(inparams)))
     IN  dup' = st.dup
  /\ ptab' = <<>>
  /\ inparams' = NoFunc
  /\ UNCHANGED <<gtab, ftab, stab, func_count, var_count, posix, identifiers, loaded>>

(* remove_symbol(r): only symbol_table is searched; the counters stay.    *)
RemoveSymbol(n) ==
  /\ Key(n) \in DOMAIN stab
  /\ stab' = [k \in DOMAIN stab \ {Key(n)} |-> stab[k]]
  /\ loaded' = FALSE
  /\ UNCHANGED <<gtab, ftab, ptab, dup, func_count, var_count, inparams, posix,
                 identifiers>>

Kind == "Node_ext_func" :> "extension" @@ "Node_func" :> "user" @@
        "Node_builtin_func" :> "builtin" @@ "Node_var" :> "scalar" @@
        "Node_var_array" :> "array" @@ "Node_var_new" :> "untyped"

(* Seeded-bug variant: untyped variables left out of the type test.        *)
ListedTypesNoNew == DOMAIN Kind \ {"Node_var_new"}
ListedTypes == DOMAIN Kind

(* load_symbols' pass over one table, entries of the listed types keyed   *)
(* by vname; later tables overwrite earlier ones.                           *)
LoadTable(ids, tbl) ==
  LET es == {tbl[k] : k \in {kk \in DOMAIN tbl : tbl[kk].type \in ListedTypes}}
  IN  [v \in {e.vname : e \in es} |-> Kind[(CHOOSE e \in es : e.vname = v).type]] @@ ids

(* load_symbols(): PROCINFO_node exists only without --posix and          *)
(* --traditional; run before the program, with no parameters installed.   *)
LoadSymbols ==
  /\ ~posix /\ inparams = NoFunc
  /\ identifiers' = FoldLeft(LoadTable, <<>>, <<ftab, stab, gtab>>)
  /\ loaded' = TRUE
  /\ UNCHANGED <<gtab, ftab, stab, ptab, dup, func_count, var_count, inparams, posix>>

Next ==
  \/ \E n \in Names, t \in FuncTypes \cup VarTypes : InstallSymbol(n, t)
  \/ \E fk \in DOMAIN ftab : InstallParams(fk)
  \/ RemoveParams
  \/ \E n \in Names : RemoveSymbol(n)
  \/ LoadSymbols

Spec == Init /\ [][Next]_vars

-----------------------------------------------------------------------------
(* get_symbols: the slots it writes (entries, then FUNCTAB and SYMTAB for *)
(* VARIABLE, then the final NULL) and the slots it emallocs.               *)
get_symbols(what) ==
  IF what = "FUNCTION"
  THEN [written |-> Cardinality({k \in DOMAIN ftab : ftab[k].type = "Node_func"}) + 1,
        size |-> func_count + 1]
  ELSE [written |-> Cardinality(DOMAIN stab) + 2 + 1,
        size |-> var_count + 1 + 1 + 1]

(* param_cnt of a func_table entry: fparms exist for Node_func only (an    *)
(* extension function is taken to have param_cnt 0, as clearnode left it). *)
FParams(f) == IF ftab[f].type = "Node_func" THEN Params(f) ELSE <<>>

ParamIndices(f) == 1 .. Len(FParams(f))

(* check_param_names(): FALSE when a parameter of a function in           *)
(* func_table (builtins and parameterless ones skipped) is a key of        *)
(* func_table.                                                              *)
check_param_names ==
  \A f \in DOMAIN ftab :
    ftab[f].type # "Node_builtin_func" =>
      \A j \in ParamIndices(f) : <<"", FParams(f)[j]>> \notin DOMAIN ftab

(* The parameters of a function named k, in declaration order.            *)
Declared(fk, k) == SelectSeq(ParamSeq(fk), LAMBDA p : PKey(p) = k)

(* The dup_ent chain install builds from them: the first declared stays    *)
(* in param_table and each later one is linked in right after it, so the   *)
(* rest follow newest first.                                                *)
ChainOrder(ds) == IF ds = <<>> THEN <<>> ELSE <<Head(ds)>> \o Reverse(Tail(ds))

RECURSIVE ChainFrom(_, _)
ChainFrom(p, fuel) ==
  IF p = NULL \/ fuel = 0 THEN <<>> ELSE <<p>> \o ChainFrom(dup[p], fuel - 1)

TypeOK ==
  /\ \A k \in DOMAIN gtab : gtab[k].type = "Node_var_array"
  /\ \A k \in DOMAIN ftab : ftab[k].type \in FuncTypes
  /\ \A k \in DOMAIN stab : stab[k].type \in VarTypes
  /\ \A tb \in {gtab, ftab, stab} : \A k \in DOMAIN tb : Key(tb[k].vname) = k
  /\ dup \in [ParamNodes -> ParamNodes \cup {NULL}]
  /\ \A k \in DOMAIN ptab : ptab[k] \in ParamNodes
  /\ func_count \in Nat /\ var_count \in 0 .. MaxVars
  /\ inparams \in DOMAIN ftab \cup {NoFunc}

(* get_symbols never writes past the list it allocates: var_count and      *)
(* func_count, bumped by install and never lowered, bound the variables    *)
(* of symbol_table and the user functions of func_table, whatever mix of   *)
(* installs, removals and types came before.                                *)
ListsFit ==
  \A what \in {"FUNCTION", "VARIABLE"} :
    get_symbols(what).written <= get_symbols(what).size

(* While a function's parameters are installed, the dup_ent chain from     *)
(* each param_table entry is finite and holds exactly that function's      *)
(* parameters of the name: the first declared stored in the table (so      *)
(* lookup finds it), then the later ones newest first, the order in which  *)
(* remove_params, walking from the last parameter down, unlinks them from  *)
(* behind the head.  This holds also when the same function's parameters   *)
(* are installed again, over the dup_ent values left in its NODEs.         *)
ParamChainsExact ==
  /\ inparams = NoFunc => ptab = <<>>
  /\ inparams # NoFunc =>
       /\ DOMAIN ptab = {PKey(p) : p \in ToSet(ParamSeq(inparams))}
       /\ \A k \in DOMAIN ptab :
            ChainFrom(ptab[k], Cardinality(ParamNodes) + 1) = ChainOrder(Declared(inparams, k))

(* PROCINFO["identifiers"], while no table has changed since load_symbols, *)
(* names every function and variable and gives the kind of the symbol      *)
(* lookup finds for that name outside function bodies.                     *)
IdentifiersExact ==
  loaded /\ inparams = NoFunc =>
    /\ DOMAIN identifiers = UNION {{tb[k].vname : k \in DOMAIN tb} : tb \in {gtab, ftab, stab}}
    /\ \A v \in DOMAIN identifiers : identifiers[v] = Kind[lookup(v).type]

=============================================================================
