------------------------------ MODULE CintArray ------------------------------
(***************************************************************************)
(* One gawk array variable whose implementation is cint_array.c: the      *)
(* array of (mostly) consecutive non-negative integer subscripts.         *)
(*                                                                         *)
(* Subscripts that pass ISUINT live in Hashed Array Trees hanging off     *)
(* symbol->nodes[NHAT .. 31]; every other subscript, and any integer that *)
(* would waste more than THRESHOLD slots, goes to symbol->xarray, an      *)
(* ordinary int or str array.  When the last HAT element is removed the   *)
(* xarray is promoted into the variable; when the variable becomes empty  *)
(* it is reset to the null array, which picks an implementation again on  *)
(* its next lookup (array.c, modelled from the spec).                     *)
(*                                                                         *)
(* The xarray and a promoted or non-cint array are modelled only by the   *)
(* subscripts they hold: their own code is not part of this component.    *)
(***************************************************************************)
EXTENDS HatGeometry, FiniteSets, SequencesExt

CONSTANTS
  UintKeys,              \* subscripts for which ISUINT holds: integers in [0, 2^31)
  OtherKeys              \* every other subscript: strings, negatives, non-integers

Subs == UintKeys \cup OtherKeys

VARIABLES
  impl,        \* "null": null_array_func; "cint": cint_array_func;
               \* "assoc": the int or str array that replaced it
  nodesAlloc,  \* symbol->nodes != NULL
  tree,        \* HAT node id -> its NODE (NoTree once freed)
  leaf,        \* leaf id -> its NODE; slots = offsets whose value is non-NULL
  cap,         \* symbol->array_capacity
  tsize,       \* symbol->table_size, xarray elements included
  xexists,     \* symbol->xarray != NULL
  xkeys,       \* subscripts of the xarray, or of the array that replaced cint
  ret          \* what the last operation returned to its caller

vars == <<impl, nodesAlloc, tree, leaf, cap, tsize, xexists, xkeys, ret>>

NoLeaf == [base |-> 0, size |-> 0, cnt |-> 0, slots |-> {}]

(* Every HAT node and leaf any subscript of the model can reach.           *)
TreeIds == UNION { {LookupPath(<<>>, k)[j].id : j \in DOMAIN LookupPath(<<>>, k)}
                   : k \in UintKeys }
LeafIds == { LeafStep(<<>>, k).id : k \in UintKeys }

EmptyHat ==
  /\ nodesAlloc' = FALSE
  /\ tree' = [t \in TreeIds |-> NoTree]
  /\ leaf' = [l \in LeafIds |-> NoLeaf]
  /\ cap' = 0
  /\ tsize' = 0

Init ==
  /\ impl = "null"
  /\ nodesAlloc = FALSE
  /\ tree = [t \in TreeIds |-> NoTree]
  /\ leaf = [l \in LeafIds |-> NoLeaf]
  /\ cap = 0
  /\ tsize = 0
  /\ xexists = FALSE
  /\ xkeys = {}
  /\ ret = "none"

-----------------------------------------------------------------------------
(* Searching the HATs                                                      *)

(* tree_exists: the ids walked from HAT id towards subscript k using each  *)
(* node's stored array_base and array_size, ending with the child that is  *)
(* a leaf or missing.                                                      *)
RECURSIVE Descend(_, _), DescendTo(_, _, _)
Descend(id, k) ==
  DescendTo(id, k, id \o <<(k - tree[id].base) \div tree[id].size>>)

DescendTo(id, k, c) ==
  IF c \in TreeIds /\ tree[c].cnt > 0 THEN <<id>> \o Descend(c, k)
                                       ELSE <<id, c>>

(* leaf_exists on leaf l.                                                  *)
LeafHas(l, k) ==
  /\ l \in LeafIds
  /\ leaf[l].cnt > 0
  /\ k - leaf[l].base \in leaf[l].slots

(* cint_find: symbol->nodes and nodes[h1] exist, and leaf_exists finds a   *)
(* value at offset k - array_base of the leaf the descent ends in.         *)
CintFind(k) ==
  LET top == <<CintHash(k)>>
  IN  /\ nodesAlloc
      /\ tree[top].cnt > 0
      /\ LeafHas(Last(Descend(top, k)), k)

(* The subscripts stored in the HATs, as leaf_list reports them:          *)
(* array_base + slot.                                                      *)
HatKeys == UNION { {leaf[l].base + o : o \in leaf[l].slots} : l \in LeafIds }

-----------------------------------------------------------------------------
(* Installing                                                              *)

(* cint_size of cint_lookup: the elements that are not in the xarray.     *)
CintSize == IF xexists THEN tsize - Cardinality(xkeys) ELSE tsize

(* The waste test of cint_lookup: the estimated capacity after a new leaf *)
(* array minus the integer elements exceeds THRESHOLD.                    *)
WouldWaste(k) ==
  (cap + 2^EstLeafExp(CintHash(k) - 1)) - CintSize > THRESHOLD

(* cint_lookup from "It's not there, install it" on, for an ISUINT k that *)
(* passes the waste test: allocate symbol->nodes if needed, count one     *)
(* more element, then tree_lookup initialises every empty HAT node on the *)
(* path and counts the element in it, and leaf_lookup allocates the leaf  *)
(* (adding its size to array_capacity) and stores "" at k - base.         *)
HatInstallAt(k, S, L) ==
  LET \* the node of depth j is S[j], and its id has length j
      counted == [id \in {S[j].id : j \in DOMAIN S} |->
                    [base |-> S[Len(id)].base, size |-> S[Len(id)].size,
                     half |-> S[Len(id)].half, cnt |-> tree[id].cnt + 1]]
      newLeaf == leaf[L.id].cnt = 0
      off     == k - L.base
  IN  /\ nodesAlloc' = TRUE
      /\ tsize' = tsize + 1
      /\ tree' = counted @@ tree
      /\ leaf' = [leaf EXCEPT ![L.id] =
                    [base  |-> IF newLeaf THEN L.base ELSE @.base,
                     size  |-> IF newLeaf THEN L.size ELSE @.size,
                     cnt   |-> IF off \in @.slots THEN @.cnt ELSE @.cnt + 1,
                     slots |-> @.slots \cup {off}]]
      /\ cap' = (IF nodesAlloc THEN cap ELSE 0) + (IF newLeaf THEN L.size ELSE 0)
      /\ UNCHANGED <<xexists, xkeys>>

HatInstall(k) == HatInstallAt(k, LookupPath(tree, k), LeafStep(tree, k))

(* cint_lookup's xinstall: count the element, create the xarray if there  *)
(* is none, and install the subscript there.                              *)
XInstall(s) ==
  /\ tsize' = tsize + 1
  /\ xexists' = TRUE
  /\ xkeys' = xkeys \cup {s}
  /\ UNCHANGED <<nodesAlloc, tree, leaf, cap>>

(* Seeded-bug variant: cint_lookup without the xarray aexists check.      *)
CintLookupNoX(s) ==
  LET uint == s \in UintKeys
  IN  IF uint /\ CintFind(s)
      THEN /\ ret' = "found"
           /\ UNCHANGED <<nodesAlloc, tree, leaf, cap, tsize, xexists, xkeys>>
      ELSE /\ ret' = "installed"
           /\ IF uint /\ ~WouldWaste(s) THEN HatInstall(s) ELSE XInstall(s)

(* cint_lookup: return the slot found in a HAT or in the xarray, else     *)
(* install the subscript in a HAT or, if it is not ISUINT or would waste  *)
(* too much, in the xarray.                                               *)
CintLookup(s) ==
  LET uint == s \in UintKeys
  IN  IF (uint /\ CintFind(s)) \/ (xexists /\ s \in xkeys)
      THEN /\ ret' = "found"
           /\ UNCHANGED <<nodesAlloc, tree, leaf, cap, tsize, xexists, xkeys>>
      ELSE /\ ret' = "installed"
           /\ IF uint /\ ~WouldWaste(s) THEN HatInstall(s) ELSE XInstall(s)

(* cint_exists: a HAT first for an ISUINT subscript, then the xarray.     *)
CintExists(s) ==
  /\ ret' = IF (s \in UintKeys /\ CintFind(s)) \/ (xexists /\ s \in xkeys)
            THEN "found" ELSE "absent"
  /\ UNCHANGED <<nodesAlloc, tree, leaf, cap, tsize, xexists, xkeys>>

-----------------------------------------------------------------------------
(* Removing and clearing                                                   *)

(* ainit(symbol, NULL) after the last element has gone, or after          *)
(* cint_clear: the variable becomes the null array again.                 *)
ResetToNull ==
  /\ impl' = "null"
  /\ EmptyHat
  /\ xexists' = FALSE
  /\ xkeys' = {}

(* cint_remove's promotion: *symbol = *xn, the xarray becomes the         *)
(* variable and symbol->nodes is freed.                                    *)
Promote ==
  /\ impl' = "assoc"
  /\ EmptyHat
  /\ xexists' = FALSE
  /\ UNCHANGED xkeys

(* Seeded-bug variants: leaf_remove giving back array_size on every      *)
(* removal; tree_remove leaving table_size of the nodes unchanged; the    *)
(* promotion test made on table_size before its decrement.                *)
LeafRemoveCapAlways(l, k) ==
  /\ leaf' = [leaf EXCEPT ![l] =
                IF @.cnt = 1 THEN NoLeaf
                ELSE [@ EXCEPT !.cnt = @ - 1, !.slots = @ \ {k - leaf[l].base}]]
  /\ cap' = cap - leaf[l].size
TreeUnwindNone(trees) == tree' = tree
PromoteDueBefore(t1) == xexists /\ tsize = Cardinality(xkeys)

(* leaf_remove: clear the slot; when the leaf empties free it and give    *)
(* its array_size back to array_capacity.                                  *)
LeafRemove(l, k) ==
  /\ leaf' = [leaf EXCEPT ![l] =
                IF @.cnt = 1 THEN NoLeaf
                ELSE [@ EXCEPT !.cnt = @ - 1, !.slots = @ \ {k - leaf[l].base}]]
  /\ cap' = cap - (IF leaf[l].cnt = 1 THEN leaf[l].size ELSE 0)

(* The unwinding of tree_remove: every HAT node on the path counts one    *)
(* element less and is cleared (clearnode) when it reaches zero.          *)
TreeUnwind(trees) ==
  tree' = [id \in TreeIds |->
             IF id \notin trees THEN tree[id]
             ELSE IF tree[id].cnt = 1 THEN NoTree
             ELSE [tree[id] EXCEPT !.cnt = @ - 1]]

(* cint_remove's promotion test, on the decremented table_size t1.        *)
PromoteDue(t1) == xexists /\ t1 = Cardinality(xkeys)

(* cint_remove for a subscript that tree_remove finds along path P: the   *)
(* leaf and the nodes give the element up, the table size drops, and the  *)
(* variable is reset when nothing is left, or replaced by the xarray when *)
(* only its elements are left (both free every HAT).                      *)
HatRemoveAt(k, P) ==
  LET t1 == tsize - 1
  IN  /\ ret' = "removed"
      /\ CASE ~xexists /\ t1 = 0 -> ResetToNull
           [] PromoteDue(t1)       -> Promote
           [] OTHER ->
                /\ LeafRemove(Last(P), k)
                /\ TreeUnwind({P[j] : j \in 1 .. Len(P) - 1})
                /\ tsize' = t1
                /\ UNCHANGED <<impl, nodesAlloc, xexists, xkeys>>

HatRemove(k) == HatRemoveAt(k, Descend(<<CintHash(k)>>, k))

(* cint_remove's xremove: remove from the xarray, free it when it empties *)
(* and count one element less.                                             *)
XRemove(s) ==
  IF xexists /\ s \in xkeys
  THEN /\ xkeys' = xkeys \ {s}
       /\ xexists' = (xkeys' # {})
       /\ tsize' = tsize - 1
       /\ ret' = "removed"
       /\ UNCHANGED <<impl, nodesAlloc, tree, leaf, cap>>
  ELSE /\ ret' = "absent"
       /\ UNCHANGED <<impl, nodesAlloc, tree, leaf, cap, tsize, xexists, xkeys>>

(* cint_remove: nothing to do in an empty array; an ISUINT subscript the  *)
(* HATs hold is removed there, any other is tried in the xarray.          *)
CintRemove(s) ==
  IF tsize = 0
  THEN /\ ret' = "absent"
       /\ UNCHANGED <<impl, nodesAlloc, tree, leaf, cap, tsize, xexists, xkeys>>
  ELSE IF s \in UintKeys /\ CintFind(s) THEN HatRemove(s) ELSE XRemove(s)

(* cint_clear: clear and free the xarray and every HAT, free               *)
(* symbol->nodes and re-initialise the variable.                           *)
CintClear ==
  /\ ResetToNull
  /\ ret' = "none"

-----------------------------------------------------------------------------
(* The other states of the variable (array.c, str_array.c, int_array.c),  *)
(* modelled from the spec by the subscripts they hold.                     *)

(* null_lookup: the first subscript chooses the implementation; cint is   *)
(* chosen when it is ISUINT.                                               *)
NullLookup(s) ==
  IF s \in UintKeys
  THEN /\ impl' = "cint"
       /\ CintLookup(s)
  ELSE /\ impl' = "assoc"
       /\ xkeys' = {s}
       /\ ret' = "installed"
       /\ UNCHANGED <<nodesAlloc, tree, leaf, cap, tsize, xexists>>

(* Any query of the null array, or of a subscript the int or str array    *)
(* does not hold, answers "absent".                                        *)
Absent ==
  /\ ret' = "absent"
  /\ UNCHANGED <<impl, nodesAlloc, tree, leaf, cap, tsize, xexists, xkeys>>

AssocLookup(s) ==
  /\ ret' = IF s \in xkeys THEN "found" ELSE "installed"
  /\ xkeys' = xkeys \cup {s}
  /\ UNCHANGED <<impl, nodesAlloc, tree, leaf, cap, tsize, xexists>>

AssocExists(s) ==
  IF s \in xkeys
  THEN /\ ret' = "found"
       /\ UNCHANGED <<impl, nodesAlloc, tree, leaf, cap, tsize, xexists, xkeys>>
  ELSE Absent

(* str_remove / int_remove: the array re-initialises itself to the null   *)
(* array when its last element goes.                                       *)
AssocRemove(s) ==
  IF s \in xkeys
  THEN /\ xkeys' = xkeys \ {s}
       /\ impl' = IF xkeys' = {} THEN "null" ELSE "assoc"
       /\ ret' = "removed"
       /\ UNCHANGED <<nodesAlloc, tree, leaf, cap, tsize, xexists>>
  ELSE Absent

(* Clearing any array that is not cint.                                    *)
OtherClear ==
  /\ impl' = "null"
  /\ xkeys' = {}
  /\ ret' = "none"
  /\ UNCHANGED <<nodesAlloc, tree, leaf, cap, tsize, xexists>>

-----------------------------------------------------------------------------
(* Listing (cint_list, tree_list, leaf_list): what the array hands the    *)
(* caller of alist.  The caller's assoc_kind is a record: AVALUE (value), *)
(* ADELETE (del), AINUM (inum) and AASC/ADESC (dir); AINDEX is always set. *)
(* An index entry is [i |-> subscript], a value entry [v |-> subscript].  *)

Uninit == [uninit |-> TRUE]    \* a list slot nothing was written to

(* leaf_list: the slots of the leaf in ascending or descending order of   *)
(* offset, index array_base + offset, then the value when asked; with     *)
(* ADELETE it returns after the first element.                            *)
LeafList(l, t) ==
  LET sz == leaf[l].size
      order == [j \in 1 .. sz |-> IF t.dir = "desc" THEN sz - j ELSE j - 1]
      present == SelectSeq(order, LAMBDA ci : ci \in leaf[l].slots)
      one(ci) == IF t.value THEN <<[i |-> leaf[l].base + ci], [v |-> leaf[l].base + ci]>>
                 ELSE <<[i |-> leaf[l].base + ci]>>
  IN  IF t.del /\ present # <<>> THEN one(present[1])
      ELSE FoldLeft(LAMBDA acc, ci : acc \o one(ci), <<>>, present)

(* tree_list: the children of a HAT node, the allocated half of a         *)
(* HALFHAT's table only, in ascending or descending order, each listed by *)
(* tree_list or leaf_list; with ADELETE it returns once it has an entry.  *)
RECURSIVE TreeList(_, _)
TreeList(id, t) ==
  LET hs == ActualSize(tree[id])
      order == [j \in 1 .. hs |-> IF t.dir = "desc" THEN hs - j ELSE j - 1]
      sub(c) == IF c \in DOMAIN tree /\ tree[c].cnt > 0 THEN TreeList(c, t)
                ELSE IF c \in DOMAIN leaf /\ leaf[c].cnt > 0 THEN LeafList(c, t)
                ELSE <<>>
  IN  FoldLeft(LAMBDA acc, j : IF t.del /\ acc # <<>> THEN acc ELSE acc \o sub(id \o <<j>>),
               <<>>, order)

(* xn->alist(xn, t) of the int or str xarray: its subscripts in an order  *)
(* of its own, one only with ADELETE.                                      *)
XList(t) ==
  LET ks == SetToSeq(xkeys)
      one(s) == IF t.value THEN <<[i |-> s], [v |-> s]>> ELSE <<[i |-> s]>>
  IN  IF t.del THEN one(ks[1]) ELSE FoldLeft(LAMBDA acc, s : acc \o one(s), <<>>, ks)

(* Seeded-bug variant: the HAT entries written from the start of the list *)
(* after the xarray's.                                                     *)
XPartLenZero(es) == 0

(* k = elem_size * xn->table_size: where the HAT entries start.           *)
XPartLen(es) == es * Cardinality(xkeys)

(* cint_list(symbol, t): the list it returns (its list_size slots), the   *)
(* sort order it leaves in t->flags, and whether a write went past        *)
(* list_size.  With an xarray the list starts as the xarray's, reallocated *)
(* to list_size, and the order is cleared (the caller sorts); it is also  *)
(* cleared without AINUM.  The top-level HATs are walked from NHAT up, or *)
(* from INT32_BIT - 1 down for ADESC, skipping empty ones, until          *)
(* list_size entries are written.                                          *)
CintList(t) ==
  LET num == IF t.del /\ ~t.value THEN 1 ELSE tsize
      es  == IF t.value THEN 2 ELSE 1
      ls  == num * es
      xl  == XList(t)
      t1  == IF xexists \/ ~t.inum THEN [t EXCEPT !.dir = "none"] ELSE t
      walk == [j \in 1 .. INT32_BIT - NHAT |->
                 IF t1.dir = "desc" THEN INT32_BIT - j ELSE NHAT + j - 1]
      hats == SelectSeq(walk, LAMBDA j : <<j>> \in DOMAIN tree /\ tree[<<j>>].cnt > 0)
      start == IF xexists
               THEN [k |-> XPartLen(es), over |-> FALSE,
                     buf |-> [p \in 1 .. ls |-> IF p <= Len(xl) THEN xl[p] ELSE Uninit]]
               ELSE [k |-> 0, over |-> FALSE, buf |-> [p \in 1 .. ls |-> Uninit]]
      write(acc, j) ==
        IF acc.k >= ls THEN acc
        ELSE LET e == TreeList(<<j>>, t1)
             IN  [k |-> acc.k + Len(e), over |-> acc.over \/ acc.k + Len(e) > ls,
                  buf |-> [p \in 1 .. ls |-> IF p - acc.k \in 1 .. Len(e)
                                             THEN e[p - acc.k] ELSE acc.buf[p]]]
  IN  IF tsize = 0 THEN [list |-> <<>>, dir |-> t.dir, over |-> FALSE]
      ELSE IF xexists /\ (num = 1 \/ num = Cardinality(xkeys))
      THEN [list |-> xl, dir |-> "none", over |-> FALSE]
      ELSE LET r == FoldLeft(write, start, hats)
           IN  [list |-> r.buf, dir |-> t1.dir, over |-> r.over]

-----------------------------------------------------------------------------
Next ==
  \/ \E s \in Subs :
       \/ impl = "null"  /\ (NullLookup(s) \/ Absent)
       \/ impl = "cint"  /\ UNCHANGED impl /\ (CintLookup(s) \/ CintExists(s))
       \/ impl = "cint"  /\ CintRemove(s)
       \/ impl = "assoc" /\ (AssocLookup(s) \/ AssocExists(s) \/ AssocRemove(s))
  \/ impl = "cint" /\ CintClear
  \/ impl # "cint" /\ OtherClear

Spec == Init /\ [][Next]_vars

-----------------------------------------------------------------------------
(* What the variable holds and reports, seen through the array_funcs_t    *)
(* contract: for cint the HAT subscripts plus the xarray's, with          *)
(* symbol->table_size as its length.                                       *)
Contents ==
  CASE impl = "cint"  -> HatKeys \cup xkeys
    [] impl = "assoc" -> xkeys
    [] OTHER          -> {}

Count ==
  CASE impl = "cint"  -> tsize
    [] impl = "assoc" -> Cardinality(xkeys)
    [] OTHER          -> 0

AA == INSTANCE AssocArray WITH contents <- Contents, count <- Count

(* cint_lookup, cint_exists, cint_remove and cint_clear, with the xarray, *)
(* promotion and reset, behave as one associative array: every lookup,    *)
(* existence test and removal answers as the set of subscripts says, and  *)
(* table_size is always the number of subscripts held.                     *)
Refinement == AA!Spec

TypeOK ==
  /\ impl \in {"null", "cint", "assoc"}
  /\ nodesAlloc \in BOOLEAN
  /\ tree \in [TreeIds -> [base : Nat, size : Nat, half : BOOLEAN, cnt : Nat]]
  /\ leaf \in [LeafIds -> [base : Nat, size : Nat, cnt : Nat, slots : SUBSET Nat]]
  /\ cap \in Nat
  /\ tsize \in Nat
  /\ xexists \in BOOLEAN
  /\ xkeys \subseteq Subs
  /\ ret \in AA!Answers

(* The asserts of cint_clear (symbol->nodes != NULL), cint_remove         *)
(* (nodes != NULL, and table_size != 0 after an xarray removal) and the   *)
(* comment of int_lookup ("xarray ... cannot exist if there are no        *)
(* integer elements") all rest on this: as long as the variable is a cint *)
(* array its HATs hold at least one element, and an xarray that exists is *)
(* not empty.  Promotion in cint_remove is what keeps it true.             *)
CintNeverEmpty ==
  impl = "cint" => /\ nodesAlloc
                   /\ HatKeys # {}
                   /\ xexists <=> xkeys # {}

(* The HAT bookkeeping: every NODE's table_size is the number of elements *)
(* beneath it, and array_capacity is the total size of the allocated      *)
(* leaf arrays, after any sequence of tree_lookup installs and            *)
(* tree_remove unwinds.                                                    *)
HatAccounting ==
  /\ cap = MapThenSumSet(LAMBDA l : leaf[l].size, LeafIds)
  /\ \A l \in LeafIds : leaf[l].cnt = Cardinality(leaf[l].slots)
  /\ \A t \in TreeIds :
       tree[t].cnt = MapThenSumSet(LAMBDA l : leaf[l].cnt,
                                   {l \in LeafIds : IsPrefix(t, l)})

(* No store goes outside an allocation: every child in use sits below the *)
(* allocated length of its HAT's table (half of it for a HALFHAT), every  *)
(* value below the size of its leaf array.                                 *)
SlotsInBounds ==
  /\ \A c \in {c \in TreeIds \cup LeafIds : Len(c) > 1} :
       LET p == Front(c)
       IN  (IF c \in TreeIds THEN tree[c].cnt ELSE leaf[c].cnt) > 0 =>
              /\ tree[p].cnt > 0
              /\ Last(c) < ActualSize(tree[p])
  /\ \A l \in LeafIds : leaf[l].slots \subseteq 0 .. leaf[l].size - 1

(* The spec's capacity-waste bound and the comment on THRESHOLD           *)
(* ("Maximum capacity waste"): the slots allocated but unused by integer  *)
(* elements never exceed THRESHOLD.                                       *)
WasteBound == cap - Cardinality(HatKeys) <= THRESHOLD

(* The kinds of listing gawk asks for: for (i in a), with values, sorted  *)
(* by index number or string either way, and the delete loop's            *)
(* AINDEX|ADELETE.                                                         *)
ListKinds ==
  [value : BOOLEAN, del : {FALSE}, inum : BOOLEAN, dir : {"none", "asc", "desc"}]
    \cup {[value |-> FALSE, del |-> TRUE, inum |-> FALSE, dir |-> "none"]}

(* cint_list fills exactly the list_size slots it allocates, with every   *)
(* element once (the one element of a delete loop), each value after its *)
(* index, the xarray's entries followed by the HATs'; and when it leaves   *)
(* AASC or ADESC set, so that the caller does not sort, the indices are   *)
(* really in that order across HATs, HALFHATs and leaves.                 *)
ListExact ==
  impl = "cint" => LET C == Contents IN \A t \in ListKinds :
    LET r  == CintList(t)
        es == IF t.value THEN 2 ELSE 1
        n  == Len(r.list) \div es
        ix == [p \in 1 .. n |-> r.list[(p - 1) * es + 1]]
    IN  /\ ~r.over
        /\ \A p \in DOMAIN r.list : r.list[p] # Uninit
        /\ Len(r.list) = n * es
        /\ \A p \in 1 .. n : "i" \in DOMAIN ix[p]
        /\ t.value => \A p \in 1 .. n : r.list[2 * p] = [v |-> ix[p].i]
        /\ IF t.del THEN n = 1 /\ ix[1].i \in C
           ELSE n = Cardinality(C) /\ {ix[p].i : p \in 1 .. n} = C
        /\ r.dir = "asc" => \A p \in 1 .. n - 1 : ix[p].i < ix[p + 1].i
        /\ r.dir = "desc" => \A p \in 1 .. n - 1 : ix[p].i > ix[p + 1].i

=============================================================================
