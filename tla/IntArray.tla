------------------------------ MODULE IntArray ------------------------------
(***************************************************************************)
(* One gawk array variable whose implementation is int_array.c: a hash    *)
(* table of integer subscripts.  Bucket i of symbol->buckets is a chain   *)
(* of BUCKETs, each holding one or two subscripts (ainum[0..aicount-1]);   *)
(* new subscripts go into the head, a new head is pushed when it is full. *)
(* The table grows along a schedule of sizes once the integer elements    *)
(* per bucket exceed INT_CHAIN_MAX, and is marked ARRAYMAXED at the last. *)
(* Non-integer subscripts go to symbol->xarray (a str array), which is    *)
(* promoted into the variable when the last integer goes.                 *)
(*                                                                         *)
(* A chain is a sequence of nodes, head first; a node is the sequence of  *)
(* its subscripts.  Values are not modelled.                               *)
(***************************************************************************)
EXTENDS IntHash, FiniteSets, SequencesExt

CONSTANTS
  IntKeys,      \* subscripts for which is_integer holds (int32 range)
  OtherKeys,    \* every other subscript
  Sizes,        \* the sizes[] schedule of grow_int_table, ascending
  ChainMax      \* INT_CHAIN_MAX (environment, > 0; default 2)

Subs == IntKeys \cup OtherKeys

VARIABLES
  impl,      \* "null", "int", or "assoc" for any other implementation
  asize,     \* symbol->array_size; 0 while symbol->buckets is NULL
  buckets,   \* 0 .. asize-1 -> chain
  maxed,     \* ARRAYMAXED in symbol->flags
  tsize,     \* symbol->table_size, xarray elements included
  xexists,   \* symbol->xarray != NULL
  xkeys,     \* subscripts of the xarray, or of the array that replaced int
  ret        \* what the last operation returned

vars == <<impl, asize, buckets, maxed, tsize, xexists, xkeys, ret>>

EmptyTable(n) == [i \in 0 .. n - 1 |-> <<>>]

Init ==
  /\ impl = "null"
  /\ asize = 0
  /\ buckets = EmptyTable(0)
  /\ maxed = FALSE
  /\ tsize = 0
  /\ xexists = FALSE
  /\ xkeys = {}
  /\ ret = "none"

(* The subscripts of a chain, head first.                                 *)
ChainKeys(c) == FlattenSeq(c)

(* int_find: k is in the chain of bucket h.                               *)
IntFind(tbl, h, k) == \E j \in DOMAIN tbl[h] : Contains(tbl[h][j], k)

(* All integer subscripts stored.                                          *)
IntKeysHeld ==
  UNION {ToSet(ChainKeys(buckets[i])) : i \in DOMAIN buckets}

-----------------------------------------------------------------------------
(* Installing and growing                                                  *)

(* int_insert: k into the head of chain h, pushing a new head when there  *)
(* is none or it already holds two subscripts.                             *)
IntInsert(tbl, k, h) ==
  [tbl EXCEPT ![h] = IF @ = <<>> \/ Len(@[1]) = 2
                     THEN <<<<k>>>> \o @
                     ELSE <<Append(@[1], k)>> \o Tail(@)]

(* grow_int_table's rehash: every subscript of the old table, bucket by   *)
(* bucket and chain node by node, re-inserted under the new size.          *)
Rehash(tbl, oldsize, newsize) ==
  FoldLeft(LAMBDA t, k : IntInsert(t, k, IntHash(k, newsize)),
           EmptyTable(newsize),
           FlattenSeq([i \in 1 .. oldsize |-> ChainKeys(tbl[i - 1])]))

(* The first size of the schedule larger than the current one, or the     *)
(* current one when there is none.                                        *)
NextSize(old) ==
  LET bigger == {i \in DOMAIN Sizes : old < Sizes[i]}
  IN  IF bigger = {} THEN old ELSE Sizes[Min(bigger)]

(* Seeded-bug variant: the schedule's last size is never recognised, the *)
(* table keeps growing past it.                                           *)
GrowFromNoMax(g, ns) ==
  [size |-> ns + 1, tbl |-> Rehash(g.tbl, g.size, ns + 1), maxed |-> g.maxed]

(* grow_int_table on a table g = [size, tbl, maxed]: mark it ARRAYMAXED   *)
(* at the end of the schedule, else rehash into the next size.             *)
GrowFrom(g, ns) ==
  IF ns = g.size THEN [g EXCEPT !.maxed = TRUE]
  ELSE [size |-> ns, tbl |-> Rehash(g.tbl, g.size, ns), maxed |-> g.maxed]

Grow(g) == GrowFrom(g, NextSize(g.size))

Current == [size |-> asize, tbl |-> buckets, maxed |-> maxed]

(* Seeded-bug variants: the growth test made before table_size++; the     *)
(* hash not recomputed after growing.                                      *)
GrowIfLoadedEarly(g, t1) ==
  LET size == IF xexists THEN tsize - Cardinality(xkeys) ELSE tsize
  IN  IF ~g.maxed /\ size \div g.size > ChainMax THEN Grow(g) ELSE g
InstallAtStale(k, g0, g) ==
  /\ buckets' = IntInsert(g.tbl, k, IntHash(k, g0.size))
  /\ asize' = g.size
  /\ maxed' = g.maxed

(* int_lookup's growth test, on the integer count after table_size++.     *)
GrowIfLoaded(g, t1) ==
  LET size == IF xexists THEN t1 - Cardinality(xkeys) ELSE t1
  IN  IF ~g.maxed /\ size \div g.size > ChainMax THEN Grow(g) ELSE g

(* int_insert with the hash of k for the (possibly grown) table g.        *)
InstallAt(k, g0, g) ==
  /\ buckets' = IntInsert(g.tbl, k, IntHash(k, g.size))
  /\ asize' = g.size
  /\ maxed' = g.maxed

(* int_lookup for an integer k on table g0, allocated if it was NULL.     *)
IntLookupInt(k, g0) ==
  IF IntFind(g0.tbl, IntHash(k, g0.size), k)
  THEN /\ ret' = "found"
       /\ UNCHANGED <<asize, buckets, maxed, tsize, xexists, xkeys>>
  ELSE /\ ret' = "installed"
       /\ tsize' = tsize + 1
       /\ InstallAt(k, g0, GrowIfLoaded(g0, tsize + 1))
       /\ UNCHANGED <<xexists, xkeys>>

(* Seeded-bug variant: the subscript installed again without asking the  *)
(* xarray whether it is already there.                                    *)
IntLookupXNoExists(s) ==
  /\ ret' = "installed"
  /\ xexists' = TRUE
  /\ xkeys' = xkeys \cup {s}
  /\ tsize' = tsize + 1
  /\ UNCHANGED <<asize, buckets, maxed>>

(* int_lookup for a non-integer: found in the xarray, else the xarray is  *)
(* created if needed and the subscript installed there.                   *)
IntLookupX(s) ==
  IF xexists /\ s \in xkeys
  THEN /\ ret' = "found"
       /\ UNCHANGED <<asize, buckets, maxed, tsize, xexists, xkeys>>
  ELSE /\ ret' = "installed"
       /\ xexists' = TRUE
       /\ xkeys' = xkeys \cup {s}
       /\ tsize' = tsize + 1
       /\ UNCHANGED <<asize, buckets, maxed>>

IntLookup(s) ==
  IF s \in IntKeys
  THEN IntLookupInt(s, IF asize = 0 THEN Grow(Current) ELSE Current)
  ELSE IntLookupX(s)

(* int_exists: the xarray for a non-integer; no table, no element.        *)
IntExists(s) ==
  /\ ret' = IF IF s \in IntKeys
               THEN asize > 0 /\ IntFind(buckets, IntHash(s, asize), s)
               ELSE xexists /\ s \in xkeys
            THEN "found" ELSE "absent"
  /\ UNCHANGED <<impl, asize, buckets, maxed, tsize, xexists, xkeys>>

-----------------------------------------------------------------------------
(* Removing and clearing                                                   *)

(* Seeded-bug variant: a non-head BUCKET left with one subscript.         *)
ChainAfterRemoveNoRefill(c, j, i) ==
  LET b == RemoveAt(c[j], i)
  IN  IF b = <<>> THEN RemoveAt(c, j) ELSE [c EXCEPT ![j] = b]

(* int_remove from "item found" on, for subscript i of node j of chain c: *)
(* the second subscript moves to slot 0 when the first goes; an emptied  *)
(* node is detached; a non-head node left with one subscript takes the    *)
(* last subscript of the head, and a head emptied that way is deleted.    *)
ChainAfterRemove(c, j, i) ==
  LET b == RemoveAt(c[j], i)
  IN  IF b = <<>> THEN RemoveAt(c, j)
      ELSE IF j = 1 THEN [c EXCEPT ![1] = b]
      ELSE IF Len(c[1]) = 1
           THEN Tail([c EXCEPT ![j] = Append(b, c[1][1])])
           ELSE [c EXCEPT ![1] = Front(c[1]), ![j] = Append(b, Last(c[1]))]

(* ainit(symbol, NULL): the null array again (array.c's null_array clears *)
(* buckets, sizes and flags).                                              *)
ResetToNull ==
  /\ impl' = "null"
  /\ asize' = 0
  /\ buckets' = EmptyTable(0)
  /\ maxed' = FALSE
  /\ tsize' = 0
  /\ xexists' = FALSE
  /\ xkeys' = {}

(* *symbol = *xn: the str xarray becomes the variable.                     *)
Promote ==
  /\ impl' = "assoc"
  /\ asize' = 0
  /\ buckets' = EmptyTable(0)
  /\ maxed' = FALSE
  /\ tsize' = 0
  /\ xexists' = FALSE
  /\ UNCHANGED xkeys

(* Seeded-bug variant: promotion tested on table_size before the       *)
(* decrement.                                                              *)
PromoteDueBefore(t1) == xexists /\ tsize = Cardinality(xkeys)

(* int_remove's promotion test, on the decremented table_size t1.         *)
PromoteDue(t1) == xexists /\ t1 = Cardinality(xkeys)

(* int_remove of integer k found in chain h: the chain is repaired, the   *)
(* table size drops, then reset or promotion as in cint_remove.           *)
IntRemoveFound(k, h) ==
  LET c  == buckets[h]
      j  == CHOOSE j \in DOMAIN c : Contains(c[j], k)
      t1 == tsize - 1
  IN  /\ ret' = "removed"
      /\ CASE ~xexists /\ t1 = 0 -> ResetToNull
           [] PromoteDue(t1)       -> Promote
           [] OTHER ->
                /\ buckets' = [buckets EXCEPT ![h] =
                        ChainAfterRemove(c, j, CHOOSE i \in DOMAIN c[j] : c[j][i] = k)]
                /\ tsize' = t1
                /\ UNCHANGED <<impl, asize, maxed, xexists, xkeys>>

(* int_remove of a non-integer: remove it from the xarray, free the       *)
(* xarray when it empties, count one element less.                       *)
IntRemoveX(s) ==
  IF xexists /\ s \in xkeys
  THEN /\ xkeys' = xkeys \ {s}
       /\ xexists' = (xkeys' # {})
       /\ tsize' = tsize - 1
       /\ ret' = "removed"
       /\ UNCHANGED <<impl, asize, buckets, maxed>>
  ELSE /\ ret' = "absent"
       /\ UNCHANGED <<impl, asize, buckets, maxed, tsize, xexists, xkeys>>

(* int_remove: nothing in an empty or unallocated table; an integer is    *)
(* looked for in its chain, anything else in the xarray.                  *)
IntRemove(s) ==
  IF tsize = 0 \/ asize = 0 THEN
     /\ ret' = "absent"
     /\ UNCHANGED <<impl, asize, buckets, maxed, tsize, xexists, xkeys>>
  ELSE IF s \notin IntKeys THEN IntRemoveX(s)
  ELSE IF IntFind(buckets, IntHash(s, asize), s)
       THEN IntRemoveFound(s, IntHash(s, asize))
       ELSE /\ ret' = "absent"
            /\ UNCHANGED <<impl, asize, buckets, maxed, tsize, xexists, xkeys>>

(* int_clear: free the xarray and every chain, then re-initialise.        *)
IntClear ==
  /\ ResetToNull
  /\ ret' = "none"

-----------------------------------------------------------------------------
(* The other states of the variable, modelled from the spec by the        *)
(* subscripts they hold.                                                   *)

(* null_lookup: an integer that is not a non-negative one (cint's) picks  *)
(* int_array; anything else another implementation.                      *)
NullLookup(s) ==
  IF s \in IntKeys /\ s < 0
  THEN /\ impl' = "int"
       /\ IntLookup(s)
  ELSE /\ impl' = "assoc"
       /\ xkeys' = {s}
       /\ ret' = "installed"
       /\ UNCHANGED <<asize, buckets, maxed, tsize, xexists>>

Absent ==
  /\ ret' = "absent"
  /\ UNCHANGED <<impl, asize, buckets, maxed, tsize, xexists, xkeys>>

AssocLookup(s) ==
  /\ ret' = IF s \in xkeys THEN "found" ELSE "installed"
  /\ xkeys' = xkeys \cup {s}
  /\ UNCHANGED <<impl, asize, buckets, maxed, tsize, xexists>>

AssocExists(s) ==
  IF s \in xkeys
  THEN /\ ret' = "found"
       /\ UNCHANGED <<impl, asize, buckets, maxed, tsize, xexists, xkeys>>
  ELSE Absent

(* str_remove: the array re-initialises itself when its last element goes. *)
AssocRemove(s) ==
  IF s \in xkeys
  THEN /\ xkeys' = xkeys \ {s}
       /\ impl' = IF xkeys' = {} THEN "null" ELSE "assoc"
       /\ ret' = "removed"
       /\ UNCHANGED <<asize, buckets, maxed, tsize, xexists>>
  ELSE Absent

OtherClear ==
  /\ impl' = "null"
  /\ xkeys' = {}
  /\ ret' = "none"
  /\ UNCHANGED <<asize, buckets, maxed, tsize, xexists>>

-----------------------------------------------------------------------------
(* Listing (int_list): the caller's assoc_kind as [value (AVALUE), del    *)
(* (ADELETE)]; an index entry is [i |-> subscript], a value entry          *)
(* [v |-> subscript].  int_list keeps t->flags: the caller sorts.         *)

Uninit == [uninit |-> TRUE]    \* a list slot nothing was written to

(* Entries of one element: its index, then its value when asked.          *)
Entry(t, k) == IF t.value THEN <<[i |-> k], [v |-> k]>> ELSE <<[i |-> k]>>

(* xn->alist(xn, t) of the str xarray: its subscripts in an order of its  *)
(* own, one only with ADELETE.                                             *)
XList(t) ==
  LET ks == SetToSeq(xkeys)
  IN  IF t.del THEN Entry(t, ks[1]) ELSE FoldLeft(LAMBDA acc, s : acc \o Entry(t, s), <<>>, ks)

(* Seeded-bug variant: the table's entries written from the start of the  *)
(* list after the xarray's.                                                *)
XPartLenZero(es) == 0

(* k = elem_size * xn->table_size: where the table's entries start.       *)
XPartLen(es) == es * Cardinality(xkeys)

(* int_list(symbol, t): list_size = elem_size * num_elems slots (one      *)
(* element for the delete loop); with an xarray its list, reallocated,    *)
(* comes first; then bucket by bucket, BUCKET by BUCKET, ainum[0] before   *)
(* ainum[1], until list_size slots are written.                            *)
IntList(t) ==
  LET num  == IF t.del /\ ~t.value THEN 1 ELSE tsize
      es   == IF t.value THEN 2 ELSE 1
      ls   == num * es
      xl   == XList(t)
      ents == FoldLeft(LAMBDA acc, k : acc \o Entry(t, k), <<>>,
                       FlattenSeq([i \in 1 .. asize |-> ChainKeys(buckets[i - 1])]))
      k0   == IF xexists THEN XPartLen(es) ELSE 0
      n    == IF Len(ents) < ls - k0 THEN Len(ents) ELSE ls - k0
  IN  IF tsize = 0 THEN <<>>
      ELSE IF xexists /\ (num = 1 \/ num = Cardinality(xkeys)) THEN xl
      ELSE [p \in 1 .. ls |-> IF p > k0 /\ p <= k0 + n THEN ents[p - k0]
                              ELSE IF xexists /\ p <= Len(xl) THEN xl[p]
                              ELSE Uninit]

-----------------------------------------------------------------------------
Next ==
  \/ \E s \in Subs :
       \/ impl = "null"  /\ (NullLookup(s) \/ Absent)
       \/ impl = "int"   /\ UNCHANGED impl /\ (IntLookup(s) \/ IntExists(s))
       \/ impl = "int"   /\ IntRemove(s)
       \/ impl = "assoc" /\ (AssocLookup(s) \/ AssocExists(s) \/ AssocRemove(s))
  \/ impl = "int" /\ IntClear
  \/ impl # "int" /\ OtherClear

Spec == Init /\ [][Next]_vars

-----------------------------------------------------------------------------
(* What the variable holds, through the array_funcs_t contract.            *)
Contents ==
  CASE impl = "int"   -> IntKeysHeld \cup xkeys
    [] impl = "assoc" -> xkeys
    [] OTHER          -> {}

Count ==
  CASE impl = "int"   -> tsize
    [] impl = "assoc" -> Cardinality(xkeys)
    [] OTHER          -> 0

AA == INSTANCE AssocArray WITH contents <- Contents, count <- Count

(* int_lookup, int_exists, int_remove and int_clear, across growth,       *)
(* chain repair, the xarray, promotion and reset, behave as one           *)
(* associative array whose length is table_size.                          *)
Refinement == AA!Spec

TypeOK ==
  /\ impl \in {"null", "int", "assoc"}
  /\ asize \in {0} \cup ToSet(Sizes)
  /\ buckets \in [0 .. asize - 1 -> Seq(Seq(IntKeys))]
  /\ maxed \in BOOLEAN
  /\ tsize \in Nat
  /\ xexists \in BOOLEAN
  /\ xkeys \subseteq Subs
  /\ ret \in AA!Answers

(* The comment of int_insert and the spec's bucket-table invariant: in    *)
(* every chain only the head BUCKET may be partially full and it is never *)
(* empty, whatever sequence of inserts, removals and rehashes built it.   *)
BucketShape ==
  \A h \in DOMAIN buckets :
    \A j \in DOMAIN buckets[h] :
      Len(buckets[h][j]) \in IF j = 1 THEN {1, 2} ELSE {2}

(* int_find only looks in bucket int_hash(k, array_size): every integer   *)
(* held is in the chain of its hash under the current size, exactly once, *)
(* also after grow_int_table has rehashed the table.                      *)
KeysHashed ==
  \A h \in DOMAIN buckets :
    /\ \A k \in ToSet(ChainKeys(buckets[h])) : IntHash(k, asize) = h
    /\ IsInjective(ChainKeys(buckets[h]))

(* The comment of int_lookup: the xarray holds at least one item and      *)
(* cannot exist without integer elements; the assert of int_remove        *)
(* (table_size > 1 before an xarray removal) rests on it.                 *)
IntNeverEmpty ==
  impl = "int" => /\ asize > 0
                  /\ IntKeysHeld # {}
                  /\ xexists <=> xkeys # {}

(* Growth keeps the integer elements per bucket at most INT_CHAIN_MAX     *)
(* until the table is ARRAYMAXED.                                          *)
LoadBound ==
  impl = "int" /\ ~maxed =>
    Cardinality(IntKeysHeld) \div asize <= ChainMax

(* The kinds of listing gawk asks for: indices, indices with values, and  *)
(* the delete loop's AINDEX|ADELETE.                                       *)
ListKinds ==
  {[value |-> v, del |-> FALSE] : v \in BOOLEAN} \cup {[value |-> FALSE, del |-> TRUE]}

(* int_list fills exactly the list_size slots it allocates, with every    *)
(* element once (the one element of a delete loop) and each value after   *)
(* its index: the xarray's entries first, then the chains', whatever the  *)
(* mix of one- and two-subscript BUCKETs growth and removals left.        *)
IntListExact ==
  impl = "int" => \A t \in ListKinds :
    LET l  == IntList(t)
        es == IF t.value THEN 2 ELSE 1
        n  == Len(l) \div es
        ix == [p \in 1 .. n |-> l[(p - 1) * es + 1]]
    IN  /\ \A p \in DOMAIN l : l[p] # Uninit
        /\ Len(l) = n * es
        /\ \A p \in 1 .. n : "i" \in DOMAIN ix[p]
        /\ t.value => \A p \in 1 .. n : l[2 * p] = [v |-> ix[p].i]
        /\ IF t.del THEN n = 1 /\ ix[1].i \in Contents
           ELSE n = Cardinality(Contents) /\ {ix[p].i : p \in 1 .. n} = Contents

=============================================================================
