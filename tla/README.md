# TLA+ models of gawk's arrays, symbol table, contexts, -M arithmetic and readfile extension

This directory holds TLA+ models of the C sources under `src/`, and TLC
configurations that check them. `PROJECT.json` holds the rest:

- the components and their modelling status;
- the runs;
- the map from each definition to the source lines it models;
- the seeded-bug mutants;
- the findings;
- the hazards.

## The system

The sources are part of GNU awk (Windows port):

| file | what it is | state it keeps |
|---|---|---|
| `cint_array.c` | the array for non-negative integer subscripts, built on Hashed Array Trees (HATs) | `symbol->nodes[NHAT..31]` (HAT roots), HAT `NODE`s, leaf arrays, `array_capacity`, `table_size`, `xarray` |
| `int_array.c` | a hash array for integer subscripts (2-element buckets, prime sizes), plus `is_integer`, which classifies subscripts | `buckets`, `array_size`, `table_size`, `ARRAYMAXED`, `xarray` |
| `symbol.c` | the symbol tables, function parameters, execution contexts and the instruction memory pool | `global_table`, `func_table`, `symbol_table`, `param_table`, `func_count`, `var_count`, the context stack, `pools` |
| `extension/readfile.c` | the `readfile()` function and an input parser that reads a whole file as one record | the iobuf's `opaque` |
| `mpfr.c` | arbitrary-precision arithmetic (`-M`): string to number, the arithmetic opcodes, NR and FNR beyond `LONG_MAX` | `MNR`, `MFNR`, the temporaries `_mpf_t1`/`_mpf_t2`, `ROUND_MODE` |
| `missing_d/fnmatch.c`, `version.c` | a wrapper and a constant | — |

### How the parts interact

**Arrays.** Every awk array variable is a `NODE` whose `array_funcs` switch
between implementations.

- A new variable starts as the null array (`array.c`, not in `src/`).
- Its first lookup picks `cint_array_func` when the subscript is a
  non-negative integer (`ISUINT`). Otherwise it picks the int array when
  `is_integer` holds, and the str array in the remaining cases.
- Both integer arrays keep subscripts they cannot store in a second array,
  `symbol->xarray`. When the last integer goes, `*symbol = *xn` promotes the
  xarray into the variable. When the variable becomes empty, it is reset to
  the null array.

**Symbols.**

- `install` puts each name into one of four tables:
  - functions into `func_table`;
  - parameters into `param_table`;
  - `FUNCTAB`/`SYMTAB` into `global_table`;
  - everything else into `symbol_table`.
- `lookup` searches the tables in that order of shadowing: parameters first,
  then the specials (skipped under `--posix`), then functions, then globals.
- The parser installs a function's parameters while it parses the body, and
  removes them afterwards.
- The parser and the debugger's `eval` run in contexts. `push_context` and
  `pop_context` save and restore `sourceline`/`source`. Through
  `set_context` they also switch the instruction pool that `bcalloc` and
  `bcfree` use, the list `append_symbol` records installed names on
  (`symbol_list`, `install_func`), and the `srcfiles` list.
- `free_context` frees a context's pool and source files, and
  `release_symbols` removes the names it installed. Its only check is that
  the context is not the current one. Its callers (`debug.c`, not in this
  repository) free only a context they have just popped, and `Context`'s
  `Next` states that order as the environment's.

**NR and FNR under `-M`.** The record counters are `long`s that the input
code increments. Beyond `LONG_MAX` they carry into the mpz quotients `MNR`
and `MFNR`, so the awk value is `MNR * LONG_MAX + NR`. `mpg_set_var` splits a
value the program assigns, and `mpg_update_var` rebuilds `var_value` before
the program reads it.

**Numbers under `-M`.** `mpg_force_number` turns a string `NODE` into a GMP
integer when `mpg_maybe_float` finds no `.`, `e`, `E`, `inf` or `nan`
(through `mpg_strtoui`), and into an MPFR float otherwise (through
`mpfr_strtofr`). `mpg_interpret` runs every arithmetic opcode: two GMP
integers stay on the GMP path where the result is an integer, and anything
else goes to MPFR, an integer operand first converted by `mpg_tofloat` into
`_mpf_t1`/`_mpf_t2`, whose precision it raises as the integer needs.

**ARGV in sandbox mode.** `argv_store` runs after every store into `ARGV`.
It lets the value through when it is empty, was on the command line
(`argv_shadow_array`), or assigns to a variable name, and calls `fatal()`
otherwise.

**readfile.** The readfile extension is loaded by gawk.

- gawk's input code (`io.c`) offers every file it opens to the parser. The
  parser accepts it when `PROCINFO["readfile"]` exists.
- gawk then calls `get_record` until it returns EOF.

## Modules

| module | models | state / actions |
|---|---|---|
| `AssocArray` | the `array_funcs_t` contract every implementation promises (the abstract spec) | `contents`, `count` (`length()`), `ret`; `Lookup`, `Exists`, `Remove`, `Clear` |
| `HatGeometry` (+`MCHelpers`) | the arithmetic of `cint_array.c`, as pure operators | `Log2Floor`/`CintHash` (`cint_hash`), `EstLeafExp` (the estimate in `cint_lookup`), `LookupPath`/`LeafStep` (the recursion of `tree_lookup`/`leaf_lookup`), `ActualSize` (HALFHAT) |
| `CintArray` (+`MCCintArray`) | one array variable implemented by `cint_array.c`, with the null and int/str states it passes through | `impl`, `tree`/`leaf` (HAT nodes by path), `xkeys`; `CintLookup`, `CintExists`, `CintRemove`, `CintClear`; `CintList` (`cint_list` with `tree_list`/`leaf_list`) as an operator |
| `IntHash` (+`IntHashVectors`, checked in `MCHelpers`) | `int_hash`, on `uint32_t` held as two 16-bit halves | `Shl`, `Shr`, `XorW`, `AddW` (+ mod 2^32), `IntHash` |
| `IntArray` (+`MCIntArray`) | one array variable implemented by `int_array.c` | `buckets` (chains of 1–2-key nodes), `asize`, `maxed`, `tsize`, `xkeys`; `IntLookup`, `IntExists`, `IntRemove`, `IntClear`; `IntList` (`int_list`) as an operator |
| `IsInteger` (+`MCHelpers`) | `is_integer` and `standard_integer_string`, as operators on a subscript record | `ParseDigits` (the overflow-checked digit loop), `StringPath`, `NumberPath` |
| `BcPool` (+`MCBcPool`) | `bcalloc`, `bcfree`, and the walk of `free_bcpool`/`free_bc_mempool` | `pool` (per size: blocks, `free_space`, `free_list`, the opcode of each slot), `held`; `Alloc`, `Free` |
| `Context` (+`MCContext`) | `new_context`, `set_context`, `push_context`, `pop_context`, `free_context`; `bcalloc`/`bcfree` through the `pools` pointer; `install_func`/`append_symbol`/`release_symbols`; the `srcfiles` list | `curr`, `prev`, `level`, `sourceline`, `source`, `saved`, `pools`, `pool` (a `BcPool` value per context), `status`, `srcfiles`/`srcheap`, `symtab`, `symlist`, `install_func`, `symbol_list`; `NewContext`, `PushContext`, `PopContext`, `FreeContext`, `Alloc`, `Free`, `Install`, `AddSrcfile` |
| `NrVar` (+`MCMpfr`) | `mpg_set_var`, `mpg_update_var` and `init_mpfr`'s zeroing of `MNR`/`MFNR` | `val` (`var_value`), `mq` (`MNR`/`MFNR`), `lv` (`NR`/`FNR`), the ghost `count`; `Assign`, `Record`, `Read` |
| `MpfrNumber` (+`MCHelpers`) | `mpg_force_number`, `force_mpnum`, `mpg_strtoui`, `mpg_maybe_float`, `mpg_zero`, and `mpfr_strtofr` by the prefix it accepts, as operators on a `NODE` record `[str, type, val, maybe_num, number, numcur]` | values are exact decimals `[m, x]` (m·10^x) |
| `MpfrArith` (+`MCMpfr`) | `mpg_interpret`'s arithmetic opcodes, `mpg_add`/`sub`/`mul`/`pow`/`div`/`mod` and `mpg_tofloat` | `tprec` (the precisions of `_mpf_t1`/`_mpf_t2`), `top` (the last instruction: operands, result, variable); `Binary` (`Op_X`, `Op_X_i`, `Op_assign_X`), `IncDec`, `UnaryMinus` |
| `MpfrCompare` (+`MCHelpers`) | `mpg_cmp`, the `cmp_numbers` of `-M`, as an operator on two number `NODE`s `[int, v]` | `IsNaN`, `mpfr_cmp` (the order of MPFR/GMP values, infinities included), `Flip` (the negation of the swapped mixed comparison), `mpg_cmp` |
| `MpfrSettings` (+`MCMpfr`) | `init_mpfr`'s precision and rounding mode, `set_PREC`, `get_rnd_mode`, `set_ROUNDMODE` | `default_prec`, `default_rnd`, `ROUND_MODE`, `do_ieee_fmt`, `max_exp`, `min_exp`; `set_PREC` (an IEEE format name via `SetPrecFmt`, else a number via `SetPrecNum`), `set_ROUNDMODE` |
| `ArgvStore` (+`MCHelpers`) | `argv_store` | `BadVar` (the name test), `argv_store` (kept or fatal) |
| `SymbolTable` (+`MCSymbolTable`) | `init_symbol_table`, `install`, `lookup`, `install_params`/`remove_params`, `remove_symbol`, `get_symbols`' list sizes, `load_symbols`, `check_param_names` | `gtab`, `ftab`, `stab`, `ptab`, `dup` (the `dup_ent` field of every parameter `NODE`), `func_count`, `var_count`, `identifiers` |
| `Readfile` (+`MCReadfile`) | `read_file_to_buffer`, `do_readfile`, and the parser (`can_take_file`, `take_control_of`, `get_record`) | `file`, `io` (the iobuf), `heap` (live buffers), `ret`; `Open`, `GetRecord`, `Close`, `ReadfileStat`/`ReadfileRead`, and a writer's `Append`/`Rewrite` |

### How the modules correspond to the code

**Whole handlers.** Each action covers a whole C function, including every
call it makes that changes state. For example:

- `IntLookup` includes the growth test and `grow_int_table`'s rehash.
- `IntRemove` includes the chain repair, and the reset or promotion.
- `RemoveParams` runs the unlink loop and then `assoc_clear`.

**Loops** are folds (`FoldLeft`) or `RECURSIVE` operators over the same
sequence the C loop walks.

**Spec-modelled actions.** `NullLookup`, `AssocLookup`, `AssocExists`,
`AssocRemove` and `OtherClear` stand for `array.c` and `str_array.c`, which
are not in `src/`. They are modelled from the spec, and track only the set of
subscripts held.

**The environment of `Readfile`.** Gawk opening a file (`Open`, with
`Init`), reading from it and closing it (`Close`) belongs to `io.c`, also not
in `src/`.

**The environment of `NrVar`.** The setter and reader that call
`mpg_set_var`/`mpg_update_var` (`main.c`) and the record counting (`io.c`,
`awk.h`) are not in this repository. `Assign` and `Read` are those calls.
`Record` increments the long counter and carries into the quotient at
`LONG_MAX`, the representation `mpg_update_var`'s comment documents. A ghost
`count` holds the value the program should see.

**`MCMpfr`** runs `NrVar`, `MpfrArith` and `MpfrSettings` side by side:
they share no state, and a variable `part` fixed by `Init` picks the one a
behaviour runs.
`MCHelpers` likewise takes one input per initial state and stutters on it,
so each helper property is evaluated once per input.

**MPFR values.** `MpfrArith` models `mpfr_set_z` bit-exactly (round to
nearest, ties to even, at the temporary's precision), because that rounding
is what `mpg_tofloat` must avoid. The results of `mpfr_add`, `mpfr_div`,
`mpfr_fmod` and the like are their exact values, the rounding those
functions do to the result's precision being a property of MPFR.

**Listing.** `cint_list` and `int_list` change no array state. They are
operators (`CintList`, `IntList`) that return the list buffer, and the
invariants evaluate them in every state for every listing kind.

**Refinement.** `CintArray` and `IntArray` each refine `AssocArray`:
`AA == INSTANCE AssocArray WITH contents <- Contents, count <- Count, ...`.
`Refinement == AA!Spec` is checked as a temporal property.

- `Contents` is the set of subscripts `cint_exists`/`int_exists` find.
- `Count` is `table_size`.

**How pointers are represented.**

- `CintArray` names a HAT node by its path (`<<h1, i, ...>>`).
- `BcPool` names an instruction by `<<size, block, offset>>`.
- `SymbolTable` names a parameter `NODE` by `[f, i]`.
  - Its `dup_ent` lives in those `NODE`s, not in `param_table`.
  - So it outlives `assoc_clear(param_table)`, as in the code.

**What is left abstract.** Values stored in arrays, strings, and file
contents are abstracted to what the properties tell apart:

- A file is its length and a generation that a rewrite changes.
- A name is `<<namespace, id>>`.

**Integer widths.** Widths are kept where overflow matters. Each is scaled
down and stated in its MC module:

- `IsInteger`: an 8-bit `awk_long_t`.
- `IntHash`: 32-bit words as 16-bit halves.
- `Readfile`: a 4-bit `int` and a 6-bit `size_t`.
- `NrVar`: a 3-bit `long`, with `mpz_get_si`'s wrap of larger values.
- `MpfrArith`: `PRECISION_MIN` of 3 bits instead of 64.

## Runs

| run | checks | result |
|---|---|---|
| `helpers` | `Log2FloorCorrect`: the bit trick of `cint_hash` is floor(log2). `PathInBounds`: every child index of `tree_lookup` lies inside the half or full table allocated, and every subscript lies inside its leaf. `IsIntegerCorrect`: a subscript is accepted exactly when it is a `sprintf("%ld")` string of an int32 value, or an integral in-range number with such a string. `NumbrExact`: the digit loop computes the exact value without overflowing, `AWKLONGMIN` included. `IntHashMatchesC`: the word-pair `int_hash` equals the C function on 234 (subscript, size) pairs, including the int32 extremes and the real prime sizes. `ArgvStoreAdmits`: `argv_store` keeps exactly the empty value, a shadowed command-line value, and an assignment to a valid name (a letter, identifier characters, at most one `::`). `NumStringExact`: `mpg_force_number` gives every string the decimal value and GMP/MPFR type it denotes, sets NUMCUR exactly when it is a number and NUMBER when it also came from input, and refuses the rest. `MpgCmpOrders`: `mpg_cmp` orders every pair of GMP integers and MPFR floats (numbers, ±infinity, NaN) by value, with NaN greatest and equal to itself, also when only the second is a float. | pass, 62904 inputs (4153 subscripts at NHAT=10, 11408 subscript NODEs, 234 hash vectors, 7812 ARGV values, 39216 number strings, 81 comparisons) |
| `mpfr` | `ReadIsCount`: every read of NR or FNR gives the value assigned (rounded toward zero) plus the records counted since, for negative, float and beyond-`long` values and across carries into `MNR`/`MFNR`. `ArithExact`: every `+`, `-`, `*`, `/`, `^`, unary minus, increment and decrement gives the exact value of its operands, GMP integer or MPFR float, whatever precision earlier conversions left in the temporaries. `IeeeConsistent`: whenever IEEE emulation is on, the precision in force and `max_exp`/`min_exp` are those of one format of `ieee_fmts`, after any sequence of `PREC` assignments (format names, valid and invalid numbers, numeric strings) and `ROUNDMODE` assignments | pass, 19320 states |
| `mod_sign` | `ModExact`: `x % y` gives the same value whether `x` and `y` are GMP integers or MPFR floats (non-zero divisor) | **violated** in 2 states |
| `cint_array` | `TypeOK`, `CintNeverEmpty`, `HatAccounting` (every `table_size`/`array_capacity` is exact), `SlotsInBounds`, `ListExact` (`cint_list` of every kind fills exactly its allocation with each element once, and is sorted whenever it leaves AASC/ADESC in the flags), `Refinement` | pass, 4621 states |
| `cint_waste` | `WasteBound`: allocated but unused leaf slots never exceed THRESHOLD | **violated** after three inserts |
| `int_array` | `TypeOK`; `BucketShape` (only a chain head may hold a single key, and it is never empty); `KeysHashed` (every key sits in the bucket of its hash under the current size, once); `IntNeverEmpty`; `LoadBound` (keys per bucket ≤ INT_CHAIN_MAX until ARRAYMAXED); `IntListExact` (`int_list` of every kind fills exactly its allocation with each element once); `Refinement` | pass, 3431 states |
| `bc_pool` | `NoOverlap` (instructions stay inside one block and are disjoint); `FreeListExact`; `WalkExact` (`free_bcpool` releases exactly the instructions still allocated) | pass, 18976 states |
| `contexts` | `LevelIsDepth` (`ctxt_level` is the stack depth); `SymbolsFollowContext` (each live context's symbol list holds exactly the names installed while it was current and not yet released); `PoolsFollowContext` (each context's pool holds exactly what was allocated while it was current); `SourceRestored` (an action property: each pop restores the `sourceline`/`source` of the matching push) | pass, about 993k states |
| `context_srcleak` | `NoSrcfileLeak`: once every evaluation context is freed, no `SRCFILE` but main's is still allocated | **violated** in 6 states |
| `symbol_table` | `TypeOK`; `ListsFit` (`get_symbols` writes no more slots than it allocates); `ParamChainsExact` (each `dup_ent` chain is finite and holds exactly the function's parameters of that name: the first declared at the head, then the later ones newest first, also when the parameters are installed again); `IdentifiersExact` (`PROCINFO["identifiers"]` gives the kind of the symbol `lookup` finds) | pass, 87556 states |
| `readfile` | `RecordIsPrefix` (no byte beyond the file's end is returned while another process writes the file, and the parser's `int` count is the record length, never negative or EOF); `OneRecordPerOpen` (the empty file included); `ReachesEOF` (a file the parser took reaches EOF or is closed) | pass, 51438 states |
| `readfile_leak` | `NoLeak`: every buffer `get_record` allocated is freed, or is still held by the open iobuf | **violated** |

Each property of a passing run has a mutant in `PROJECT.json`. A mutant is a
definition rewritten the way a plausible bug would rewrite it, and TLC finds
that it breaks the property. For example:

- `RemoveParamNoUnlink` leaves the unlink to `assoc_clear`.
- `TakeNoUnlink` reuses a free-list entry without popping it.
- `ParseDigitsNoMin` drops the `AWKLONGMIN` case.
- `SetVarTrunc` uses truncating instead of floor division in `mpg_set_var`.
- `GetRecordNoOpaque` reads the file again on every `get_record` call.
- `XPartLenZero` starts the chains' part of a list at slot 0.
- `ToFloatPrecShort` counts an integer's significant bits one short in `mpg_tofloat`.
- `BadVarNoSecondColon` drops `argv_store`'s test for a `:` after the `::`.
- `MaybeFloatNoUpperE` makes `mpg_maybe_float` miss an upper-case exponent.
- `FlipKeep` returns the swapped comparison of `mpg_cmp` without negating it.
- `SetPrecNumKeepIeee` lets a valid numeric `PREC` leave IEEE emulation on.

### Findings

**The capacity estimate of `cint_lookup` is too small** (`cint_array.c:231`).

- Its loop halves while `li >= NHAT`. `tree_lookup` makes a leaf as soon as
  `n <= NHAT`, one halving earlier. At the default NHAT=10, subscript 524288
  is estimated a 32-slot leaf and gets a 1024-slot one.
- The waste test therefore admits leaves bigger than it accounts for. So
  THRESHOLD is not the bound on waste that it is documented to be
  (`cint_waste`).
- Removals also free slots without any waste check.

**`free_context` never frees a context's source files** (`symbol.c:863`).

- The loop starts at the list head (`s = &ctxt->srcfiles`) and runs while
  `s != &ctxt->srcfiles`. So its body never runs.
- Every `SRCFILE` that `add_srcfile` put on an evaluation context's list
  leaks when the context is freed (`context_srcleak`).
- The trace is: new context, push, add a source file, pop, free.

**readfile's buffer leaks when gawk closes a file early**
(`extension/readfile.c:266`).

- The text is freed only by the `get_record` call that follows the record.
- The parser installs no `close_func`.
- Gawk closes a file without that call on `nextfile`, or on `close()` after a
  `getline`. The whole file's buffer then stays allocated.
- The trace is: open, one record, close.
- This finding depends on the model of `io.c`, which is not in `src/`.

**`%` under `-M` depends on the operands' representation** (`mpfr.c:1339`).

- `mpg_mod` uses `mpz_mod` for two GMP integers and `mpfr_fmod` otherwise.
- `mpz_mod`'s remainder is never negative, while `fmod`'s has the dividend's
  sign (as awk's `%` and gawk without `-M` give). So `-7 % 3` gives 2 and
  `-7 % 3.0` gives -1 (`mod_sign`).
- The comment of `mpg_tofloat` (`mpfr.c:1165`) requires `13 % 2` and
  `13 % 2.0` to agree.
- `mpz_mod` is also handed a zero divisor unchecked. Whether the interpreter
  rejects one before `mpg_interpret` is decided outside this repository, so
  `ModExact` leaves it aside.

### Notes from modelling

**`int_remove` and spec.md.** spec.md (the int backend's `remove`) says an
emptied head is refilled with the chain's *last* entry. The code does
something else:

- it detaches an emptied node;
- it refills an emptied non-head node from the head.

The difference cannot be observed through the contract. `BucketShape` and
`Refinement` hold for the code's behaviour.

**Why `remove_params` needs its unlink loop.** The `assoc_clear` at the end of
`remove_params` makes the loop look redundant. It is not. `dup_ent` lives in
the parameter `NODE`s, and `install` never resets the `dup_ent` of the node it
stores at the head. Without the loop, the second `install_params` of
`f(a, a, a)` links an `a` to itself.

**The order of a `dup_ent` chain.** `install` links each later same-named
parameter right after the one stored in `param_table` (symbol.c:341–344).
So `f(a, a, a)` gives the chain p1 → p3 → p2: the first declared, then the
rest newest first. `remove_params` walks from the last parameter down and
unlinks from behind the head, which matches that order. `ParamChainsExact`
states this order.

**`mpg_update_var`'s shortcut is safe.** With a zero quotient it keeps the
old `NODE` when `mpz_get_si` of it equals the counter, and `mpz_get_si` sees
only the low bits of a larger integer. A stale value beyond `long` with a zero
quotient would need the quotient to fall back to zero without an assignment.
Only a negative quotient can do that (by carrying upward), and a negative
value's low bits are never a non-negative counter. `ReadIsCount` confirms it.

**`argv_store` accepts `a::=x`.** Its sandbox test accepts a name made of a
letter and identifier characters with at most one `::`, so `a::` and `a::1`
pass as variable names. `ArgvStoreAdmits` states the test as it is. What an
accepted element becomes is decided by `arg_assign` in `main.c`, which is
not in this repository.

**A lone sign is a number under `-M`.** For `"+"` or `"-"`, `force_mpnum`
hands an empty digit run to `mpg_strtoui`, which leaves the end pointer at
`cpend`, so the string becomes 0 with NUMCUR. `NumStringExact` records that
case explicitly.

**Functions and `release_symbols`.** `remove_symbol` searches only
`symbol_table`. So `destroy_symbol`, and with it `release_symbols`, never
removes a function, despite the `Node_func` case in its switch. `Install` in
`Context` installs variables only.

## Bounds

- **`MCHelpers`** takes every subscript in `0..2^(NHAT+2)`, plus `2^j-1`,
  `2^j` and `2^j+1` for each `j` ≤ 30, plus `2^31-1`. These are the first and
  last subscripts of every top-level HAT, HALFHAT and nested HAT. For
  `is_integer` it uses an 8-bit `awk_long_t` and `int32_t`, and every string
  of up to 4 characters over `-0127 89x`. That reaches every overflow branch
  ("127", "128", "-128", "-129", "1270") and every early rejection. Numbers
  cover the int32 edges.
- **`MCHelpers`** also takes every ARGV value of up to 5 characters over
  `a1:=/`, shadowed or not, and every number string of up to 5 characters
  over `1+- .eE`, from input or not. That gives leading and trailing blanks,
  signs alone and doubled, points and exponents with and without digits.
- **`MCMpfr`** scales `PRECISION_MIN` from 64 to 3 bits. The operands -7, 0,
  3, 13, 24 and 25, each as a GMP integer and as an MPFR float, give 13 (four
  significant bits) and 25 (five), which need a wider temporary, and -7 and
  24 (11000, two significant bits), which fit it. They also give zero and
  negative divisors, dividing and non-dividing pairs, and a negative
  dividend for `%`. Exponents are -1, 0 and 3.
- **`MCMpfr`**'s `NrVar` half has NR and FNR, a 3-bit `long` (`LONG_MAX` = 3), and the
  assigned values -7, -4, -1, 2 and 5 as integers, and -1 and 2 as floats
  with and without a fraction. These give quotients of -3 to 1 and values
  outside `long`. Counting goes up to 7, so a counter carries from -7 up
  through zero and twice above it.
- **`MCMpfr`**'s `MpfrSettings` part assigns `PREC` the numbers -5, 1, 2
  and 24 (below, at and above `MPFR_PREC_MIN` = 2), and the strings and
  numeric strings "double", "oct", "53", "1" and "x": two IEEE format names,
  a valid and an invalid numeric string, and a non-number. `ROUNDMODE` gets
  "N", "z", "A", "x", "1", "NN" and the empty string, valid and invalid, of
  lengths 0, 1 and 2. So emulation is switched on, kept by an invalid value,
  switched to another format and ended, in every order.
- **`MCHelpers`** compares every pair of the nodes -1, 0 and 2 (each a GMP
  integer and an MPFR float), +inf, -inf and NaN: 81 pairs, every branch of
  `mpg_cmp` but the `cmp_awknums` one.
- **`MCCintArray`** uses NHAT=2, the smallest value `cint_array_init` accepts,
  so THRESHOLD is 8. The subscripts 1, 3, 9, 16, 40 and 41 give a low HAT, a
  HALFHAT, a full HAT whose leaf exceeds its estimate, and a nested HALFHAT
  leaf. One string subscript drives the xarray, promotion and reset.
- **`MCIntArray`** uses sizes `<<2, 3>>` and `INT_CHAIN_MAX` 1, so that a few
  keys make the table grow once and then reach ARRAYMAXED.
  - The keys {-5, -4, 0, 1, 2, 10} collide under the real `int_hash` at both
    sizes. This gives two-node chains and the chain-repair branches.
  - One string subscript is the xarray.
- **`MCBcPool`** has sizes 1–2, blocks of 3 and 2 blocks per size. 3 is not a
  multiple of 2, so the size-2 pool must leave a slot unused. The walk covers
  one full block and one partial block.
- **`MCContext`** has main plus two contexts, so nesting goes two deep and
  freed contexts are reused. The two extra contexts are symmetric. The model
  uses one line, one source file, one-instruction pools and one variable name.
  - `contexts` installs through `append_symbol` in every context.
  - `context_srcleak` installs no names, to keep the state space small for
    the source-file question.
- **`MCSymbolTable`** has the names `a`, `awk::a`, `f`, `g` and `SYMTAB`, with
  `f(a, a, a)` and `g(f)`, and `var_count` ≤ 3. Three same-named
  parameters are the fewest for which a chain's order differs from
  declaration order. Both `--posix` settings are explored.
- **`MCReadfile`** has file lengths {0, 3, 7, 8, 15}: empty, short, `INT_MAX`,
  `INT_MAX+1` and `2^4-1` (whose `(int)` is EOF). It allows one rewrite, two
  openings, and two records per opening. The records bound never cuts a
  behaviour of the code short, because `OneRecordPerOpen` holds.

## Fairness and liveness

Everything modelled is single-threaded: each operation is a synchronous call
that returns. The one liveness question is gawk's loop over a file that the
readfile parser took. `io.c` calls `get_record` again as long as the file is
open and has not reported EOF (assuming the awk program's actions terminate).
So `FairSpec` assumes weak fairness of `GetRecord`, and `ReachesEOF` states
that such a file reaches EOF or is closed. The writer, `readfile()` and
closing the file are not obliged to happen, and get no fairness.

`MCSymbolTable.cfg` disables the deadlock check. Parsing ends, and once the
bounded installs are used up the symbol table has no step it must take. The
other runs check deadlock.

## Not modelled

- **Array functions:** `*_copy` (values and subarrays are not modelled, so a
  copy would be the identity), `*_dump`/`*_print` (output only), and
  and the `in_array` test of `argv_store` (an input of the model).
- **Memory release:** the freeing in `destroy_symbol` (memory only).
- **Other `symbol.c` functions:** `get_symbols`' `qsort`, `print_vars`,
  `foreach_func`, `release_all_vars`, and the keyword helpers
  `is_all_upper`/`cmp_keyword`.
- **Non-variable SYMTAB elements:** `Node_val` entries in `symbol_table`,
  which come from the interpreter.
- **Context switching:** the `rule_list` that `set_context` also switches.
- **The rest of `mpfr.c`:** the numeric builtins and formatting
  (`format_ieee` included, the reader of `max_exp`/`min_exp`) compute with arbitrary-precision
  values, and their correctness is a property of GMP/MPFR arithmetic, out of
  TLC's reach. `get_numbase` (non-decimal data, in `node.c`), the locale's
  decimal point, `IEEE_FMT` and the reference counting of operand `NODE`s in
  `mpg_interpret` are not modelled either.
- **`fnmatch.c` and `version.c`:** they keep no state.
