------------------------------ MODULE Context -------------------------------
(***************************************************************************)
(* The execution contexts of symbol.c: new_context, push_context,         *)
(* pop_context, in_main_context and free_context.  Contexts form a stack  *)
(* through their prev pointers, the main context at the bottom; the       *)
(* globals curr_ctxt and pools (and symbol_list, srcfiles, rule_list,     *)
(* install_func, not modelled) point into the current one, and            *)
(* sourceline/source are saved in a context when another is pushed on it *)
(* and restored from it when that one is popped.  Each context owns an    *)
(* instruction pool (BcPool); bcalloc and bcfree work on whatever pool    *)
(* `pools` points at, and free_context walks the context's own pool.      *)
(***************************************************************************)
EXTENDS Naturals, Sequences, FiniteSets

CONSTANTS
  Ctx,        \* context records ezalloc can return
  Main,       \* the main context, pushed at start-up
  Lines,      \* values sourceline takes while parsing
  Srcs,       \* SRCFILEs source can point at
  NoCtx,      \* NULL
  SymNames,   \* names of global variables the parser installs
  InstallFns, \* the install_func values callers give a new context (append_symbol or not)
  MaxAlloc, Chunk, MaxBlocks

ASSUME Main \in Ctx /\ NoCtx \notin Ctx

(* BcPool's operators on a pool value; its own variables are not used.   *)
BP == INSTANCE BcPool WITH pool <- <<>>, held <- {}

NoSrc == "none"   \* source == NULL

VARIABLES
  curr,        \* curr_ctxt
  prev,        \* ctxt->prev of every context
  level,       \* ctxt_level
  sourceline,  \* sourceline
  source,      \* source
  saved,       \* ctxt->sourceline and ctxt->source of every context
  pools,       \* the context whose ->pools the global `pools` points at
  pool,        \* ctxt->pools of every context
  status,      \* "free" (not allocated), "new", "stacked", "popped"
  held,        \* instructions allocated by callers in each context, not freed
  pushedWith,  \* sourceline and source when each context was pushed
  srcfiles,    \* ctxt->srcfiles of every context: the SRCFILEs on its list
  srcheap,     \* SRCFILEs allocated and not freed
  symtab,      \* the global variables in symbol_table
  symlist,     \* ctxt->symbols of every context: append_symbol's list
  instfn,      \* ctxt->install_func of every context is append_symbol
  install_func, \* the global install_func is append_symbol
  symbol_list, \* the context whose ->symbols the global symbol_list points at
  owner        \* the context whose code installed each symbol, if it has a list

srcvars == <<srcfiles, srcheap>>
symvars == <<symtab, symlist, instfn, install_func, symbol_list, owner>>
vars == <<curr, prev, level, sourceline, source, saved, pools, pool, status,
          held, pushedWith, srcvars, symvars>>

Start == [line |-> 0, src |-> NoSrc]

Init ==
  /\ curr = Main
  /\ prev = [c \in Ctx |-> NoCtx]
  /\ level = 1
  /\ sourceline = 0
  /\ source = NoSrc
  /\ saved = [c \in Ctx |-> Start]
  /\ pools = Main
  /\ pool = [c \in Ctx |-> BP!EmptyPool]
  /\ status = [c \in Ctx |-> IF c = Main THEN "stacked" ELSE "free"]
  /\ held = [c \in Ctx |-> {}]
  /\ pushedWith = [c \in Ctx |-> Start]
  /\ srcfiles = [c \in Ctx |-> <<>>]
  /\ srcheap = {}
  /\ symtab = {}
  /\ symlist = [c \in Ctx |-> <<>>]
  /\ instfn = [c \in Ctx |-> FALSE]
  /\ install_func = FALSE
  /\ symbol_list = Main
  /\ owner = [n \in SymNames |-> NoCtx]

(* new_context: a zeroed context (prev NULL, empty pools and symbol list, *)
(* the srcfiles list an empty circle on its own head); the caller then may *)
(* set ctxt->install_func = append_symbol (fn).                             *)
NewContext(c, fn) ==
  /\ status[c] = "free"
  /\ status' = [status EXCEPT ![c] = "new"]
  /\ prev' = [prev EXCEPT ![c] = NoCtx]
  /\ saved' = [saved EXCEPT ![c] = Start]
  /\ pool' = [pool EXCEPT ![c] = BP!EmptyPool]
  /\ held' = [held EXCEPT ![c] = {}]
  /\ srcfiles' = [srcfiles EXCEPT ![c] = <<>>]
  /\ symlist' = [symlist EXCEPT ![c] = <<>>]
  /\ instfn' = [instfn EXCEPT ![c] = fn]
  /\ UNCHANGED <<curr, level, sourceline, source, pools, pushedWith, srcheap,
                 symtab, install_func, symbol_list, owner>>

(* set_context(ctxt): the globals follow ctxt.                             *)
SetContextNoPools(c) ==      \* seeded bug
  curr' = c /\ symbol_list' = c /\ install_func' = instfn[c] /\ UNCHANGED pools
SetContextNoSymlist(c) ==    \* seeded bug
  curr' = c /\ pools' = c /\ install_func' = instfn[c] /\ UNCHANGED symbol_list
SetContext(c) ==
  /\ pools' = c
  /\ symbol_list' = c
  /\ install_func' = instfn[c]
  /\ curr' = c

(* Seeded-bug variant: the save made after sourceline and source are     *)
(* reset for the new context.                                              *)
SaveCurrentLate(c) == saved' = [saved EXCEPT ![c] = Start]

(* push_context's save of the current sourceline and source.              *)
SaveCurrent(c) == saved' = [saved EXCEPT ![c] = [line |-> sourceline, src |-> source]]

(* Seeded-bug variant: ctxt->prev left as new_context zeroed it.           *)
LinkNone(c) == UNCHANGED prev

(* ctxt->prev = curr_ctxt.                                                  *)
Link(c) == prev' = [prev EXCEPT ![c] = curr]

(* push_context(ctxt), for a fresh context.                               *)
PushContext(c) ==
  /\ status[c] = "new"
  /\ Link(c)
  /\ SaveCurrent(curr)
  /\ sourceline' = 0
  /\ source' = NoSrc
  /\ SetContext(c)
  /\ level' = level + 1
  /\ status' = [status EXCEPT ![c] = "stacked"]
  /\ pushedWith' = [pushedWith EXCEPT ![c] = [line |-> sourceline, src |-> source]]
  /\ UNCHANGED <<pool, held, srcvars, symtab, symlist, instfn, owner>>

(* pop_context's test: fatal "cannot pop main context" when prev is NULL;  *)
(* fatal ends the process, so no step follows it.                          *)
CanPop == prev[curr] # NoCtx

(* pop_context: back to prev, its sourceline and source restored.         *)
PopContext ==
  /\ CanPop
  /\ LET c == prev[curr]
     IN  /\ sourceline' = saved[c].line
         /\ source' = saved[c].src
         /\ SetContext(c)
  /\ level' = level - 1
  /\ status' = [status EXCEPT ![curr] = "popped"]
  /\ UNCHANGED <<prev, saved, pool, held, pushedWith, srcvars, symtab, symlist,
                 instfn, owner>>

(* The parser moving on in the current source.                            *)
Scan(l, f) ==
  /\ sourceline' = l
  /\ source' = f
  /\ UNCHANGED <<curr, prev, level, saved, pools, pool, status, held, pushedWith,
                 srcvars, symvars>>

(* bcalloc in the current context, from the pool `pools` points at.       *)
Alloc(s) ==
  /\ BP!CanAlloc(pool[pools], s)
  /\ LET r == BP!BcAlloc(pool[pools], s)
     IN  /\ pool' = [pool EXCEPT ![pools] = r.pool]
         /\ held' = [held EXCEPT ![curr] = @ \cup {r.cp}]
  /\ UNCHANGED <<curr, prev, level, sourceline, source, saved, pools, status,
                 pushedWith, srcvars, symvars>>

(* bcfree of an instruction of the current context.                       *)
Free(cp) ==
  /\ pool' = [pool EXCEPT ![pools] = BP!BcFree(@, cp)]
  /\ held' = [held EXCEPT ![curr] = @ \ {cp}]
  /\ UNCHANGED <<curr, prev, level, sourceline, source, saved, pools, status,
                 pushedWith, srcvars, symvars>>

(* add_srcfile (awkgram.y) putting a new SRCFILE on the list the global  *)
(* srcfiles points at, the current context's (set_context moves it).       *)
AddSrcfile(sf) ==
  /\ sf \notin srcheap
  /\ srcfiles' = [srcfiles EXCEPT ![curr] = Append(@, sf)]
  /\ srcheap' = srcheap \cup {sf}
  /\ UNCHANGED <<curr, prev, level, sourceline, source, saved, pools, pool, status,
                 held, pushedWith, symvars>>

(* The SRCFILEs a walk of the circular list l frees: position 0 is the    *)
(* head embedded in the context, 1 .. Len(l) the entries; the walk starts *)
(* at `from` and stops on reaching the head.                               *)
RECURSIVE SrcWalk(_, _)
SrcWalk(l, from) ==
  IF from = 0 THEN {} ELSE {l[from]} \cup SrcWalk(l, IF from = Len(l) THEN 0 ELSE from + 1)

(* free_context's srcfiles loop: for (s = & ctxt->srcfiles;               *)
(* s != & ctxt->srcfiles; ...) starts on the head itself.                   *)
SrcfilesFreed(l) == SrcWalk(l, 0)

(* install() of a global variable the parser did not find (lookup):     *)
(* into symbol_table, then install_func(r) when  it is append_symbol,   *)
(* which pushes r on the front of the list symbol_list points at.         *)
Install(n) ==
  /\ n \notin symtab
  /\ symtab' = symtab \cup {n}
  /\ IF install_func
     THEN /\ symlist' = [symlist EXCEPT ![symbol_list] = <<n>> \o @]
          /\ owner' = [owner EXCEPT ![n] = curr]
     ELSE UNCHANGED <<symlist, owner>>
  /\ UNCHANGED <<curr, prev, level, sourceline, source, saved, pools, pool, status,
                 held, pushedWith, srcvars, instfn, install_func, symbol_list>>

(* release_symbols(&ctxt->symbols, keep_globals): without keep_globals    *)
(* destroy_symbol removes each listed name from symbol_table              *)
(* (remove_symbol); the list nodes are freed either way.                   *)
ReleaseSymbols(c, keep) ==
  LET listed == {symlist[c][i] : i \in DOMAIN symlist[c]}
  IN  /\ symtab' = IF keep THEN symtab ELSE symtab \ listed
      /\ owner' = [n \in SymNames |-> IF n \in listed THEN NoCtx ELSE owner[n]]
      /\ symlist' = [symlist EXCEPT ![c] = <<>>]

(* free_context(ctxt, keep_globals) of a live context, whose only check  *)
(* is assert(curr_ctxt != ctxt): free_bcpool releases its instructions,    *)
(* release_symbols its symbol list, the srcfiles loop frees what it       *)
(* walks, then the context is freed.                                       *)
FreeContext(c, keep) ==
  /\ status[c] # "free"
  /\ c # curr
  /\ status' = [status EXCEPT ![c] = "free"]
  /\ ReleaseSymbols(c, keep)
  /\ srcheap' = srcheap \ SrcfilesFreed(srcfiles[c])
  /\ UNCHANGED <<curr, prev, level, sourceline, source, saved, pools, pool, held,
                 pushedWith, srcfiles, instfn, install_func, symbol_list>>

Next ==
  \/ \E c \in Ctx, fn \in InstallFns : NewContext(c, fn)
  \* The callers of free_context (debug.c's do_eval and parse_condition,
  \* not in this repository) free only the context they have just popped.
  \/ \E c \in Ctx, keep \in BOOLEAN : status[c] = "popped" /\ FreeContext(c, keep)
  \/ \E c \in Ctx : PushContext(c)
  \/ \E n \in SymNames : Install(n)
  \/ PopContext
  \/ \E l \in Lines, f \in Srcs : Scan(l, f)
  \/ \E sf \in Srcs : AddSrcfile(sf)
  \/ \E s \in 1 .. MaxAlloc : Alloc(s)
  \/ \E cp \in held[curr] : Free(cp)

Spec == Init /\ [][Next]_vars

-----------------------------------------------------------------------------
RECURSIVE Depth(_)
Depth(c) == IF c = NoCtx THEN 0 ELSE 1 + Depth(prev[c])

(* ctxt_level, kept by push and pop apart from the prev chain, is the     *)
(* depth of the stack, so in_main_context (ctxt_level == 1) holds exactly *)
(* in the main context.                                                    *)
LevelIsDepth ==
  /\ level = Depth(curr)
  /\ (level = 1) <=> (curr = Main)

(* pop_context restores the sourceline and source that were current when  *)
(* the popped context was pushed, at every depth of nesting.              *)
SourceRestored ==
  [][level' < level =>
       sourceline' = pushedWith[curr].line /\ source' = pushedWith[curr].src]_vars

(* Every context's pool holds exactly the instructions allocated and not  *)
(* freed while it was current: what free_context(ctxt) releases is what   *)
(* that context's code allocated, however contexts were pushed and popped *)
(* in between.                                                             *)
PoolsFollowContext ==
  \A c \in Ctx : status[c] # "free" => BP!FreeBcPool(pool[c]) = held[c]

(* Each context's symbol list names exactly the symbols still in         *)
(* symbol_table that its code installed while append_symbol was its        *)
(* install_func: release_symbols(&ctxt->symbols) in free_context destroys  *)
(* what that context's code added and nothing another context added, over *)
(* nested evaluations and the reuse of freed contexts.                      *)
SymbolsFollowContext ==
  \A c \in Ctx : status[c] # "free" =>
    {symlist[c][i] : i \in DOMAIN symlist[c]} = {n \in symtab : owner[n] = c}

(* free_context releases the SRCFILEs of the context it frees: once every *)
(* context but main is freed, no SRCFILE is left but main's own.           *)
NoSrcfileLeak ==
  (\A c \in Ctx \ {Main} : status[c] = "free") => srcheap \subseteq {srcfiles[Main][i] : i \in DOMAIN srcfiles[Main]}

=============================================================================
