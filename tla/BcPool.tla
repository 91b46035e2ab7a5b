------------------------------- MODULE BcPool -------------------------------
(***************************************************************************)
(* The instruction memory pool of symbol.c (bcalloc, bcfree, and the walk *)
(* of free_bcpool/free_bc_mempool).  An INSTRUCTION_POOL has one          *)
(* instruction_mem_pool per allocation size 1 .. MAX_INSTRUCTION_ALLOC;   *)
(* each has a list of blocks of INSTR_CHUNK instructions (newest first),  *)
(* free_space (the first unused instruction of the newest block, or NULL) *)
(* and a free_list of freed instructions.                                  *)
(*                                                                         *)
(* Block b of the pool for size s is the b-th block allocated for it; an  *)
(* instruction is identified by <<s, b, offset>>.  op records the opcode  *)
(* word of every instruction handed out: "live" (some opcode), or        *)
(* "illegal" (Op_illegal, set by bcfree).  A slot never handed out has   *)
(* no op: its contents are whatever emalloc left there.                    *)
(***************************************************************************)
EXTENDS Naturals, Sequences, SequencesExt, FiniteSets

CONSTANTS
  MaxAlloc,    \* MAX_INSTRUCTION_ALLOC (awk.h)
  Chunk,       \* INSTR_CHUNK (2*3*21 in the code; scaled down here)
  MaxBlocks    \* bound on the blocks of one size pool

NULL == -1     \* free_space before the first block

Sizes == 1 .. MaxAlloc

EmptyMemPool == [nblocks |-> 0, free_space |-> NULL, free_list |-> <<>>,
                 op |-> [a \in {} |-> "live"]]

(* An ezalloc'ed INSTRUCTION_POOL (new_context zeroes the context).       *)
EmptyPool == [s \in Sizes |-> EmptyMemPool]

(* The slot bcalloc takes from pool q of size s, and q after it: the      *)
(* head of the free list, else free_space if size more instructions fit   *)
(* in the newest block, else the start of a new block.                    *)
Room(q, s) == q.free_space # NULL /\ q.free_space + s <= Chunk

(* Seeded-bug variants: the pointer popped off the free list is not      *)
(* unlinked; the room test made on the first instruction only.            *)
TakeNoUnlink(q, s) ==
  CASE q.free_list # <<>> ->
         [q |-> q, cp |-> Head(q.free_list)]
    [] Room(q, s) ->
         [q |-> [q EXCEPT !.free_space = @ + s], cp |-> <<q.nblocks, q.free_space>>]
    [] OTHER ->
         [q |-> [q EXCEPT !.nblocks = @ + 1, !.free_space = s],
          cp |-> <<q.nblocks + 1, 0>>]
TakeStartFits(q, s) ==
  CASE q.free_list # <<>> ->
         [q |-> [q EXCEPT !.free_list = Tail(@)], cp |-> Head(q.free_list)]
    [] q.free_space # NULL /\ q.free_space < Chunk ->
         [q |-> [q EXCEPT !.free_space = @ + s], cp |-> <<q.nblocks, q.free_space>>]
    [] OTHER ->
         [q |-> [q EXCEPT !.nblocks = @ + 1, !.free_space = s],
          cp |-> <<q.nblocks + 1, 0>>]

Take(q, s) ==
  CASE q.free_list # <<>> ->
         [q |-> [q EXCEPT !.free_list = Tail(@)], cp |-> Head(q.free_list)]
    [] Room(q, s) ->
         [q |-> [q EXCEPT !.free_space = @ + s], cp |-> <<q.nblocks, q.free_space>>]
    [] OTHER ->
         [q |-> [q EXCEPT !.nblocks = @ + 1, !.free_space = s],
          cp |-> <<q.nblocks + 1, 0>>]

(* bcalloc can proceed without a block beyond the bound.                  *)
CanAlloc(p, s) ==
  p[s].free_list # <<>> \/ Room(p[s], s) \/ p[s].nblocks < MaxBlocks

(* bcalloc(op, size): the taken slot, its opcode set (memset and          *)
(* cp->opcode = op); the result is the new pool and the instruction.      *)
BcAllocFrom(p, s, t) ==
  [pool |-> [p EXCEPT ![s] = [t.q EXCEPT !.op = (t.cp :> "live") @@ @]],
   cp   |-> <<s>> \o t.cp]
BcAlloc(p, s) == BcAllocFrom(p, s, Take(p[s], s))

(* Seeded-bug variant: bcfree without cp->opcode = Op_illegal.            *)
BcFreeKeepOp(p, cp) ==
  [p EXCEPT ![cp[1]].free_list = <<Tail(cp)>> \o @]

(* bcfree(cp): Op_illegal, pushed on the free list of its size.           *)
BcFree(p, cp) ==
  [p EXCEPT ![cp[1]].op[Tail(cp)] = "illegal",
            ![cp[1]].free_list = <<Tail(cp)>> \o @]

(* What free_bc_mempool reads as the opcode at offset off of block b.     *)
OpAt(q, b, off) == IF <<b, off>> \in DOMAIN q.op THEN q.op[<<b, off>>] ELSE "garbage"

(* free_bc_mempool(pool, size): every size-aligned instruction of every  *)
(* block, up to free_space in the newest one and to the end in the       *)
(* others, whose opcode is not Op_illegal goes to free_bc_internal.       *)
WalkEnd(q, b) == IF b = q.nblocks THEN q.free_space ELSE Chunk
WalkVisits(q, s) ==
  {cp \in {<<s, b, k * s>> : b \in 1 .. q.nblocks, k \in 0 .. Chunk} :
     /\ cp[3] + s <= WalkEnd(q, cp[2])
     /\ OpAt(q, cp[2], cp[3]) # "illegal"}

(* free_bcpool: the instructions whose internals are freed.               *)
FreeBcPool(p) == UNION {WalkVisits(p[s], s) : s \in Sizes}

-----------------------------------------------------------------------------
(* One pool and the instructions its callers hold.  Callers bcfree only   *)
(* what they hold (the assert on pool_size is all bcfree checks).          *)
VARIABLES
  pool,    \* the INSTRUCTION_POOL
  held     \* instructions allocated and not yet freed

vars == <<pool, held>>

Init ==
  /\ pool = EmptyPool
  /\ held = {}

Alloc(s) ==
  /\ CanAlloc(pool, s)
  /\ LET r == BcAlloc(pool, s)
     IN  /\ pool' = r.pool
         /\ held' = held \cup {r.cp}

Free(cp) ==
  /\ pool' = BcFree(pool, cp)
  /\ held' = held \ {cp}

Next ==
  \/ \E s \in Sizes : Alloc(s)
  \/ \E cp \in held : Free(cp)

Spec == Init /\ [][Next]_vars

Addr == {<<b, off>> : b \in 1 .. MaxBlocks, off \in 0 .. Chunk - 1}

(* bcalloc hands out each instruction of size s as s consecutive slots   *)
(* inside one block (the room test "free_space + size <= &i[INSTR_CHUNK]")*)
(* and never two overlapping ones, across any mix of allocations, frees   *)
(* and reuse from the free list.                                           *)
NoOverlap ==
  \A s \in Sizes : \A a, b \in DOMAIN pool[s].op :
    /\ a[2] + s <= Chunk
    /\ a # b /\ a[1] = b[1] => a[2] + s <= b[2] \/ b[2] + s <= a[2]

(* The free list of each size holds each freed instruction once and       *)
(* nothing a caller still holds: bcalloc unlinks what it reuses.          *)
FreeListExact ==
  \A s \in Sizes :
    /\ IsInjective(pool[s].free_list)
    /\ ToSet(pool[s].free_list) = {a \in DOMAIN pool[s].op : pool[s].op[a] = "illegal"}
    /\ \A a \in ToSet(pool[s].free_list) : <<s>> \o a \notin held

(* free_bcpool, whenever the context is freed, releases the internals of  *)
(* exactly the instructions still allocated: freed ones are skipped by    *)
(* their Op_illegal, and the walk never reads a slot bcalloc never handed *)
(* out (the newest block is walked only up to free_space).                 *)
WalkExact == FreeBcPool(pool) = held

=============================================================================
