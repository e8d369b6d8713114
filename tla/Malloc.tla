------------------------------- MODULE Malloc ------------------------------
(***************************************************************************)
(* malloc, calloc, realloc and free (threads/malloc.c).  A page is an      *)
(* arena of blocks of one descriptor, or part of a big block.  Sizes count *)
(* units of memory; a block is known by its address.  The page allocator   *)
(* is the one of Palloc, with the call as one step.                        *)
(***************************************************************************)
EXTENDS Integers, SequencesExt

CONSTANTS
  HeapThread,        (* threads                                             *)
  PAGE,              (* PGSIZE                                              *)
  HEADER,            (* sizeof (struct arena)                               *)
  SMALLEST,          (* size of the smallest block: 16 in the code          *)
  HeapPages,         (* pages of the kernel pool                            *)
  SizeWrap,          (* size_t counts modulo SizeWrap                       *)
  Sizes,             (* sizes that are asked for                            *)
  Callocs,           (* pairs of arguments of calloc                        *)
  MaxBlocks,         (* bound on the blocks of a thread                     *)
  NoHolder

ASSUME MallocAssumption == HEADER \in 1..(PAGE - 1) /\ SMALLEST \in Nat \ {0} /\ SMALLEST < PAGE

VARIABLES
  arena,             (* headers: arena[p].kind "none", "small", "big",      *)
                     (* "rest" of a big block; desc and free_cnt            *)
  free_list,         (* free blocks of each descriptor                      *)
  desc_lock,
  mpc,               (* where a thread is                                   *)
  call,              (* size asked for, block that is freed or resized      *)
  blocks             (* blocks a thread has, with the size malloc was asked *)
                     (* for                                                 *)

mallocVars == <<arena, free_list, desc_lock, mpc, call, blocks>>

HeapPage == 0..(HeapPages - 1)

(* malloc_init: block sizes double as long as they are below half a page. *)
Descs == {SMALLEST * 2^i : i \in {n \in 0..10 : SMALLEST * 2^n < PAGE \div 2}}
blocks_per_arena(d) == (PAGE - HEADER) \div d

NoArena == [kind |-> "none", desc |-> 0, free_cnt |-> 0]
NoCall == [size |-> 0, old |-> -1, copied |-> 0]

MallocInit ==
  /\ arena = [p \in HeapPage |-> NoArena]
  /\ free_list = [d \in Descs |-> <<>>]
  /\ desc_lock = [d \in Descs |-> NoHolder]
  /\ mpc = [t \in HeapThread |-> "idle"] /\ call = [t \in HeapThread |-> NoCall]
  /\ blocks = [t \in HeapThread |-> {}]

Goes(t, l) == mpc' = [mpc EXCEPT ![t] = l]

block_to_arena(b) == b \div PAGE
arena_to_block(p, idx, d) == p * PAGE + HEADER + idx * d
Arena(p, d) == [i \in 1..blocks_per_arena(d) |-> arena_to_block(p, i - 1, d)]

(* palloc_get_multiple of the kernel pool: the first group of free pages. *)
Group(p, n) == p..(p + n - 1)
Places(n) == {p \in HeapPage : p + n <= HeapPages /\ \A q \in Group(p, n) : arena[q].kind = "none"}
First_place(n) == CHOOSE p \in Places(n) : \A q \in Places(n) : p <= q

Fitting(size) == {d \in Descs : d >= size}
DescFor(size) == CHOOSE d \in Fitting(size) : \A e \in Fitting(size) : d <= e

(* DIV_ROUND_UP, whose sum is taken modulo SizeWrap. *)
pages_for(size) == ((size + HEADER + PAGE - 1) % SizeWrap) \div PAGE

(* The call returns a block, or null: a realloc goes on to copy and to     *)
(* free the old block.                                                     *)
Block(b, c) == [addr |-> b, size |-> c.size]

(* block_size *)
block_size(b) ==
  LET a == arena[block_to_arena(b)] IN IF a.kind = "small" THEN a.desc ELSE PAGE * a.free_cnt - (b % PAGE)

CopySize(new, old) == IF new < old THEN new ELSE old

Returns(t, b) ==
  /\ blocks' = [blocks EXCEPT ![t] = @ \cup {Block(b, call[t])}]
  /\ IF call[t].old = -1 THEN call' = [call EXCEPT ![t] = NoCall] /\ Goes(t, "idle")
     ELSE /\ call' = [call EXCEPT ![t].copied = CopySize(call[t].size, block_size(call[t].old))]
          /\ Goes(t, "copied")

ReturnsNull(t) == call' = [call EXCEPT ![t] = NoCall] /\ Goes(t, "idle") /\ UNCHANGED blocks

Asks(t, size, old) ==
  /\ mpc[t] = "idle" /\ size # 0 /\ Cardinality(blocks[t]) < MaxBlocks
  /\ call' = [call EXCEPT ![t] = [size |-> size, old |-> old, copied |-> 0]]
  /\ Goes(t, IF Fitting(size) = {} THEN "big" ELSE "lock")
  /\ UNCHANGED <<arena, free_list, desc_lock, blocks>>

malloc(t, size) == Asks(t, size, -1)

(* calloc: the product is taken modulo SizeWrap. *)
calloc(t, a, b) ==
  \E size \in {(a * b) % SizeWrap} : size >= a /\ size >= b /\ Asks(t, size, -1)

realloc(t, b, size) == Asks(t, size, b.addr)

(* malloc of a big block. *)
malloc_big(t) ==
  /\ mpc[t] = "big"
  /\ \E n \in {pages_for(call[t].size)} :
       IF Places(n) = {} THEN ReturnsNull(t) /\ UNCHANGED arena
       ELSE \E p \in {First_place(n)} :
         /\ arena' = [q \in HeapPage |-> CASE q = p -> [kind |-> "big", desc |-> 0, free_cnt |-> n]
                                           [] q # p /\ q \in Group(p, n) -> [NoArena EXCEPT !.kind = "rest"]
                                           [] OTHER -> arena[q]]
         /\ Returns(t, p * PAGE + HEADER)
  /\ UNCHANGED <<free_list, desc_lock>>

LockDesc(t, d) == desc_lock[d] = NoHolder /\ desc_lock' = [desc_lock EXCEPT ![d] = t]

malloc_lock(t) ==
  /\ mpc[t] = "lock" /\ LockDesc(t, DescFor(call[t].size))
  /\ Goes(t, "take")
  /\ UNCHANGED <<arena, free_list, call, blocks>>

(* The free list is filled from a new arena when it is empty, and its      *)
(* first block is taken.                                                   *)
malloc_take(t) ==
  /\ mpc[t] = "take"
  /\ \E d \in {DescFor(call[t].size)} :
       /\ desc_lock' = [desc_lock EXCEPT ![d] = NoHolder]
       /\ IF free_list[d] # <<>>
          THEN /\ free_list' = [free_list EXCEPT ![d] = Tail(@)]
               /\ arena' = [arena EXCEPT ![block_to_arena(Head(free_list[d]))].free_cnt = @ - 1]
               /\ Returns(t, Head(free_list[d]))
          ELSE IF Places(1) = {} THEN ReturnsNull(t) /\ UNCHANGED <<arena, free_list>>
          ELSE \E p \in {First_place(1)} :
                 /\ arena' = [arena EXCEPT ![p] = [kind |-> "small", desc |-> d, free_cnt |-> blocks_per_arena(d) - 1]]
                 /\ free_list' = [free_list EXCEPT ![d] = Tail(Arena(p, d))]
                 /\ Returns(t, Head(Arena(p, d)))

(* free, from its caller or from realloc.  A big block goes at once; a     *)
(* small one is overwritten, then the lock of its descriptor is needed.    *)
Frees(t, b) ==
  /\ blocks' = [blocks EXCEPT ![t] = {x \in @ : x.addr # b}]
  /\ \E p \in {block_to_arena(b)} :
       IF arena[p].kind = "big"
       THEN /\ arena' = [q \in HeapPage |-> IF q \in Group(p, arena[p].free_cnt) THEN NoArena ELSE arena[q]]
            /\ call' = [call EXCEPT ![t] = NoCall] /\ Goes(t, "idle")
       ELSE /\ call' = [call EXCEPT ![t] = [NoCall EXCEPT !.old = b]] /\ Goes(t, "free")
            /\ UNCHANGED arena
  /\ UNCHANGED <<free_list, desc_lock>>

free(t, b) == mpc[t] = "idle" /\ Frees(t, b.addr)

realloc_copied(t) == mpc[t] = "copied" /\ Frees(t, call[t].old)

free_lock(t) ==
  /\ mpc[t] = "free" /\ LockDesc(t, arena[block_to_arena(call[t].old)].desc)
  /\ Goes(t, "give")
  /\ UNCHANGED <<arena, free_list, call, blocks>>

(* Faulty variant: the blocks of the arena stay on the free list. *)
WithoutArena_not(list, p) == list

WithoutArena(list, p) == SelectSeq(list, LAMBDA b : block_to_arena(b) # p)

Unused(n, d) == n >= blocks_per_arena(d)

free_give(t) ==
  /\ mpc[t] = "give"
  /\ \E b \in {call[t].old} : \E p \in {block_to_arena(b)} : \E d \in {arena[p].desc}, n \in {arena[p].free_cnt + 1} :
       /\ desc_lock' = [desc_lock EXCEPT ![d] = NoHolder]
       /\ IF Unused(n, d)
          THEN /\ free_list' = [free_list EXCEPT ![d] = WithoutArena(<<b>> \o @, p)]
               /\ arena' = [arena EXCEPT ![p] = NoArena]
          ELSE /\ free_list' = [free_list EXCEPT ![d] = <<b>> \o @]
               /\ arena' = [arena EXCEPT ![p].free_cnt = n]
  /\ call' = [call EXCEPT ![t] = NoCall] /\ Goes(t, "idle")
  /\ UNCHANGED blocks

MallocNext ==
  \E t \in HeapThread :
    \/ \E size \in Sizes : malloc(t, size) \/ \E b \in blocks[t] : realloc(t, b, size)
    \/ \E c \in Callocs : calloc(t, c[1], c[2])
    \/ malloc_big(t) \/ malloc_lock(t) \/ malloc_take(t)
    \/ \E b \in blocks[t] : free(t, b)
    \/ realloc_copied(t) \/ free_lock(t) \/ free_give(t)

-----------------------------------------------------------------------------
(* Properties *)

Live == UNION {blocks[t] : t \in HeapThread}
Extent(b) == b.addr..(b.addr + b.size - 1)
FreeBlocks(p) == {b \in UNION {Range(free_list[d]) : d \in Descs} : block_to_arena(b) = p}

(* Blocks that threads have do not overlap each other, the headers of      *)
(* arenas or blocks on the free lists, and their pages are allocated, also *)
(* while arenas are made and given back by several threads.                *)
BlocksApart ==
  /\ \A t, u \in HeapThread : \A b \in blocks[t], c \in blocks[u] :
       <<t, b>> # <<u, c>> => Extent(b) \cap Extent(c) = {}
  /\ \A b \in Live : \A x \in Extent(b) :
       /\ arena[x \div PAGE].kind \in {"small", "big", "rest"}
       /\ arena[x \div PAGE].kind # "rest" => x % PAGE >= HEADER
       /\ \A f \in FreeBlocks(x \div PAGE) : x \notin f..(f + arena[x \div PAGE].desc - 1)

(* Blocks that threads of the heap have taken or are about to give. *)
InUse(p) == {b \in Live : block_to_arena(b.addr) = p}
Giving(p) == {t \in HeapThread : mpc[t] \in {"free", "give"} /\ block_to_arena(call[t].old) = p}

(* free_cnt of an arena counts its blocks on the free list, the others are *)
(* in use, and an arena without blocks in use has been given back.         *)
ArenasCounted ==
  \A p \in HeapPage :
    /\ arena[p].kind = "small" =>
         /\ arena[p].free_cnt = Cardinality(FreeBlocks(p))
         /\ blocks_per_arena(arena[p].desc) - arena[p].free_cnt = Cardinality(InUse(p)) + Cardinality(Giving(p))
         /\ arena[p].free_cnt < blocks_per_arena(arena[p].desc)
    /\ arena[p].kind # "small" => FreeBlocks(p) = {}

(* realloc copies no more than fits into the new block and no more than    *)
(* the old block has.                                                      *)
CopiesInside ==
  \A t \in HeapThread :
    mpc[t] = "copied" => call[t].copied <= call[t].size /\ call[t].copied <= block_size(call[t].old)

(* The heap is sound: BlocksApart, ArenasCounted and CopiesInside. *)
HeapSound == BlocksApart /\ ArenasCounted /\ CopiesInside
=============================================================================
