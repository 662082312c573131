-------------------------------- MODULE Heap --------------------------------
(***************************************************************************)
(* The kernel heap of memory.c: a first-fit allocator over the static      *)
(* array heap_memory, whose blocks form a list linked through headers that *)
(* live in the same array as the payloads.                                 *)
(*                                                                         *)
(* An address is an offset into heap_memory.  The list is the function     *)
(* blocks from the address of each linked header to its fields; mem is     *)
(* the array itself, cell by cell, in which writing a header overwrites    *)
(* Hdr cells with HdrCell, so a header written over a payload is seen as   *)
(* damage to that payload and a payload written over a header as damage to *)
(* that header.  live is what the callers hold: pointer -> bytes asked     *)
(* for, which for calloc is the product of its arguments as the caller     *)
(* understands it, whatever a size_t makes of it.  A caller who fills a    *)
(* block that calloc granted for a wrapped product writes beyond it, into  *)
(* the headers of others (overrun); where the walks of the list lead from  *)
(* then on is not followed any further.                                    *)
(*                                                                         *)
(* The heap is called from one context only (kmain and, through            *)
(* uacpi_kernel_alloc, uACPI at boot; no interrupt handler allocates), so  *)
(* each call is one action.                                                *)
(*                                                                         *)
(* An operator introduced as a faulty variant is no part of the model: it  *)
(* is what a plausible slip would make of the operator that follows it,    *)
(* kept to see that the properties tell the two apart.                     *)
(***************************************************************************)
EXTENDS Integers, FiniteSets, Functions

CONSTANTS
    HeapSize,   \* HEAP_SIZE
    Hdr,        \* sizeof(block_t)
    SizeMod,    \* 2^w for a size_t of w bits
    NULL,       \* the null pointer
    Byte,       \* values a payload cell may hold
    HdrCell,    \* what a cell holds when it is part of a header
    Sizes       \* sizes the callers ask for

ASSUME HeapAssumption ==
    /\ Hdr \in Nat \ {0}
    /\ HeapSize \in Nat /\ HeapSize > Hdr
    /\ SizeMod \in Nat /\ HeapSize < SizeMod
    /\ NULL \notin Int
    /\ 0 \in Byte
    /\ HdrCell \notin Byte
    /\ Sizes \subseteq 0..(SizeMod - 1)

VARIABLES
    heap_start, \* NULL until init_heap, then the address of the first block
    blocks,     \* address of a linked header -> its fields
    mem,        \* the cells of heap_memory
    live,       \* pointers the callers hold -> bytes they asked for
    overrun     \* a caller has filled more than calloc granted it

vars == <<heap_start, blocks, mem, live, overrun>>

Addr == 0..(HeapSize - 1)
Cells == Byte \cup {HdrCell}
Block == [size : Nat, is_free : BOOLEAN, next : Addr \cup {NULL}]

\* The first cell after block a.
End(h, a) == a + Hdr + h[a].size

Span(p, n) == p..(p + n - 1)

----------------------------------------------------------------------------
(* Cells.                                                                  *)

WriteHeader(m, a) ==
    [x \in Addr |-> IF x \in Span(a, Hdr) THEN HdrCell ELSE m[x]]

memset(m, p, c, n) ==
    [x \in Addr |-> IF x \in Span(p, n) THEN c ELSE m[x]]

memcpy(m, dest, src, n) ==
    [x \in Addr |-> IF x \in Span(dest, n) THEN m[src + (x - dest)] ELSE m[x]]

----------------------------------------------------------------------------
(* The free list.                                                          *)

\* init_heap: one free block that spans the array.
InitialBlocks ==
    [a \in {0} |-> [size |-> HeapSize - Hdr, is_free |-> TRUE, next |-> NULL]]

\* Faulty variant: > where the code has >=.
Fits_strict(h, size) == {a \in DOMAIN h : h[a].is_free /\ h[a].size > size}

Fits(h, size) == {a \in DOMAIN h : h[a].is_free /\ h[a].size >= size}

\* Faulty variant: the last block that fits.
find_free_block_last(h, size) ==
    IF Fits(h, size) = {} THEN NULL
    ELSE CHOOSE a \in Fits(h, size) : \A b \in Fits(h, size) : b <= a

\* The walk from heap_start stops at the first block that fits; the list is
\* in address order (Tiles), so that is the lowest one.
find_free_block(h, size) ==
    IF Fits(h, size) = {} THEN NULL
    ELSE CHOOSE a \in Fits(h, size) : \A b \in Fits(h, size) : a <= b

\* block->is_free = f.
Mark(h, a, f) ==
    [h EXCEPT ![a] = [size |-> h[a].size, is_free |-> f, next |-> h[a].next]]

\* Faulty variant: the new block's header is not paid for.
Splits_unpaid(h, a, size) == h[a].size > size

\* Cut block a after size cells when what is left over can hold a header and
\* at least one cell.
Splits(h, a, size) == h[a].size > size + Hdr

\* Faulty variant: the leftover is not reduced by the new header.
split_block_oversized(h, a, size) ==
    LET n == a + Hdr + size
    IN  IF Splits(h, a, size)
        THEN [b \in DOMAIN h \cup {n} |->
                IF b = n THEN [size    |-> h[a].size - size,
                               is_free |-> TRUE,
                               next    |-> h[a].next]
                ELSE IF b = a THEN [size    |-> size,
                                    is_free |-> h[a].is_free,
                                    next    |-> n]
                ELSE h[b]]
        ELSE h

split_block(h, a, size) ==
    LET n == a + Hdr + size
    IN  IF Splits(h, a, size)
        THEN [b \in DOMAIN h \cup {n} |->
                IF b = n THEN [size    |-> h[a].size - size - Hdr,
                               is_free |-> TRUE,
                               next    |-> h[a].next]
                ELSE IF b = a THEN [size    |-> size,
                                    is_free |-> h[a].is_free,
                                    next    |-> n]
                ELSE h[b]]
        ELSE h

\* Free blocks that follow a free block: coalesce unlinks them.
Absorbed(h) ==
    {a \in DOMAIN h :
        /\ h[a].is_free
        /\ \E p \in DOMAIN h : h[p].is_free /\ h[p].next = a}

\* The last block of the run of free blocks that starts at a.
RunEnd(h, a) ==
    CHOOSE e \in DOMAIN h :
        /\ a <= e
        /\ \A b \in DOMAIN h : a <= b /\ b <= e => h[b].is_free
        /\ h[e].next # NULL => ~h[h[e].next].is_free

\* Faulty variant: a merge does not count the header it swallows.
coalesce_lossy(h) ==
    [a \in DOMAIN h \ Absorbed(h) |->
        IF h[a].is_free
        THEN [size    |-> End(h, RunEnd(h, a)) - a - Hdr
                            - (IF RunEnd(h, a) = a THEN 0 ELSE Hdr),
              is_free |-> TRUE,
              next    |-> h[RunEnd(h, a)].next]
        ELSE h[a]]

\* One pass from heap_start in which every run of free blocks collapses into
\* its first block.  The loop adds size + sizeof(block_t) of each absorbed
\* block; these are adjacent, so the sum is the distance to the run's end.
coalesce(h) ==
    [a \in DOMAIN h \ Absorbed(h) |->
        IF h[a].is_free
        THEN [size    |-> End(h, RunEnd(h, a)) - a - Hdr,
              is_free |-> TRUE,
              next    |-> h[RunEnd(h, a)].next]
        ELSE h[a]]

----------------------------------------------------------------------------
(* The calls, as functions of the list and the cells: a record of the      *)
(* pointer returned, the list and the cells after the call.                *)

malloc(h, m, size) ==
    LET a == find_free_block(h, size)
    IN  IF size = 0 \/ a = NULL
        THEN [ptr |-> NULL, blocks |-> h, mem |-> m]
        ELSE [ptr    |-> a + Hdr,
              blocks |-> Mark(split_block(h, a, size), a, FALSE),
              mem    |-> IF Splits(h, a, size)
                         THEN WriteHeader(m, a + Hdr + size) ELSE m]

\* Faulty variant: no coalescing.
free_only(h, p) == Mark(h, p - Hdr, TRUE)

free(h, p) == coalesce(Mark(h, p - Hdr, TRUE))

\* Faulty variant: malloc sees the wrapped product and memset the whole one.
calloc_unwrapped(h, m, num, size) ==
    LET r == malloc(h, m, (num * size) % SizeMod)
    IN  IF r.ptr = NULL THEN r
        ELSE [ptr    |-> r.ptr,
              blocks |-> r.blocks,
              mem    |-> memset(r.mem, r.ptr, 0, num * size)]

\* total_size is a size_t product.
calloc(h, m, num, size) ==
    LET total == (num * size) % SizeMod
        r     == malloc(h, m, total)
    IN  IF r.ptr = NULL THEN r
        ELSE [ptr    |-> r.ptr,
              blocks |-> r.blocks,
              mem    |-> memset(r.mem, r.ptr, 0, total)]

\* Faulty variants: the old block is not freed; one cell is not copied.
realloc_move_leaks(h, m, p, size) ==
    LET r == malloc(h, m, size)
    IN  IF r.ptr = NULL THEN r
        ELSE [ptr    |-> r.ptr,
              blocks |-> r.blocks,
              mem    |-> memcpy(r.mem, r.ptr, p, h[p - Hdr].size)]

realloc_move_short(h, m, p, size) ==
    LET r == malloc(h, m, size)
    IN  IF r.ptr = NULL THEN r
        ELSE [ptr    |-> r.ptr,
              blocks |-> free(r.blocks, p),
              mem    |-> memcpy(r.mem, r.ptr, p, h[p - Hdr].size - 1)]

\* realloc that has to move: p and size are not null and the block is too
\* small.  copy_size is the old block's whole payload.
realloc_move(h, m, p, size) ==
    LET r == malloc(h, m, size)
    IN  IF r.ptr = NULL THEN r
        ELSE [ptr    |-> r.ptr,
              blocks |-> free(r.blocks, p),
              mem    |-> memcpy(r.mem, r.ptr, p, h[p - Hdr].size)]

----------------------------------------------------------------------------
(* Bookkeeping of what the callers hold.                                   *)

Holds(l, p, n) == [q \in DOMAIN l \cup {p} |-> IF q = p THEN n ELSE l[q]]
Drops(l, p) == Restrict(l, DOMAIN l \ {p})

\* The list and the cells a call of malloc starts from: malloc initialises
\* the heap when nobody has.
ReadyBlocks == IF heap_start = NULL THEN InitialBlocks ELSE blocks
ReadyMem == IF heap_start = NULL THEN WriteHeader(mem, 0) ELSE mem

\* The caller asked for n bytes and was given r.
Granted(r, n) ==
    /\ blocks' = r.blocks
    /\ mem' = r.mem
    /\ live' = IF r.ptr = NULL THEN live ELSE Holds(live, r.ptr, n)

----------------------------------------------------------------------------
(* Actions.                                                                *)

\* heap_memory is a static array: cleared at load.
Init ==
    /\ heap_start = NULL
    /\ blocks = [a \in {} |-> 0]
    /\ mem = [x \in Addr |-> 0]
    /\ live = [p \in {} |-> 0]
    /\ overrun = FALSE

\* kmain calls it before anything allocates.
init_heap ==
    /\ heap_start = NULL
    /\ heap_start' = 0
    /\ blocks' = InitialBlocks
    /\ mem' = WriteHeader(mem, 0)
    /\ UNCHANGED <<live, overrun>>

\* A size of zero returns before the heap is initialised.
Malloc(n) ==
    IF n = 0 THEN UNCHANGED vars
    ELSE /\ heap_start' = 0
         /\ Granted(malloc(ReadyBlocks, ReadyMem, n), n)
         /\ UNCHANGED overrun

\* total_size goes to malloc unchecked: the caller holds what it was given for
\* num * size bytes, however much of the product a size_t has kept.
Calloc(num, size) ==
    IF (num * size) % SizeMod = 0 THEN UNCHANGED vars
    ELSE /\ heap_start' = 0
         /\ Granted(calloc(ReadyBlocks, ReadyMem, num, size), num * size)
         /\ UNCHANGED overrun

\* free(NULL) and realloc(NULL, n) are an early return and a malloc.
Free(p) ==
    /\ p \in DOMAIN live
    /\ blocks' = free(blocks, p)
    /\ live' = Drops(live, p)
    /\ UNCHANGED <<heap_start, mem, overrun>>

ReallocInPlace(p, n) ==
    /\ p \in DOMAIN live
    /\ n > 0
    /\ blocks[p - Hdr].size >= n
    /\ live' = [live EXCEPT ![p] = n]
    /\ UNCHANGED <<heap_start, blocks, mem, overrun>>

\* When no block can be had the old one is kept and NULL is returned.
ReallocMove(p, n) ==
    LET r == realloc_move(blocks, mem, p, n)
    IN  /\ p \in DOMAIN live
        /\ blocks[p - Hdr].size < n
        /\ blocks' = r.blocks
        /\ mem' = r.mem
        /\ live' = IF r.ptr = NULL THEN live ELSE Holds(Drops(live, p), r.ptr, n)
        /\ UNCHANGED <<heap_start, overrun>>

\* realloc(p, 0) is free(p).
Realloc(p, n) ==
    \/ n = 0 /\ Free(p)
    \/ ReallocInPlace(p, n)
    \/ ReallocMove(p, n)

\* A caller fills what it asked for.  More than a size_t can say is more than
\* it was granted: the array up to its end, headers and all.
ClientWrite(p, c) ==
    /\ p \in DOMAIN live
    /\ mem' = memset(mem, p, c, live[p])
    /\ overrun' = (live[p] >= SizeMod)
    /\ UNCHANGED <<heap_start, blocks, live>>

Call ==
    \/ init_heap
    \/ \E n \in Sizes : Malloc(n)
    \/ \E num, size \in Sizes : Calloc(num, size)
    \/ \E p \in DOMAIN live :
          \/ Free(p)
          \/ \E n \in Sizes : Realloc(p, n)
          \/ \E c \in Byte : ClientWrite(p, c)

\* After an overrun the headers hold what the caller wrote: nothing is said
\* of the calls that follow.
Overrun == overrun /\ UNCHANGED vars

Next ==
    \/ ~overrun /\ Call
    \/ Overrun

Spec == Init /\ [][Next]_vars

----------------------------------------------------------------------------
(* Properties.                                                             *)

TypeOK ==
    /\ heap_start \in {NULL, 0}
    /\ blocks = [a \in DOMAIN blocks |-> blocks[a]]
    /\ DOMAIN blocks \subseteq Addr
    /\ \A a \in DOMAIN blocks : blocks[a] \in Block
    /\ mem \in [Addr -> Cells]
    /\ live = [p \in DOMAIN live |-> live[p]]
    /\ DOMAIN live \subseteq Addr
    /\ \A p \in DOMAIN live : live[p] \in Nat \ {0}
    /\ overrun \in BOOLEAN

\* The linked blocks cover the array from 0 to HeapSize with no gap and no
\* overlap, each block's next is the block that starts where it ends, and no
\* block is empty: what split_block and coalesce must keep between them.
TilesList(h) ==
    /\ 0 \in DOMAIN h
    /\ \A a \in DOMAIN h :
          /\ h[a].size > 0
          /\ End(h, a) <= HeapSize
          /\ End(h, a) < HeapSize => End(h, a) \in DOMAIN h
          /\ h[a].next = IF End(h, a) < HeapSize THEN End(h, a) ELSE NULL
          /\ \A b \in DOMAIN h : a < b => End(h, a) <= b

Tiles == heap_start = 0 => TilesList(blocks)

\* After every call no free block follows a free block, although coalesce
\* runs in free only: malloc and split_block never create such a pair.
NoFreePair(h) ==
    \A a \in DOMAIN h :
        h[a].is_free /\ h[a].next # NULL => ~h[h[a].next].is_free

NoAdjacentFree == NoFreePair(blocks)

\* A block is marked used exactly when a caller holds its payload pointer,
\* and it is at least as large as what that caller asked for, unless that is
\* a product of calloc's arguments beyond every size_t: no leak after a
\* realloc that moved or failed, no live pointer into a free block, and no
\* other way to be granted less than asked.
UsedIsLive ==
    /\ DOMAIN live = {a + Hdr : a \in {b \in DOMAIN blocks : ~blocks[b].is_free}}
    /\ \A p \in DOMAIN live :
          live[p] < SizeMod => live[p] <= blocks[p - Hdr].size

\* No payload write, clear or copy ever reaches the header of a linked block,
\* until a caller has filled what it asked of calloc and a size_t could not
\* hold: nothing but calloc's unchecked product damages the list.
HeadersIntact ==
    ~overrun =>
        \A a \in DOMAIN blocks : \A x \in Span(a, Hdr) : mem[x] = HdrCell

\* When the callers have given everything back, the list is the one block
\* init_heap made: the allocator forgets every history of calls.
EmptyHeapIsWhole ==
    heap_start = 0 /\ DOMAIN live = {} => blocks = InitialBlocks

\* malloc refuses a request only if the used blocks leave no room for it
\* anywhere: no hole of size + sizeof(block_t) cells is lost to the way the
\* list happens to be cut up.
NoFalseExhaustion ==
    heap_start = 0 =>
        \A n \in 1..HeapSize : \A i \in 0..(HeapSize - Hdr - n) :
            (\A a \in DOMAIN blocks : ~blocks[a].is_free =>
                i + Hdr + n <= a \/ End(blocks, a) <= i)
            => Fits(blocks, n) # {}

IInv ==
    /\ TypeOK
    /\ heap_start = NULL => DOMAIN blocks = {}
    /\ Tiles
    /\ NoAdjacentFree
    /\ UsedIsLive
    /\ HeadersIntact

Abstract == INSTANCE Allocator WITH
    ArenaSize <- HeapSize, Cell <- Cells, Zero <- 0, Limit <- SizeMod,
    owned <- live, cells <- mem, trespassed <- overrun

\* The heap is an implementation of Allocator: grants are disjoint from all
\* that is owned, realloc carries the contents over, and no call disturbs a
\* cell somebody else owns, until the holder of a short grant of calloc fills
\* what it asked for.
AllocatorSpec == Abstract!AllocSpec

=============================================================================
