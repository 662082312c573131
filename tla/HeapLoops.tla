------------------------------ MODULE HeapLoops -----------------------------
(***************************************************************************)
(* The loops of memory.c that Heap describes in one formula, written out   *)
(* as they run, and compared with the formulas.  A loop that follows the   *)
(* list is a function of the block it has come to; a loop that changes     *)
(* what it runs over is a function of how many iterations it has made.     *)
(***************************************************************************)
EXTENDS Heap

\* while (current) { if fits return; current = current->next; }
WalkFrom(h, start, size) ==
    LET walk[cur \in DOMAIN h \cup {NULL}] ==
            IF cur = NULL THEN NULL
            ELSE IF h[cur].is_free /\ h[cur].size >= size THEN cur
            ELSE walk[h[cur].next]
    IN  walk[start]

\* current->size += current->next->size + sizeof(block_t);
\* current->next = current->next->next;
Merge(h, cur) ==
    LET nxt == h[cur].next
    IN  [b \in DOMAIN h \ {nxt} |->
            IF b = cur THEN [size    |-> h[cur].size + h[nxt].size + Hdr,
                             is_free |-> h[cur].is_free,
                             next    |-> h[nxt].next]
            ELSE h[b]]

\* One iteration of coalesce on the list h with current in cur, or none when
\* the loop has ended.
Coalesce(s) ==
    LET nxt == s.h[s.cur].next
    IN  IF nxt = NULL THEN s
        ELSE IF s.h[s.cur].is_free /\ s.h[nxt].is_free
             THEN [h |-> Merge(s.h, s.cur), cur |-> s.cur]
        ELSE [h |-> s.h, cur |-> nxt]

\* The list after the loop of coalesce, which has ended after at most HeapSize
\* iterations: each comes to a later end of the block current.
CoalesceFrom(h, start) ==
    LET pass[i \in 0..HeapSize] ==
            IF i = 0 THEN [h |-> h, cur |-> start] ELSE Coalesce(pass[i - 1])
    IN  pass[HeapSize].h

\* The first loop of memmove, and the only one of memcpy.
Ascend(m, dest, src, n) ==
    LET copy[i \in 0..n] ==
            IF i = 0 THEN m
            ELSE [copy[i - 1] EXCEPT ![dest + i - 1] = copy[i - 1][src + i - 1]]
    IN  copy[n]

\* The second loop of memmove.
Descend(m, dest, src, n) ==
    LET copy[i \in 0..n] ==
            IF i = 0 THEN m
            ELSE [copy[i - 1] EXCEPT ![dest + n - i] = copy[i - 1][src + n - i]]
    IN  copy[n]

memmove(m, dest, src, n) ==
    IF src > dest THEN Ascend(m, dest, src, n)
    ELSE IF src < dest THEN Descend(m, dest, src, n)
    ELSE m

\* In an arena in which every cell is different: memmove copies between any
\* two places, however they overlap, and memcpy between any that do not.
CopiesAgree ==
    LET m == [x \in Addr |-> x]
    IN  \A dest, src \in Addr : \A n \in 0..HeapSize :
            dest + n <= HeapSize /\ src + n <= HeapSize =>
                /\ memmove(m, dest, src, n) = memcpy(m, dest, src, n)
                /\ Span(dest, n) \cap Span(src, n) = {} =>
                      Ascend(m, dest, src, n) = memcpy(m, dest, src, n)

\* A list with the blocks F marked free as well.
Freed(h, F) == [a \in DOMAIN h |-> [h[a] EXCEPT !.is_free = @ \/ a \in F]]

\* find_free_block and coalesce compute what the loops of memory.c compute,
\* on every list the heap reaches; coalesce is also compared on those lists
\* with any set of blocks marked free, so on runs longer than free makes.
\* memmove and memcpy copy what was there before, cell by cell as they go.
LoopsAgree ==
    /\ CopiesAgree
    /\ heap_start = 0 =>
        /\ \A n \in 1..HeapSize :
              find_free_block(blocks, n) = WalkFrom(blocks, heap_start, n)
        /\ \A F \in SUBSET DOMAIN blocks :
              coalesce(Freed(blocks, F)) = CoalesceFrom(Freed(blocks, F), heap_start)

\* The loop of get_heap_stats, and the headers it passes.
StatsFrom(h, start) ==
    LET stats[cur \in DOMAIN h \cup {NULL}] ==
            IF cur = NULL THEN [used |-> 0, free |-> 0, count |-> 0]
            ELSE LET rest == stats[h[cur].next]
                 IN  IF h[cur].is_free
                     THEN [rest EXCEPT !.free = @ + h[cur].size, !.count = @ + 1]
                     ELSE [rest EXCEPT !.used = @ + h[cur].size, !.count = @ + 1]
    IN  stats[start]

get_heap_stats == StatsFrom(blocks, heap_start)

\* The statistics account for every byte of the heap after any history of
\* splits and merges: what is reported used and free, and one header for each
\* block counted, add up to HEAP_SIZE.
StatsAddUp ==
    heap_start = 0 =>
        LET s == get_heap_stats
        IN  s.used + s.free + Hdr * s.count = HeapSize

=============================================================================
