----------------------------- MODULE HeapProofs -----------------------------
(***************************************************************************)
(* Proofs about the kernel heap for every arena size, header size, set of  *)
(* request sizes and cell alphabet: its invariants, its refinement of      *)
(* Allocator, and that the loops of memory.c compute what Heap says.       *)
(***************************************************************************)
EXTENDS HeapLoops, DataLemmas, FiniteSetTheorems, TLAPS

----------------------------------------------------------------------------
(* The free list.                                                          *)

\* A well-formed free list: a function from addresses to blocks that tiles
\* the arena.
IsList(h) ==
    /\ h = [a \in DOMAIN h |-> h[a]]
    /\ DOMAIN h \subseteq Addr
    /\ \A a \in DOMAIN h : h[a] \in Block
    /\ TilesList(h)

Used(h) == {a \in DOMAIN h : ~h[a].is_free}

\* A block's payload lies between its own header and the next block's, so it
\* meets no header and no other block's payload.
LEMMA PayloadBounds ==
    ASSUME NEW h, IsList(h), NEW a \in DOMAIN h, NEW b \in DOMAIN h
    PROVE  /\ Span(a + Hdr, h[a].size) \subseteq Addr
           /\ Span(a + Hdr, h[a].size) \cap Span(b, Hdr) = {}
           /\ a # b => Span(a + Hdr, h[a].size) \cap Span(b + Hdr, h[b].size) = {}
<1> USE HeapAssumption
<1>1. /\ a \in Nat /\ b \in Nat /\ a < HeapSize /\ b < HeapSize
      /\ h[a].size \in Nat \ {0} /\ h[b].size \in Nat \ {0}
      /\ a + Hdr + h[a].size <= HeapSize
      /\ a < b => a + Hdr + h[a].size <= b
      /\ b < a => b + Hdr + h[b].size <= a
  BY DEF IsList, TilesList, Addr, Block, End
<1> QED  BY <1>1 DEF Span, Addr

\* The initial list is well formed.
LEMMA InitialBlocksOK ==
    /\ IsList(InitialBlocks)
    /\ NoFreePair(InitialBlocks)
    /\ Used(InitialBlocks) = {}
BY HeapAssumption DEF IsList, NoFreePair, Used, InitialBlocks, TilesList, End, Addr, Block

\* The first-fit search returns a fitting block whenever there is one.
LEMMA FirstFit ==
    ASSUME NEW h, DOMAIN h \subseteq Nat, NEW n
    PROVE  \/ find_free_block(h, n) = NULL /\ Fits(h, n) = {}
           \/ find_free_block(h, n) \in Fits(h, n)
<1>1. Fits(h, n) \subseteq Nat
  BY DEF Fits
<1>2. CASE Fits(h, n) = {}
  BY <1>2 DEF find_free_block
<1>3. CASE Fits(h, n) # {}
  <2>1. \E a \in Fits(h, n) : \A b \in Fits(h, n) : a <= b
    BY <1>1, <1>3, LeastNat
  <2> QED  BY <1>3, <2>1 DEF find_free_block
<1> QED  BY <1>2, <1>3

\* What malloc makes of the list when the search returned block a: block a
\* used, and what is left of it a free block of its own.
Taken(h, a, n) == Mark(split_block(h, a, n), a, FALSE)

\* Splitting and marking a free block that is large enough gives a list again.
LEMMA TakenOK ==
    ASSUME NEW h, IsList(h), NEW n \in Nat \ {0}, NEW a \in Fits(h, n)
    PROVE  /\ IsList(Taken(h, a, n))
           /\ Taken(h, a, n)[a].size >= n
           /\ Used(Taken(h, a, n)) = Used(h) \cup {a}
           /\ \A b \in Used(h) : Taken(h, a, n)[b] = h[b]
           /\ DOMAIN Taken(h, a, n) =
                 DOMAIN h \cup (IF Splits(h, a, n) THEN {a + Hdr + n} ELSE {})
           /\ NoFreePair(h) => NoFreePair(Taken(h, a, n))
<1> USE HeapAssumption
<1> DEFINE g == Taken(h, a, n)
           c == a + Hdr + n
<1>1. /\ a \in DOMAIN h /\ a \in Nat /\ h[a] \in Block /\ h[a].is_free
      /\ h[a].size \in Nat /\ h[a].size >= n /\ a < HeapSize
      /\ h[a].next \in Addr \cup {NULL} /\ End(h, a) \in Nat
  BY DEF Fits, IsList, Addr, Block, End
<1>0. \A b \in DOMAIN h : h[b] \in Block
  BY DEF IsList
<1>2. CASE ~Splits(h, a, n)
  <2>1. g = [h EXCEPT ![a] = [size |-> h[a].size, is_free |-> FALSE, next |-> h[a].next]]
    BY <1>2 DEF Taken, split_block, Mark
  <2> HIDE DEF g
  <2>2. /\ DOMAIN g = DOMAIN h
        /\ g[a] = [size |-> h[a].size, is_free |-> FALSE, next |-> h[a].next]
        /\ \A b \in DOMAIN h \ {a} : g[b] = h[b]
        /\ g = [b \in DOMAIN g |-> g[b]]
    BY <1>1, <2>1 DEF IsList
  <2>22. \A b \in DOMAIN h : g[b].size = h[b].size /\ g[b].next = h[b].next /\ g[b] \in Block
    <3>1. g[a] \in Block /\ g[a].size = h[a].size /\ g[a].next = h[a].next
      BY <1>1, <2>2 DEF Block
    <3> QED  BY <1>0, <2>2, <3>1
  <2>3. TilesList(g)
    BY <2>2, <2>22 DEF IsList, TilesList, End
  <2>4. Used(g) = Used(h) \cup {a}
    BY <1>1, <2>2 DEF Used
  <2>5. NoFreePair(h) => NoFreePair(g)
    <3> SUFFICES ASSUME NoFreePair(h), NEW b \in DOMAIN g, g[b].is_free, g[b].next # NULL
                 PROVE  ~g[g[b].next].is_free
      BY DEF NoFreePair
    <3>1. b # a /\ h[b].is_free /\ h[b].next # NULL /\ g[b].next = h[b].next
      BY <2>2, <2>22
    <3>2. ~h[h[b].next].is_free /\ h[b].next \in DOMAIN h
      BY <2>2, <3>1 DEF NoFreePair, IsList, TilesList
    <3> QED  BY <2>2, <3>1, <3>2
  <2>6. \A b \in Used(h) : g[b] = h[b]
    BY <1>1, <2>2 DEF Used
  <2> QED  BY <1>1, <1>2, <2>2, <2>22, <2>3, <2>4, <2>5, <2>6 DEF IsList, g
<1>3. CASE Splits(h, a, n)
  <2>1. /\ c \in Nat /\ c + Hdr < End(h, a) /\ a < c /\ c < HeapSize
        /\ h[a].size - n - Hdr \in Nat \ {0}
        /\ End(h, a) <= HeapSize
        /\ c \in Addr
    BY <1>1, <1>3 DEF Splits, End, IsList, TilesList, Addr
  <2>2. c \notin DOMAIN h
    <3>1. \A b \in DOMAIN h : a < b => End(h, a) <= b
      BY <1>1 DEF IsList, TilesList
    <3> HIDE DEF c
    <3> QED  BY <1>1, <2>1, <3>1
  <2>3. g = [b \in DOMAIN h \cup {c} |->
               IF b = c THEN [size |-> h[a].size - n - Hdr, is_free |-> TRUE,
                              next |-> h[a].next]
               ELSE IF b = a THEN [size |-> n, is_free |-> FALSE, next |-> c]
               ELSE h[b]]
    <3> DEFINE f == [b \in DOMAIN h \cup {c} |->
                IF b = c THEN [size |-> h[a].size - n - Hdr, is_free |-> TRUE,
                               next |-> h[a].next]
                ELSE IF b = a THEN [size |-> n, is_free |-> h[a].is_free, next |-> c]
                ELSE h[b]]
    <3>2. split_block(h, a, n) = f
      BY <1>3 DEF split_block
    <3>3. f[a] = [size |-> n, is_free |-> h[a].is_free, next |-> c]
      BY <1>1, <2>2
    <3>4. g = [f EXCEPT ![a] = [size |-> f[a].size, is_free |-> FALSE, next |-> f[a].next]]
      BY <3>2 DEF Taken, Mark
    <3>5. f[a].size = n /\ f[a].next = c
      BY <3>3
    <3>6. g = [f EXCEPT ![a] = [size |-> n, is_free |-> FALSE, next |-> c]]
      BY <3>4, <3>5
    <3> HIDE DEF g
    <3> QED  BY <1>1, <2>2, <3>6
  <2>4. /\ DOMAIN g = DOMAIN h \cup {c}
        /\ g[c] = [size |-> h[a].size - n - Hdr, is_free |-> TRUE, next |-> h[a].next]
        /\ g[a] = [size |-> n, is_free |-> FALSE, next |-> c]
        /\ \A b \in DOMAIN h \ {a} : g[b] = h[b]
        /\ g = [b \in DOMAIN g |-> g[b]]
    <3> HIDE DEF g
    <3> QED  BY <1>1, <2>2, <2>3
  <2> HIDE DEF g
  <2>5. /\ End(g, a) = c
        /\ End(g, c) = End(h, a)
        /\ \A b \in DOMAIN h \ {a} : End(g, b) = End(h, b)
    BY <1>1, <2>1, <2>4 DEF End
  <2>6. \A b \in DOMAIN g : g[b] \in Block
    <3>1. g[a] \in Block /\ g[c] \in Block
      <4> HIDE DEF c
      <4> QED  BY <1>1, <2>1, <2>4 DEF Block
    <3> QED  BY <1>0, <2>4, <3>1
  <2>7. TilesList(g)
    <3>1. 0 \in DOMAIN g
      BY <2>4 DEF IsList, TilesList
    <3>2. ASSUME NEW b \in DOMAIN g
          PROVE  /\ g[b].size > 0
                 /\ End(g, b) <= HeapSize
                 /\ End(g, b) < HeapSize => End(g, b) \in DOMAIN g
                 /\ g[b].next = IF End(g, b) < HeapSize THEN End(g, b) ELSE NULL
      <4>1. CASE b = a
        BY <1>1, <2>1, <2>4, <2>5, <4>1
      <4>2. CASE b = c
        BY <1>1, <2>1, <2>4, <2>5, <4>2 DEF IsList, TilesList
      <4>3. CASE b \in DOMAIN h \ {a}
        BY <1>1, <2>4, <2>5, <4>3 DEF IsList, TilesList
      <4> QED  BY <2>4, <4>1, <4>2, <4>3
    <3>3. ASSUME NEW b \in DOMAIN g, NEW d \in DOMAIN g, b < d
          PROVE  End(g, b) <= d
      <4>1. \A x, y \in DOMAIN h : x < y => End(h, x) <= y
        BY DEF IsList, TilesList
      <4>2. \A x \in DOMAIN h : x \in Nat /\ End(h, x) \in Nat /\ x < End(h, x)
        BY DEF IsList, End, Block, Addr
      <4> QED  BY <1>1, <2>1, <2>4, <2>5, <3>3, <4>1, <4>2
    <3> QED  BY <3>1, <3>2, <3>3 DEF TilesList
  <2>8. Used(g) = Used(h) \cup {a} /\ \A b \in Used(h) : g[b] = h[b]
    BY <1>1, <2>2, <2>4 DEF Used
  <2>9. NoFreePair(h) => NoFreePair(g)
    <3> SUFFICES ASSUME NoFreePair(h), NEW b \in DOMAIN g, g[b].is_free, g[b].next # NULL
                 PROVE  ~g[g[b].next].is_free
      BY DEF NoFreePair
    <3>1. b # a
      BY <2>4
    <3>2. \A x \in DOMAIN h : h[x].next # NULL => h[x].next \in DOMAIN h
      BY DEF IsList, TilesList
    <3>3. PICK x \in DOMAIN h : h[x].is_free /\ h[x].next = g[b].next
      BY <1>1, <2>4, <3>1
    <3>4. ~h[g[b].next].is_free /\ g[b].next \in DOMAIN h
      BY <3>2, <3>3 DEF NoFreePair
    <3> QED  BY <1>1, <2>4, <3>4
  <2>10. IsList(g) /\ g[a].size >= n
    BY <2>1, <2>4, <2>6, <2>7 DEF IsList, Addr
  <2> QED  BY <1>3, <2>4, <2>8, <2>9, <2>10 DEF g
<1> QED  BY <1>2, <1>3

----------------------------------------------------------------------------
(* Runs of free blocks, and coalesce.                                      *)

\* The bounds of a list that the arithmetic below needs.
LEMMA ListBounds ==
    ASSUME NEW h, IsList(h)
    PROVE  /\ 0 \in DOMAIN h
           /\ \A a \in DOMAIN h :
                 /\ a \in Nat /\ a < HeapSize /\ End(h, a) \in Nat
                 /\ a + Hdr < End(h, a) /\ End(h, a) <= HeapSize
                 /\ h[a].is_free \in BOOLEAN
                 /\ h[a].size = End(h, a) - a - Hdr
           /\ \A a, b \in DOMAIN h : a < b => End(h, a) <= b
           /\ \A a \in DOMAIN h : End(h, a) < HeapSize =>
                 End(h, a) \in DOMAIN h /\ h[a].next = End(h, a)
           /\ \A a \in DOMAIN h : End(h, a) = HeapSize => h[a].next = NULL
           /\ \A a \in DOMAIN h : h[a].next # NULL =>
                 h[a].next \in DOMAIN h /\ h[a].next = End(h, a)
BY HeapAssumption DEF IsList, TilesList, Addr, Block, End

\* Every cell of the arena belongs to a block.
LEMMA Covering ==
    ASSUME NEW h, IsList(h), NEW i \in Addr
    PROVE  \E a \in DOMAIN h : a <= i /\ i < End(h, a)
<1> DEFINE S == {i - a : a \in {b \in DOMAIN h : b <= i}}
<1>1. S \subseteq Nat /\ S # {}
  BY ListBounds DEF Addr
<1>2. PICK x \in S : \A y \in S : x <= y
  <2> HIDE DEF S
  <2> QED  BY <1>1, LeastNat
<1>3. PICK a \in DOMAIN h : a <= i /\ x = i - a
  BY <1>2
<1>4. \A b \in DOMAIN h : b <= i => b <= a
  <2> TAKE b \in DOMAIN h
  <2> HAVE b <= i
  <2>1. i - b \in S
    OBVIOUS
  <2>2. x <= i - b /\ a \in Nat /\ b \in Nat /\ i \in Nat
    BY <1>2, <2>1, ListBounds DEF Addr
  <2> QED  BY <1>3, <2>2
<1>5. i < End(h, a)
  <2> SUFFICES ASSUME End(h, a) <= i
               PROVE  FALSE
    BY <1>3, ListBounds DEF Addr
  <2>1. End(h, a) \in DOMAIN h
    BY HeapAssumption, ListBounds DEF Addr
  <2> QED  BY <1>4, <2>1, ListBounds, HeapAssumption
<1> QED  BY <1>3, <1>5

\* Every block but the first starts where another one ends.
LEMMA Predecessor ==
    ASSUME NEW h, IsList(h), NEW b \in DOMAIN h, b # 0
    PROVE  \E p \in DOMAIN h : p < b /\ End(h, p) = b /\ h[p].next = b
<1>1. b - 1 \in Addr
  BY ListBounds, HeapAssumption DEF IsList, Addr
<1>2. PICK p \in DOMAIN h : p <= b - 1 /\ b - 1 < End(h, p)
  BY <1>1, Covering
<1>3. b \in Nat /\ b < HeapSize
  BY ListBounds
<1> QED  BY <1>2, <1>3, ListBounds, HeapAssumption

\* e ends the run of free blocks that starts at a.
EndsRun(h, a, e) ==
    /\ a <= e
    /\ \A b \in DOMAIN h : a <= b /\ b <= e => h[b].is_free
    /\ h[e].next # NULL => ~h[h[e].next].is_free

\* A run of free blocks has an end.
LEMMA RunEndExists ==
    ASSUME NEW h, IsList(h), NEW a \in DOMAIN h, h[a].is_free
    PROVE  RunEnd(h, a) \in DOMAIN h /\ EndsRun(h, a, RunEnd(h, a))
<1> DEFINE S == {e \in DOMAIN h : a <= e /\ (h[e].next # NULL => ~h[h[e].next].is_free)}
<1>1. S # {}
  <2>1. HeapSize - 1 \in Addr
    BY HeapAssumption DEF Addr
  <2>2. PICK e \in DOMAIN h : e <= HeapSize - 1 /\ HeapSize - 1 < End(h, e)
    BY <2>1, Covering
  <2>3. End(h, e) = HeapSize /\ a < HeapSize
    BY <2>2, ListBounds, HeapAssumption DEF IsList, Addr
  <2>4. a <= e
    BY <2>3, ListBounds, HeapAssumption
  <2> QED  BY <2>3, <2>4, ListBounds
<1>2. PICK e \in S : \A y \in S : e <= y
  <2>1. S \subseteq Nat
    BY ListBounds
  <2> HIDE DEF S
  <2> QED  BY <1>1, <2>1, LeastNat
<1>3. \A b \in DOMAIN h : a <= b /\ b <= e => h[b].is_free
  <2> DEFINE T == {b \in DOMAIN h : a <= b /\ b <= e /\ ~h[b].is_free}
  <2> SUFFICES ASSUME T # {}
               PROVE  FALSE
    OBVIOUS
  <2>1. PICK b \in T : \A y \in T : b <= y
    <3>1. T \subseteq Nat
      BY ListBounds
    <3> HIDE DEF T
    <3> QED  BY <3>1, LeastNat
  <2>2. a < b /\ b # 0
    BY <2>1, ListBounds
  <2>3. PICK p \in DOMAIN h : p < b /\ End(h, p) = b /\ h[p].next = b
    BY <2>1, <2>2, Predecessor
  <2>4. a <= p /\ p < e
    BY <2>1, <2>2, <2>3, <1>2, ListBounds
  <2>5. p \notin S
    BY <1>2, <2>4, ListBounds
  <2> QED  BY <2>1, <2>3, <2>4, <2>5
<1>4. e \in DOMAIN h /\ EndsRun(h, a, e)
  BY <1>2, <1>3 DEF EndsRun
<1> QED  BY <1>4 DEF RunEnd, EndsRun

\* The blocks of a run behind its first one are the ones coalesce unlinks.
LEMMA RunIsAbsorbed ==
    ASSUME NEW h, IsList(h), NEW a \in DOMAIN h, h[a].is_free,
           NEW b \in DOMAIN h, a < b, b <= RunEnd(h, a)
    PROVE  b \in Absorbed(h)
<1>1. RunEnd(h, a) \in DOMAIN h /\ EndsRun(h, a, RunEnd(h, a))
  BY RunEndExists
<1>2. PICK p \in DOMAIN h : p < b /\ End(h, p) = b /\ h[p].next = b
  BY Predecessor, ListBounds
<1>3. a <= p /\ p <= RunEnd(h, a)
  BY <1>1, <1>2, ListBounds
<1>4. a \in Nat /\ b \in Nat
  BY ListBounds
<1>5. h[b].is_free /\ h[p].is_free
  BY <1>1, <1>3, <1>4 DEF EndsRun
<1> QED  BY <1>2, <1>5 DEF Absorbed

\* On every list, whatever its blocks' flags, coalesce returns a list of the
\* same used blocks in which no two free blocks are neighbours.
LEMMA CoalesceOK ==
    ASSUME NEW h, IsList(h)
    PROVE  /\ IsList(coalesce(h))
           /\ NoFreePair(coalesce(h))
           /\ DOMAIN coalesce(h) \subseteq DOMAIN h
           /\ Used(coalesce(h)) = Used(h)
           /\ \A b \in Used(h) : coalesce(h)[b] = h[b]
<1> DEFINE k == coalesce(h)
           E(a) == RunEnd(h, a)
<1>1. /\ DOMAIN k = DOMAIN h \ Absorbed(h)
      /\ k = [a \in DOMAIN k |-> k[a]]
      /\ \A a \in DOMAIN k : ~h[a].is_free => k[a] = h[a]
      /\ \A a \in DOMAIN k : h[a].is_free =>
            k[a] = [size |-> End(h, E(a)) - a - Hdr, is_free |-> TRUE, next |-> h[E(a)].next]
  BY DEF coalesce
<1> HIDE DEF k
<1>2. \A a \in DOMAIN k : a \in DOMAIN h
  BY <1>1
<1>3. ASSUME NEW a \in DOMAIN k, h[a].is_free
      PROVE  /\ E(a) \in DOMAIN h /\ a <= E(a)
             /\ End(k, a) = End(h, E(a))
             /\ k[a].size > 0 /\ k[a] \in Block
             /\ k[a].next = h[E(a)].next
             /\ h[E(a)].next # NULL => ~h[h[E(a)].next].is_free
             /\ k[a].is_free
  <2>1. E(a) \in DOMAIN h /\ EndsRun(h, a, E(a))
    BY <1>2, <1>3, RunEndExists
  <2>2. h[E(a)].next \in Addr \cup {NULL}
    BY <2>1 DEF IsList, Block
  <2>3. End(h, E(a)) - a - Hdr \in Nat \ {0}
    BY <1>2, <2>1, ListBounds, HeapAssumption DEF EndsRun
  <2> HIDE DEF E
  <2>4. k[a].size = End(h, E(a)) - a - Hdr /\ k[a] \in Block /\ k[a].is_free
        /\ k[a].next = h[E(a)].next
    <3>1. k[a] = [size |-> End(h, E(a)) - a - Hdr, is_free |-> TRUE, next |-> h[E(a)].next]
      BY <1>1, <1>3
    <3> QED  BY <2>2, <2>3, <3>1 DEF Block
  <2>5. End(k, a) = End(h, E(a))
    BY <1>2, <2>1, <2>4, ListBounds, HeapAssumption DEF End
  <2> QED  BY <2>1, <2>3, <2>4, <2>5 DEF EndsRun
<1>4. ASSUME NEW a \in DOMAIN k, ~h[a].is_free
      PROVE  k[a] = h[a] /\ End(k, a) = End(h, a) /\ k[a] \in Block
  BY <1>1, <1>2, <1>4 DEF End, IsList
<1>5. \A b \in DOMAIN h : b \notin Absorbed(h) => b \in DOMAIN k
  BY <1>1
<1>6. \A b \in DOMAIN h : ~h[b].is_free => b \in DOMAIN k
  BY <1>5 DEF Absorbed
<1>7. TilesList(k)
  <2>1. 0 \in DOMAIN k
    <3>1. \A p \in DOMAIN h : h[p].next # 0
      BY ListBounds, HeapAssumption
    <3> QED  BY <1>5, <3>1, ListBounds DEF Absorbed
  <2>2. ASSUME NEW a \in DOMAIN k
        PROVE  /\ k[a].size > 0
               /\ End(k, a) <= HeapSize
               /\ End(k, a) < HeapSize => End(k, a) \in DOMAIN k
               /\ k[a].next = IF End(k, a) < HeapSize THEN End(k, a) ELSE NULL
    <3>1. CASE h[a].is_free
      <4> HIDE DEF E
      <4>1. End(h, E(a)) < HeapSize => h[E(a)].next # NULL
        BY <1>3, <3>1, ListBounds, HeapAssumption DEF IsList, Addr
      <4>2. E(a) \in DOMAIN h /\ End(k, a) = End(h, E(a)) /\ k[a].next = h[E(a)].next
        BY <1>3, <3>1
      <4>3. End(h, E(a)) < HeapSize =>
               End(h, E(a)) \in DOMAIN h /\ h[E(a)].next = End(h, E(a))
               /\ ~h[End(h, E(a))].is_free
        BY <1>3, <3>1, <4>1, <4>2, ListBounds
      <4>4. End(h, E(a)) <= HeapSize /\ End(h, E(a)) \in Nat
            /\ (End(h, E(a)) = HeapSize => h[E(a)].next = NULL)
        BY <4>2, ListBounds
      <4> QED  BY <1>3, <1>6, <3>1, <4>2, <4>3, <4>4, HeapAssumption
    <3>2. CASE ~h[a].is_free
      <4>1. a \in DOMAIN h /\ k[a] = h[a] /\ End(k, a) = End(h, a)
        BY <1>2, <1>4, <3>2
      <4>2. ASSUME End(h, a) < HeapSize, End(h, a) \in Absorbed(h)
            PROVE  FALSE
        <5>1. PICK p \in DOMAIN h : h[p].is_free /\ h[p].next = End(h, a)
          BY <4>2 DEF Absorbed
        <5>2. End(h, p) = End(h, a)
          BY <4>1, <4>2, <5>1, ListBounds, HeapAssumption
        <5>3. p # a
          BY <3>2, <5>1
        <5> QED  BY <4>1, <5>2, <5>3, ListBounds, HeapAssumption
      <4> QED  BY <1>5, <4>1, <4>2, ListBounds, HeapAssumption
    <3> QED  BY <3>1, <3>2
  <2>3. ASSUME NEW a \in DOMAIN k, NEW b \in DOMAIN k, a < b
        PROVE  End(k, a) <= b
    <3>1. CASE h[a].is_free
      <4>1. ~(b <= E(a))
        BY <1>1, <1>2, <2>3, <3>1, RunIsAbsorbed
      <4> HIDE DEF E
      <4> QED  BY <1>2, <1>3, <3>1, <4>1, ListBounds
    <3>2. CASE ~h[a].is_free
      BY <1>2, <1>4, <2>3, <3>2, ListBounds
    <3> QED  BY <3>1, <3>2
  <2> QED  BY <2>1, <2>2, <2>3 DEF TilesList
<1>8. IsList(k)
  <2>1. \A a \in DOMAIN k : k[a] \in Block
    <3> HIDE DEF E
    <3> QED  BY <1>3, <1>4
  <2> QED  BY <1>1, <1>7, <2>1 DEF IsList
<1>9. NoFreePair(k)
  <2> SUFFICES ASSUME NEW a \in DOMAIN k, k[a].is_free, k[a].next # NULL
               PROVE  ~k[k[a].next].is_free
    BY DEF NoFreePair
  <2>1. h[a].is_free
    BY <1>4
  <2> HIDE DEF E
  <2>2. h[k[a].next].is_free = FALSE /\ k[a].next \in DOMAIN h
    BY <1>3, <2>1, ListBounds
  <2> QED  BY <1>4, <1>6, <2>2
<1>10. Used(k) = Used(h) /\ \A b \in Used(h) : k[b] = h[b]
  <2> HIDE DEF E
  <2> QED  BY <1>2, <1>3, <1>4, <1>6 DEF Used
<1> QED  BY <1>1, <1>8, <1>9, <1>10 DEF k

----------------------------------------------------------------------------
(* The calls.                                                              *)

\* The pointers of l that were asked for less than calloc's product can wrap to.
Whole(l) == {p \in DOMAIN l : l[p] < SizeMod}

\* What IInv says of the list h, the cells m and the pointers l once the
\* heap is initialised and before any overrun.
HeapOK(h, m, l) ==
    /\ IsList(h)
    /\ NoFreePair(h)
    /\ m \in [Addr -> Cells]
    /\ \A a \in DOMAIN h : \A x \in Span(a, Hdr) : m[x] = HdrCell
    /\ l = [p \in DOMAIN l |-> l[p]]
    /\ DOMAIN l = {a + Hdr : a \in Used(h)}
    /\ \A p \in DOMAIN l : /\ l[p] \in Nat \ {0}
                           /\ l[p] < SizeMod => l[p] <= h[p - Hdr].size

\* The header in front of a held pointer.
LEMMA HeldBlock ==
    ASSUME NEW h, NEW m, NEW l, HeapOK(h, m, l), NEW p \in DOMAIN l
    PROVE  /\ p - Hdr \in Used(h)
           /\ p - Hdr \in DOMAIN h
           /\ (p - Hdr) + Hdr = p
           /\ h[p - Hdr].size \in Nat \ {0}
           /\ p \in Nat
<1>1. PICK a \in Used(h) : p = a + Hdr
  BY DEF HeapOK
<1>2. a \in DOMAIN h /\ a \in Nat /\ h[a].size \in Nat \ {0}
  BY <1>1, HeapAssumption DEF HeapOK, IsList, TilesList, Used, Addr, Block
<1>3. p - Hdr = a
  BY <1>1, <1>2, HeapAssumption
<1> QED  BY <1>1, <1>2, <1>3, HeapAssumption

\* malloc either refuses and changes nothing or hands out a pointer nobody
\* holds.
LEMMA MallocOK ==
    ASSUME NEW h, NEW m, NEW l, HeapOK(h, m, l), NEW n \in Nat \ {0}
    PROVE  LET r == malloc(h, m, n)
           IN  \/ r.ptr = NULL /\ r.blocks = h /\ r.mem = m
               \/ /\ r.ptr # NULL
                  /\ r.ptr \notin DOMAIN l
                  /\ HeapOK(r.blocks, r.mem, Holds(l, r.ptr, n))
                  /\ \A b \in Used(h) : r.blocks[b] = h[b]
<1> USE HeapAssumption
<1> DEFINE r == malloc(h, m, n)
           a == find_free_block(h, n)
<1>1. IsList(h) /\ DOMAIN h \subseteq Nat
  BY ListBounds DEF HeapOK
<1>2. CASE a = NULL
  BY <1>2 DEF malloc
<1>3. CASE a # NULL
  <2>1. a \in Fits(h, n)
    BY <1>1, <1>3, FirstFit
  <2>2. /\ r.ptr = a + Hdr
        /\ r.blocks = Taken(h, a, n)
        /\ r.mem = IF Splits(h, a, n) THEN WriteHeader(m, a + Hdr + n) ELSE m
    BY <1>3 DEF malloc, Taken
  <2> HIDE DEF a, r
  <2> DEFINE g == Taken(h, a, n)
             k == Holds(l, a + Hdr, n)
  <2>3. /\ IsList(g) /\ g[a].size >= n /\ Used(g) = Used(h) \cup {a}
        /\ \A b \in Used(h) : g[b] = h[b]
        /\ DOMAIN g = DOMAIN h \cup (IF Splits(h, a, n) THEN {a + Hdr + n} ELSE {})
        /\ NoFreePair(g)
    <3>1. NoFreePair(h)
      BY DEF HeapOK
    <3>2. a \in DOMAIN h
      BY <2>1 DEF Fits
    <3> QED  BY <1>1, <2>1, <3>1, <3>2, TakenOK
  <2> HIDE DEF g
  <2>4. a \in DOMAIN h /\ a \in Nat /\ a \notin Used(h)
    BY <1>1, <2>1 DEF Fits, Used
  <2>5. a + Hdr \notin DOMAIN l
    <3>1. \A b \in Used(h) : b \in Nat
      BY <1>1 DEF Used
    <3>2. DOMAIN l = {b + Hdr : b \in Used(h)}
      BY DEF HeapOK
    <3> QED  BY <2>4, <3>1, <3>2
  <2>6. /\ k = [q \in DOMAIN k |-> k[q]]
        /\ DOMAIN k = {b + Hdr : b \in Used(g)}
    BY <2>3 DEF HeapOK, Holds
  <2>7. \A p \in DOMAIN k : /\ k[p] \in Nat \ {0}
                            /\ k[p] < SizeMod => k[p] <= g[p - Hdr].size
    <3> TAKE p \in DOMAIN k
    <3>1. CASE p = a + Hdr
      <4>1. p - Hdr = a /\ k[p] = n
        BY <2>4, <3>1 DEF Holds
      <4>2. g[a].size \in Nat
        BY <2>3, <2>4 DEF IsList, Block
      <4> QED  BY <2>3, <4>1, <4>2
    <3>2. CASE p # a + Hdr
      <4>1. p \in DOMAIN l /\ k[p] = l[p]
        BY <3>2 DEF Holds
      <4>2. p - Hdr \in Used(h)
        BY <4>1, HeldBlock
      <4> QED  BY <2>3, <4>1, <4>2 DEF HeapOK
    <3> QED  BY <3>1, <3>2
  <2>8. /\ r.mem \in [Addr -> Cells]
        /\ \A b \in DOMAIN g : \A x \in Span(b, Hdr) : r.mem[x] = HdrCell
    <3>0. \A b \in DOMAIN g : \A x \in Span(b, Hdr) : x \in Addr
      <4>1. \A b \in DOMAIN g : b \in Nat /\ End(g, b) \in Nat
                               /\ b + Hdr < End(g, b) /\ End(g, b) <= HeapSize
        BY <2>3, ListBounds
      <4> QED  BY <4>1 DEF Span, Addr
    <3>1. CASE Splits(h, a, n)
      <4>1. r.mem = [x \in Addr |-> IF x \in Span(a + Hdr + n, Hdr) THEN HdrCell ELSE m[x]]
        BY <2>2, <3>1 DEF WriteHeader
      <4>2. r.mem \in [Addr -> Cells]
        BY <4>1 DEF HeapOK, Cells
      <4> QED  BY <2>3, <3>0, <3>1, <4>1, <4>2 DEF HeapOK
    <3>2. CASE ~Splits(h, a, n)
      BY <2>2, <2>3, <3>2 DEF HeapOK
    <3> QED  BY <3>1, <3>2
  <2>9. HeapOK(g, r.mem, k)
    <3> HIDE DEF k
    <3> QED  BY <2>3, <2>6, <2>7, <2>8 DEF HeapOK
  <2> QED  BY <2>2, <2>3, <2>4, <2>5, <2>9 DEF r, g
<1> QED  BY <1>2, <1>3

\* free of a held pointer.
LEMMA FreeOK ==
    ASSUME NEW h, NEW m, NEW l, HeapOK(h, m, l), NEW p \in DOMAIN l
    PROVE  HeapOK(free(h, p), m, Drops(l, p))
<1> USE HeapAssumption
<1> DEFINE a == p - Hdr
           g == Mark(h, a, TRUE)
           k == Drops(l, p)
<1>1. a \in Used(h) /\ a \in DOMAIN h /\ a + Hdr = p /\ IsList(h)
  BY HeldBlock DEF HeapOK
<1> HIDE DEF a
<1>2. /\ DOMAIN g = DOMAIN h
      /\ g[a] = [size |-> h[a].size, is_free |-> TRUE, next |-> h[a].next]
      /\ \A b \in DOMAIN h \ {a} : g[b] = h[b]
      /\ g = [b \in DOMAIN g |-> g[b]]
  BY <1>1 DEF Mark, IsList
<1> HIDE DEF g
<1>3. \A b \in DOMAIN h : /\ g[b].size = h[b].size
                          /\ g[b].next = h[b].next
                          /\ g[b] \in Block
  <2>1. h[a] \in Block /\ \A b \in DOMAIN h : h[b] \in Block
    BY <1>1 DEF IsList
  <2>2. g[a].size = h[a].size /\ g[a].next = h[a].next /\ g[a] \in Block
    BY <1>2, <2>1 DEF Block
  <2> QED  BY <1>2, <2>1, <2>2
<1>4. IsList(g)
  BY <1>1, <1>2, <1>3 DEF IsList, TilesList, End
<1>5. Used(g) = Used(h) \ {a}
  BY <1>1, <1>2 DEF Used
<1> DEFINE f == coalesce(g)
<1>6. /\ IsList(f) /\ NoFreePair(f)
      /\ DOMAIN f \subseteq DOMAIN h
      /\ Used(f) = Used(h) \ {a}
      /\ \A b \in Used(f) : f[b] = h[b]
  <2>1. \A b \in Used(g) : g[b] = h[b]
    BY <1>1, <1>2, <1>5 DEF Used
  <2> QED  BY <1>2, <1>4, <1>5, <2>1, CoalesceOK
<1>7. free(h, p) = f
  BY DEF free, f, g, a
<1> HIDE DEF f
<1>8. /\ k = [q \in DOMAIN k |-> k[q]]
      /\ DOMAIN k = DOMAIN l \ {p}
      /\ \A q \in DOMAIN k : k[q] = l[q]
  BY DEF Drops, Restrict
<1> HIDE DEF k
<1>9. DOMAIN k = {b + Hdr : b \in Used(f)}
  <2>1. \A b \in Used(h) : b \in Nat
    BY <1>1, ListBounds DEF Used
  <2>2. DOMAIN l = {b + Hdr : b \in Used(h)}
    BY DEF HeapOK
  <2> QED  BY <1>1, <1>6, <1>8, <2>1, <2>2
<1>10. \A q \in DOMAIN k : /\ k[q] \in Nat \ {0}
                           /\ k[q] < SizeMod => k[q] <= f[q - Hdr].size
  <2> TAKE q \in DOMAIN k
  <2>1. q \in DOMAIN l /\ q # p
    BY <1>8
  <2>2. q - Hdr \in Used(h) /\ q - Hdr # a
    BY <1>1, <2>1, HeldBlock
  <2> QED  BY <1>6, <1>8, <2>1, <2>2 DEF HeapOK
<1>11. HeapOK(f, m, k)
  BY <1>6, <1>8, <1>9, <1>10 DEF HeapOK
<1> QED  BY <1>7, <1>11 DEF k

\* Cells of a used block's payload may change.
LEMMA PayloadWriteOK ==
    ASSUME NEW h, NEW m, NEW l, HeapOK(h, m, l), NEW p \in DOMAIN l,
           NEW w \in [Addr -> Cells],
           \A x \in Addr \ Span(p, h[p - Hdr].size) : w[x] = m[x]
    PROVE  HeapOK(h, w, l)
<1>1. p - Hdr \in DOMAIN h /\ (p - Hdr) + Hdr = p /\ IsList(h)
  BY HeldBlock DEF HeapOK
<1>2. \A b \in DOMAIN h : Span(p, h[p - Hdr].size) \cap Span(b, Hdr) = {}
  <2> TAKE b \in DOMAIN h
  <2>1. Span((p - Hdr) + Hdr, h[p - Hdr].size) \cap Span(b, Hdr) = {}
    BY <1>1, PayloadBounds
  <2> QED  BY <1>1, <2>1
<1>3. ASSUME NEW b \in DOMAIN h, NEW x \in Span(b, Hdr) PROVE x \in Addr
  <2>1. b \in Nat /\ b + Hdr < End(h, b) /\ End(h, b) <= HeapSize /\ End(h, b) \in Nat
    BY <1>1, ListBounds
  <2> QED  BY <2>1, HeapAssumption DEF Span, Addr
<1>4. \A b \in DOMAIN h : \A x \in Span(b, Hdr) : w[x] = HdrCell
  BY <1>2, <1>3 DEF HeapOK
<1> QED  BY <1>4 DEF HeapOK

\* memset within a used block.
LEMMA MemsetOK ==
    ASSUME NEW h, NEW m, NEW l, HeapOK(h, m, l), NEW p \in DOMAIN l,
           NEW c \in Byte, NEW n \in Nat, n <= h[p - Hdr].size
    PROVE  HeapOK(h, memset(m, p, c, n), l)
<1> DEFINE w == memset(m, p, c, n)
<1>1. w \in [Addr -> Cells]
  BY DEF memset, HeapOK, Cells
<1>2. h[p - Hdr].size \in Nat \ {0} /\ p \in Nat
  BY HeldBlock
<1>3. \A x \in Addr \ Span(p, h[p - Hdr].size) : w[x] = m[x]
  BY <1>2 DEF memset, Span, Addr
<1> HIDE DEF w
<1>4. HeapOK(h, w, l)
  BY <1>1, <1>3, PayloadWriteOK
<1> QED  BY <1>4 DEF w

\* memcpy of a used block's payload into a used block at least as large.
LEMMA MemcpyOK ==
    ASSUME NEW h, NEW m, NEW l, HeapOK(h, m, l), NEW p \in DOMAIN l, NEW q \in DOMAIN l,
           NEW n \in Nat, n <= h[p - Hdr].size, n <= h[q - Hdr].size
    PROVE  HeapOK(h, memcpy(m, q, p, n), l)
<1> DEFINE w == memcpy(m, q, p, n)
<1>1. /\ h[p - Hdr].size \in Nat \ {0} /\ p \in Nat
      /\ h[q - Hdr].size \in Nat \ {0} /\ q \in Nat
      /\ p - Hdr \in DOMAIN h /\ (p - Hdr) + Hdr = p /\ IsList(h)
  BY HeldBlock DEF HeapOK
<1>2. Span(p, h[p - Hdr].size) \subseteq Addr
  <2>1. Span((p - Hdr) + Hdr, h[p - Hdr].size) \subseteq Addr
    BY <1>1, PayloadBounds
  <2> QED  BY <1>1, <2>1
<1>3. \A x \in Span(q, n) : p + (x - q) \in Addr
  BY <1>1, <1>2 DEF Span
<1>4. w \in [Addr -> Cells]
  BY <1>3 DEF memcpy, HeapOK
<1>5. \A x \in Addr \ Span(q, h[q - Hdr].size) : w[x] = m[x]
  BY <1>1 DEF memcpy, Span, Addr
<1> HIDE DEF w
<1>6. HeapOK(h, w, l)
  BY <1>4, <1>5, PayloadWriteOK
<1> QED  BY <1>6 DEF w

----------------------------------------------------------------------------
(* The inductive invariant.                                                *)

\* IInv before an overrun: either nothing has been allocated and the array is
\* untouched, or the list, the cells and the pointers fit together.
LEMMA IInvSplit ==
    ASSUME overrun = FALSE
    PROVE
    IInv <=> \/ heap_start = 0 /\ HeapOK(blocks, mem, live)
             \/ /\ heap_start = NULL
                /\ blocks = [a \in DOMAIN blocks |-> blocks[a]] /\ DOMAIN blocks = {}
                /\ live = [p \in DOMAIN live |-> live[p]] /\ DOMAIN live = {}
                /\ mem \in [Addr -> Cells]
<1> USE HeapAssumption
<1>1. NULL # 0
  OBVIOUS
<1>2. CASE heap_start = NULL
  <2>1. IInv => DOMAIN live = {}
    BY <1>2 DEF IInv, UsedIsLive
  <2> QED  BY <1>1, <1>2, <2>1
           DEF IInv, TypeOK, Tiles, NoAdjacentFree, NoFreePair, UsedIsLive, HeadersIntact
<1>3. CASE heap_start = 0
  <2>1. IInv => HeapOK(blocks, mem, live)
    BY <1>1, <1>3 DEF IInv, TypeOK, Tiles, NoAdjacentFree, UsedIsLive, HeadersIntact,
                      HeapOK, IsList, Used
  <2>2. HeapOK(blocks, mem, live) => IInv
    <3> SUFFICES ASSUME HeapOK(blocks, mem, live)
                 PROVE  IInv
      OBVIOUS
    <3>1. \A p \in DOMAIN live : p \in Addr
      <4> TAKE p \in DOMAIN live
      <4>1. p - Hdr \in DOMAIN blocks /\ (p - Hdr) + Hdr = p /\ IsList(blocks) /\ p \in Nat
        BY HeldBlock DEF HeapOK
      <4> DEFINE b == p - Hdr
      <4>2. b + Hdr < End(blocks, b) /\ End(blocks, b) <= HeapSize /\ End(blocks, b) \in Nat
        BY <4>1, ListBounds
      <4> HIDE DEF b
      <4>3. b + Hdr = p
        BY <4>1 DEF b
      <4> QED  BY <4>1, <4>2, <4>3 DEF Addr
    <3>2. TypeOK
      BY <1>3, <3>1 DEF HeapOK, IsList, TypeOK
    <3>3. Tiles /\ NoAdjacentFree /\ UsedIsLive /\ HeadersIntact
      BY DEF HeapOK, IsList, Used, Tiles, NoAdjacentFree, UsedIsLive, HeadersIntact
    <3> QED  BY <1>1, <1>3, <3>2, <3>3 DEF IInv
  <2> QED  BY <1>1, <1>3, <2>1, <2>2
<1>4. CASE heap_start \notin {NULL, 0}
  BY <1>4 DEF IInv, TypeOK
<1> QED  BY <1>2, <1>3, <1>4

\* The list is well formed whatever the cells hold.
LEMMA ListAlways ==
    ASSUME IInv, heap_start = 0
    PROVE  IsList(blocks) /\ NoFreePair(blocks)
BY DEF IInv, TypeOK, Tiles, NoAdjacentFree, IsList

\* The direction the steps use, in the state after the step.
LEMMA IInvNext ==
    heap_start' = 0 /\ overrun' = FALSE /\ HeapOK(blocks, mem, live)' => IInv'
<1> DEFINE F == heap_start = 0 /\ overrun = FALSE /\ HeapOK(blocks, mem, live) => IInv
<1>1. F
  BY IInvSplit
<1>2. F'
  BY <1>1, PTL
<1> QED  BY <1>2

\* The list and the cells a call starts from are well formed in either case.
LEMMA ReadyOK ==
    ASSUME IInv, overrun = FALSE
    PROVE  HeapOK(ReadyBlocks, ReadyMem, live)
<1> USE HeapAssumption
<1>1. CASE heap_start = NULL
  <2>1. mem \in [Addr -> Cells] /\ DOMAIN live = {}
        /\ live = [p \in DOMAIN live |-> live[p]]
    <3>1. heap_start # 0
      BY <1>1
    <3> QED  BY <1>1, <3>1, IInvSplit, Zenon
  <2>2. /\ ReadyBlocks = InitialBlocks
        /\ ReadyMem = [x \in Addr |-> IF x \in Span(0, Hdr) THEN HdrCell ELSE mem[x]]
    BY <1>1 DEF ReadyBlocks, ReadyMem, WriteHeader
  <2>3. ReadyMem \in [Addr -> Cells]
    BY <2>1, <2>2 DEF Cells
  <2>4. DOMAIN InitialBlocks = {0} /\ \A x \in Span(0, Hdr) : x \in Addr
    BY DEF InitialBlocks, Span, Addr
  <2> QED  BY <2>1, <2>2, <2>3, <2>4, InitialBlocksOK DEF HeapOK
<1>2. CASE heap_start # NULL
  BY <1>2, IInvSplit DEF ReadyBlocks, ReadyMem
<1> QED  BY <1>1, <1>2

\* The untouched heap satisfies the invariant.
LEMMA InitOK == Init => IInv
<1> SUFFICES ASSUME Init
             PROVE  IInv
  OBVIOUS
<1>1. mem \in [Addr -> Cells]
  BY HeapAssumption DEF Init, Cells
<1> QED  BY <1>1, IInvSplit DEF Init

\* A call that changes nothing.
LEMMA IInvSame == IInv /\ UNCHANGED vars => IInv'
BY DEF vars, IInv, TypeOK, Tiles, NoAdjacentFree, UsedIsLive, HeadersIntact

\* malloc preserves the invariant, granted or refused.
LEMMA MallocStep ==
    ASSUME IInv, overrun = FALSE, NEW n \in Nat, n < SizeMod, Malloc(n)
    PROVE  IInv'
<1>1. CASE n = 0
  BY <1>1, IInvSame DEF Malloc
<1>2. CASE n # 0
  <2> DEFINE r == malloc(ReadyBlocks, ReadyMem, n)
  <2>1. heap_start' = 0 /\ overrun' = FALSE /\ blocks' = r.blocks /\ mem' = r.mem
        /\ live' = IF r.ptr = NULL THEN live ELSE Holds(live, r.ptr, n)
    BY <1>2 DEF Malloc, Granted
  <2>2. HeapOK(ReadyBlocks, ReadyMem, live)
    BY ReadyOK
  <2>3. \/ r.ptr = NULL /\ r.blocks = ReadyBlocks /\ r.mem = ReadyMem
        \/ r.ptr # NULL /\ HeapOK(r.blocks, r.mem, Holds(live, r.ptr, n))
    BY <1>2, <2>2, MallocOK
  <2> HIDE DEF r
  <2>4. HeapOK(blocks', mem', live')
    BY <2>1, <2>2, <2>3
  <2> QED  BY <2>1, <2>4, IInvNext
<1> QED  BY <1>1, <1>2

\* A held pointer's size may change within its block, or to what no size_t
\* can hold.
LEMMA ResizedOK ==
    ASSUME NEW h, NEW m, NEW l, HeapOK(h, m, l), NEW p \in DOMAIN l,
           NEW n \in Nat, n > 0, n < SizeMod => h[p - Hdr].size >= n
    PROVE  HeapOK(h, m, [l EXCEPT ![p] = n])
<1> DEFINE k == [l EXCEPT ![p] = n]
<1>1. h[p - Hdr].size \in Nat
  BY HeldBlock
<1>0. /\ k = [q \in DOMAIN k |-> k[q]]
      /\ DOMAIN k = DOMAIN l
      /\ k[p] = n
      /\ \A q \in DOMAIN k \ {p} : k[q] = l[q]
  OBVIOUS
<1> HIDE DEF k
<1>2. \A q \in DOMAIN k : /\ k[q] \in Nat \ {0}
                          /\ k[q] < SizeMod => k[q] <= h[q - Hdr].size
  BY <1>0, <1>1, HeapAssumption DEF HeapOK
<1>3. HeapOK(h, m, k)
  BY <1>0, <1>2 DEF HeapOK
<1> QED  BY <1>3 DEF k

\* What a size_t keeps of calloc's product.
LEMMA Product ==
    ASSUME NEW num \in Nat, NEW size \in Nat
    PROVE  LET N == num * size
               total == N % SizeMod
           IN  N \in Nat /\ total \in Nat /\ total < SizeMod /\ (N < SizeMod => total = N)
<1>1. \A x, y \in Nat : x * y \in Nat
  OBVIOUS
<1>2. \A x \in Nat : x % SizeMod \in Nat /\ x % SizeMod < SizeMod
                     /\ (x < SizeMod => x % SizeMod = x)
  BY HeapAssumption
<1> QED  BY <1>1, <1>2

\* calloc preserves it, with the granted block cleared, whatever of the
\* product it is asked for is granted.
LEMMA CallocStep ==
    ASSUME IInv, overrun = FALSE, NEW num \in Nat, NEW size \in Nat, Calloc(num, size)
    PROVE  IInv'
<1> USE HeapAssumption
<1> DEFINE N == num * size
           total == N % SizeMod
<1>1. N \in Nat /\ total \in Nat /\ total < SizeMod /\ (N < SizeMod => total = N)
  BY Product
<1>2. CASE total = 0
  BY <1>2, IInvSame DEF Calloc
<1>3. CASE total # 0
  <2> DEFINE r == malloc(ReadyBlocks, ReadyMem, total)
             c == calloc(ReadyBlocks, ReadyMem, num, size)
  <2>1. heap_start' = 0 /\ overrun' = FALSE /\ blocks' = c.blocks /\ mem' = c.mem
        /\ live' = IF c.ptr = NULL THEN live ELSE Holds(live, c.ptr, N)
    BY <1>3 DEF Calloc, Granted
  <2>2. HeapOK(ReadyBlocks, ReadyMem, live)
    BY ReadyOK
  <2>7. N # 0
    BY <1>1, <1>3
  <2>4. c = IF r.ptr = NULL THEN r
            ELSE [ptr    |-> r.ptr, blocks |-> r.blocks,
                  mem    |-> memset(r.mem, r.ptr, 0, total)]
    BY DEF calloc
  <2> HIDE DEF total, N
  <2>3. \/ r.ptr = NULL /\ r.blocks = ReadyBlocks /\ r.mem = ReadyMem
        \/ r.ptr # NULL /\ HeapOK(r.blocks, r.mem, Holds(live, r.ptr, total))
    BY <1>1, <1>3, <2>2, MallocOK
  <2> HIDE DEF r, c
  <2>5. CASE r.ptr = NULL
    <3>1. HeapOK(blocks', mem', live')
      BY <2>1, <2>2, <2>3, <2>4, <2>5
    <3> QED  BY <2>1, <3>1, IInvNext
  <2>6. CASE r.ptr # NULL
    <3> DEFINE l == Holds(live, r.ptr, total)
               w == memset(r.mem, r.ptr, 0, total)
    <3>1. c.ptr = r.ptr /\ c.blocks = r.blocks /\ c.mem = w
      BY <2>4, <2>6
    <3>2. HeapOK(r.blocks, r.mem, l) /\ r.ptr \in DOMAIN l /\ l[r.ptr] = total
      BY <2>3, <2>6 DEF Holds
    <3>6. [l EXCEPT ![r.ptr] = N] = Holds(live, r.ptr, N)
      BY DEF Holds
    <3> HIDE DEF l
    <3>3. total <= r.blocks[r.ptr - Hdr].size /\ r.blocks[r.ptr - Hdr].size \in Nat
      BY <1>1, <3>2, HeldBlock DEF HeapOK
    <3>4. HeapOK(r.blocks, w, l)
      BY <1>1, <3>2, <3>3, MemsetOK
    <3> HIDE DEF w
    <3>7. HeapOK(r.blocks, w, [l EXCEPT ![r.ptr] = N])
      <4>1. N \in Nat /\ N > 0 /\ (N < SizeMod => r.blocks[r.ptr - Hdr].size >= N)
        BY <1>1, <2>7, <3>3
      <4> QED  BY <3>2, <3>4, <4>1, ResizedOK
    <3>5. HeapOK(blocks', mem', live')
      BY <2>1, <2>6, <3>1, <3>6, <3>7
    <3> QED  BY <2>1, <3>5, IInvNext
  <2> QED  BY <2>5, <2>6
<1> QED  BY <1>2, <1>3

\* free preserves it, coalescing included.
LEMMA FreeStep ==
    ASSUME IInv, overrun = FALSE, NEW p \in DOMAIN live, Free(p)
    PROVE  IInv'
<1>1. heap_start = 0 /\ HeapOK(blocks, mem, live)
  BY IInvSplit
<1>2. HeapOK(free(blocks, p), mem, Drops(live, p))
  BY <1>1, FreeOK
<1>3. heap_start' = 0 /\ overrun' = FALSE /\ HeapOK(blocks', mem', live')
  BY <1>1, <1>2 DEF Free
<1> QED  BY <1>3, IInvNext

\* A realloc that stays where it is preserves it.
LEMMA ReallocInPlaceStep ==
    ASSUME IInv, overrun = FALSE, NEW p \in DOMAIN live, NEW n \in Nat, n < SizeMod, ReallocInPlace(p, n)
    PROVE  IInv'
<1>1. heap_start = 0 /\ HeapOK(blocks, mem, live)
  BY IInvSplit
<1>2. HeapOK(blocks, mem, [live EXCEPT ![p] = n])
  BY <1>1, ResizedOK DEF ReallocInPlace
<1>3. heap_start' = 0 /\ overrun' = FALSE /\ HeapOK(blocks', mem', live')
  BY <1>1, <1>2 DEF ReallocInPlace
<1> QED  BY <1>3, IInvNext

\* realloc that moves: the copy stays within both blocks, and what is left
\* after the free is a well-formed heap without p.
LEMMA ReallocMoveStep ==
    ASSUME IInv, overrun = FALSE, NEW p \in DOMAIN live, NEW n \in Nat, n < SizeMod, ReallocMove(p, n)
    PROVE  IInv'
<1> USE HeapAssumption
<1> DEFINE r == malloc(blocks, mem, n)
           c == realloc_move(blocks, mem, p, n)
           k == blocks[p - Hdr].size
<1>1. heap_start = 0 /\ HeapOK(blocks, mem, live)
  BY IInvSplit
<1>2. p - Hdr \in Used(blocks) /\ k \in Nat \ {0} /\ k < n
  BY <1>1, HeldBlock DEF ReallocMove
<1>3. /\ heap_start' = heap_start /\ overrun' = FALSE
      /\ blocks' = c.blocks /\ mem' = c.mem
      /\ live' = IF c.ptr = NULL THEN live ELSE Holds(Drops(live, p), c.ptr, n)
  BY DEF ReallocMove
<1>4. c = IF r.ptr = NULL THEN r
          ELSE [ptr |-> r.ptr, blocks |-> free(r.blocks, p), mem |-> memcpy(r.mem, r.ptr, p, k)]
  BY DEF realloc_move
<1>5. \/ r.ptr = NULL /\ r.blocks = blocks /\ r.mem = mem
      \/ /\ r.ptr # NULL /\ r.ptr \notin DOMAIN live
         /\ HeapOK(r.blocks, r.mem, Holds(live, r.ptr, n))
         /\ \A b \in Used(blocks) : r.blocks[b] = blocks[b]
  BY <1>1, <1>2, MallocOK
<1> HIDE DEF r, c
<1>6. CASE r.ptr = NULL
  <2>1. HeapOK(blocks', mem', live')
    BY <1>1, <1>3, <1>4, <1>5, <1>6
  <2> QED  BY <1>1, <1>3, <2>1, IInvNext
<1>7. CASE r.ptr # NULL
  <2> DEFINE l == Holds(live, r.ptr, n)
             w == memcpy(r.mem, r.ptr, p, k)
  <2>1. /\ HeapOK(r.blocks, r.mem, l) /\ r.ptr # p
        /\ r.ptr \in DOMAIN l /\ p \in DOMAIN l /\ l[r.ptr] = n
        /\ r.blocks[p - Hdr].size = k
    BY <1>2, <1>5, <1>7 DEF Holds
  <2> HIDE DEF l, k
  <2>2. r.blocks[r.ptr - Hdr].size \in Nat /\ n <= r.blocks[r.ptr - Hdr].size
    BY <2>1, HeldBlock DEF HeapOK
  <2>3. HeapOK(r.blocks, w, l)
    BY <1>2, <2>1, <2>2, MemcpyOK
  <2> HIDE DEF w
  <2>4. HeapOK(free(r.blocks, p), w, Drops(l, p))
    BY <2>1, <2>3, FreeOK
  <2>5. Drops(l, p) = Holds(Drops(live, p), r.ptr, n)
    <3>1. (DOMAIN live \cup {r.ptr}) \ {p} = (DOMAIN live \ {p}) \cup {r.ptr}
      BY <2>1
    <3> QED  BY <2>1, <3>1 DEF l, Holds, Drops, Restrict
  <2>6. HeapOK(blocks', mem', live')
    BY <1>3, <1>4, <1>7, <2>4, <2>5 DEF w
  <2> QED  BY <1>1, <1>3, <2>6, IInvNext
<1> QED  BY <1>6, <1>7

\* A caller's write preserves it: inside its own block, or as an overrun after
\* which nothing more is said of the headers.
LEMMA ClientWriteStep ==
    ASSUME IInv, overrun = FALSE, NEW p \in DOMAIN live, NEW c \in Byte, ClientWrite(p, c)
    PROVE  IInv'
<1> USE HeapAssumption
<1>1. heap_start = 0 /\ HeapOK(blocks, mem, live)
  BY IInvSplit
<1>2. CASE live[p] < SizeMod
  <2>1. live[p] \in Nat /\ live[p] <= blocks[p - Hdr].size
    BY <1>1, <1>2 DEF HeapOK
  <2>2. HeapOK(blocks, memset(mem, p, c, live[p]), live)
    BY <1>1, <2>1, MemsetOK
  <2>3. overrun' = FALSE
    <3>1. (live[p] >= SizeMod) = FALSE
      BY <1>2, <2>1
    <3> QED  BY <3>1, Zenon DEF ClientWrite
  <2>4. heap_start' = 0 /\ HeapOK(blocks', mem', live')
    BY <1>1, <2>2 DEF ClientWrite
  <2> QED  BY <2>3, <2>4, IInvNext
<1>3. CASE ~(live[p] < SizeMod)
  <2>1. live[p] \in Nat
    BY <1>1 DEF HeapOK
  <2>2. overrun' = TRUE
    <3>1. live[p] >= SizeMod
      BY <1>3, <2>1
    <3> QED  BY <3>1, Zenon DEF ClientWrite
  <2>3. mem' \in [Addr -> Cells]
    BY <1>1 DEF ClientWrite, memset, HeapOK, Cells
  <2>4. UNCHANGED <<heap_start, blocks, live>>
    BY DEF ClientWrite
  <2>5. TypeOK'
    BY <2>2, <2>3, <2>4 DEF IInv, TypeOK
  <2> QED  BY <2>2, <2>4, <2>5 DEF IInv, Tiles, NoAdjacentFree, UsedIsLive, HeadersIntact
<1> QED  BY <1>2, <1>3

\* init_heap preserves it.
LEMMA InitHeapStep ==
    ASSUME IInv, overrun = FALSE, init_heap
    PROVE  IInv'
<1>1. ReadyBlocks = InitialBlocks /\ ReadyMem = WriteHeader(mem, 0)
  BY DEF init_heap, ReadyBlocks, ReadyMem
<1>2. heap_start' = 0 /\ overrun' = FALSE /\ HeapOK(blocks', mem', live')
  BY <1>1, ReadyOK DEF init_heap
<1> QED  BY <1>2, IInvNext

\* Every step, or none, preserves the invariant.
LEMMA NextOK == IInv /\ [Next]_vars => IInv'
<1> SUFFICES ASSUME IInv, [Next]_vars
             PROVE  IInv'
  OBVIOUS
<1> USE HeapAssumption
<1>1. CASE UNCHANGED vars
  BY <1>1, IInvSame
<1>2. CASE ~overrun /\ Call
  <2>0. overrun = FALSE
    BY <1>2 DEF IInv, TypeOK
  <2>7. \A n \in Sizes : n \in Nat /\ n < SizeMod
    OBVIOUS
  <2>1. CASE init_heap
    BY <2>0, <2>1, InitHeapStep
  <2>2. CASE \E n \in Sizes : Malloc(n)
    BY <2>0, <2>2, <2>7, MallocStep
  <2>3. CASE \E num, size \in Sizes : Calloc(num, size)
    BY <2>0, <2>3, <2>7, CallocStep
  <2>4. ASSUME NEW p \in DOMAIN live, Free(p)
        PROVE  IInv'
    BY <2>0, <2>4, FreeStep
  <2>5. ASSUME NEW p \in DOMAIN live, NEW n \in Sizes, Realloc(p, n)
        PROVE  IInv'
    BY <2>0, <2>4, <2>5, <2>7, ReallocInPlaceStep, ReallocMoveStep DEF Realloc
  <2>6. ASSUME NEW p \in DOMAIN live, NEW c \in Byte, ClientWrite(p, c)
        PROVE  IInv'
    BY <2>0, <2>6, ClientWriteStep
  <2> QED  BY <1>2, <2>1, <2>2, <2>3, <2>4, <2>5, <2>6 DEF Call
<1> QED  BY <1>1, <1>2 DEF Next, Overrun

----------------------------------------------------------------------------
(* The theorems.                                                           *)

\* The free list, the array and the callers' pointers fit together after
\* every sequence of calls, for every arena size, header size and request.
THEOREM HeapInvariant == Spec => []IInv
BY InitOK, NextOK, PTL DEF Spec

\* heap_start, the headers, the cells and the callers' pointers keep their
\* types: no size goes negative and no block starts outside heap_memory.
THEOREM HeapTypes == Spec => []TypeOK
<1>1. IInv => TypeOK
  BY DEF IInv
<1> QED  BY <1>1, HeapInvariant, PTL

\* The linked blocks cover heap_memory without gap or overlap.
THEOREM HeapTiles == Spec => []Tiles
<1>1. IInv => Tiles
  BY DEF IInv
<1> QED  BY <1>1, HeapInvariant, PTL

\* No call leaves two neighbouring free blocks, although only free runs
\* coalesce.
THEOREM HeapCoalesced == Spec => []NoAdjacentFree
<1>1. IInv => NoAdjacentFree
  BY DEF IInv
<1> QED  BY <1>1, HeapInvariant, PTL

\* The blocks marked used are exactly those whose payload a caller holds.
THEOREM HeapUsedIsLive == Spec => []UsedIsLive
<1>1. IInv => UsedIsLive
  BY DEF IInv
<1> QED  BY <1>1, HeapInvariant, PTL

\* No write to a payload reaches a linked header.
THEOREM HeapHeadersIntact == Spec => []HeadersIntact
<1>1. IInv => HeadersIntact
  BY DEF IInv
<1> QED  BY <1>1, HeapInvariant, PTL

\* A heap whose callers hold nothing is the heap init_heap made.
THEOREM HeapForgets == Spec => []EmptyHeapIsWhole
<1>1. ASSUME IInv, heap_start = 0, DOMAIN live = {}
      PROVE  blocks = InitialBlocks
  <2> USE HeapAssumption
  <2>1. IsList(blocks) /\ NoFreePair(blocks)
    BY <1>1, ListAlways
  <2>2. Used(blocks) = {}
    BY <1>1 DEF IInv, UsedIsLive, Used
  <2>3. 0 \in DOMAIN blocks /\ blocks[0].next = NULL
    <3>1. 0 \in DOMAIN blocks /\ blocks[0].is_free
          /\ (blocks[0].next # NULL => blocks[0].next \in DOMAIN blocks)
      BY <2>1, <2>2, ListBounds DEF Used
    <3> QED  BY <2>1, <2>2, <3>1 DEF NoFreePair, Used
  <2>4. End(blocks, 0) = HeapSize
    BY <2>1, <2>3, ListBounds
  <2>5. DOMAIN blocks = {0}
    <3>1. \A b \in DOMAIN blocks : b \in Nat /\ b < HeapSize /\ (0 < b => HeapSize <= b)
      BY <2>1, <2>3, <2>4, ListBounds
    <3>2. \A b \in DOMAIN blocks : b = 0
      BY <3>1
    <3> QED  BY <2>3, <3>2
  <2>6. blocks[0] = [size |-> HeapSize - Hdr, is_free |-> TRUE, next |-> NULL]
    <3>1. blocks[0] \in Block /\ blocks[0].is_free /\ blocks[0].size = HeapSize - Hdr
      BY <2>1, <2>2, <2>3, <2>4, ListBounds DEF Used, IsList
    <3> QED  BY <2>3, <3>1 DEF Block
  <2> QED  BY <2>1, <2>5, <2>6 DEF InitialBlocks, IsList
<1>2. IInv => EmptyHeapIsWhole
  BY <1>1 DEF EmptyHeapIsWhole
<1> QED  BY <1>2, HeapInvariant, PTL

\* malloc refuses a request only when no hole between the used blocks has
\* room for it and its header.
THEOREM HeapNoFalseExhaustion == Spec => []NoFalseExhaustion
<1>1. ASSUME IInv, heap_start = 0,
             NEW n \in 1..HeapSize, NEW i \in 0..(HeapSize - Hdr - n),
             \A a \in DOMAIN blocks : ~blocks[a].is_free =>
                i + Hdr + n <= a \/ End(blocks, a) <= i
      PROVE  Fits(blocks, n) # {}
  <2> USE HeapAssumption
  <2>1. IsList(blocks) /\ NoFreePair(blocks)
    BY <1>1, ListAlways
  <2>2. PICK a \in DOMAIN blocks : a <= i /\ i < End(blocks, a)
    <3>1. i \in Addr
      BY DEF Addr
    <3> QED  BY <2>1, <3>1, Covering
  <2>3. blocks[a].is_free
    BY <1>1, <2>1, <2>2, ListBounds
  <2>4. i + Hdr + n <= End(blocks, a)
    <3>1. CASE End(blocks, a) = HeapSize
      BY <3>1
    <3>2. CASE End(blocks, a) # HeapSize
      <4> DEFINE b == End(blocks, a)
      <4>1. b \in DOMAIN blocks /\ blocks[a].next = b /\ b \in Nat /\ b < End(blocks, b)
            /\ End(blocks, b) \in Nat
        BY <2>1, <3>2, ListBounds
      <4>2. ~blocks[b].is_free
        BY <2>1, <2>3, <4>1, ListBounds DEF NoFreePair
      <4> HIDE DEF b
      <4>3. i + Hdr + n <= b \/ End(blocks, b) <= i
        BY <1>1, <4>1, <4>2
      <4> QED  BY <2>2, <4>1, <4>3 DEF b
    <3> QED  BY <3>1, <3>2
  <2>5. blocks[a].size >= n
    BY <2>1, <2>2, <2>4, ListBounds
  <2> QED  BY <2>3, <2>5 DEF Fits
<1>2. IInv => NoFalseExhaustion
  BY <1>1 DEF NoFalseExhaustion
<1> QED  BY <1>2, HeapInvariant, PTL

----------------------------------------------------------------------------
(* Refinement: the heap implements Allocator; what a caller owns is live,  *)
(* the arena is mem.                                                       *)

\* Extents of two pointers held whole lie in the arena and do not meet.
LEMMA ExtentsApart ==
    ASSUME NEW h, NEW m, NEW l, HeapOK(h, m, l), NEW p \in Whole(l)
    PROVE  /\ p \in Addr
           /\ l[p] \in 1..HeapSize
           /\ Span(p, l[p]) \subseteq Addr
           /\ \A b \in DOMAIN h : Span(p, l[p]) \cap Span(b, Hdr) = {}
           /\ \A q \in Whole(l) : p # q => Span(p, l[p]) \cap Span(q, l[q]) = {}
<1> USE HeapAssumption
<1> DEFINE Pay(q) == Span(q, h[q - Hdr].size)
<1>1. \A q \in Whole(l) :
         /\ q - Hdr \in DOMAIN h /\ (q - Hdr) + Hdr = q /\ q \in Nat
         /\ h[q - Hdr].size \in Nat /\ l[q] \in Nat \ {0} /\ l[q] <= h[q - Hdr].size
  BY HeldBlock DEF HeapOK, Whole
<1>2. IsList(h)
  BY DEF HeapOK
<1>3. \A q \in Whole(l) : Span(q, l[q]) \subseteq Pay(q)
  BY <1>1 DEF Span
<1>4. /\ Pay(p) \subseteq Addr
      /\ \A b \in DOMAIN h : Pay(p) \cap Span(b, Hdr) = {}
  <2>1. /\ Span((p - Hdr) + Hdr, h[p - Hdr].size) \subseteq Addr
        /\ \A b \in DOMAIN h : Span((p - Hdr) + Hdr, h[p - Hdr].size) \cap Span(b, Hdr) = {}
    BY <1>1, <1>2, PayloadBounds
  <2> QED  BY <1>1, <2>1
<1>5. \A q \in Whole(l) : p # q => Pay(p) \cap Pay(q) = {}
  <2> TAKE q \in Whole(l)
  <2> HAVE p # q
  <2>1. p - Hdr # q - Hdr
    BY <1>1
  <2>2. Span((p - Hdr) + Hdr, h[p - Hdr].size) \cap Span((q - Hdr) + Hdr, h[q - Hdr].size) = {}
    BY <1>1, <1>2, <2>1, PayloadBounds
  <2> QED  BY <1>1, <2>2
<1>6. p \in Span(p, l[p]) /\ p + l[p] - 1 \in Span(p, l[p])
  BY <1>1 DEF Span
<1>7. p \in Addr /\ p + l[p] - 1 \in Addr
  BY <1>3, <1>4, <1>6
<1>8. l[p] \in 1..HeapSize
  BY <1>1, <1>7 DEF Addr
<1> HIDE DEF Pay
<1> QED  BY <1>3, <1>4, <1>5, <1>7, <1>8

\* malloc writes nothing a caller holds.
LEMMA MallocQuiet ==
    ASSUME NEW h, NEW m, NEW l, HeapOK(h, m, l), NEW n \in Nat \ {0}
    PROVE  \A q \in Whole(l) : \A x \in Span(q, l[q]) : malloc(h, m, n).mem[x] = m[x]
<1> DEFINE r == malloc(h, m, n)
           a == find_free_block(h, n)
<1>1. CASE r.mem = m
  BY <1>1
<1>2. CASE r.mem # m
  <2>1. a # NULL /\ r.mem = WriteHeader(m, a + Hdr + n) /\ r.ptr = a + Hdr /\ Splits(h, a, n)
        /\ r.blocks = Taken(h, a, n)
    BY <1>2 DEF malloc, Taken
  <2>2. IsList(h) /\ DOMAIN h \subseteq Nat
    BY ListBounds DEF HeapOK
  <2>3. a \in Fits(h, n)
    BY <2>1, <2>2, FirstFit
  <2>4. a + Hdr + n \in DOMAIN r.blocks
    BY <2>1, <2>2, <2>3, TakenOK
  <2>5. HeapOK(r.blocks, r.mem, Holds(l, r.ptr, n)) /\ r.ptr \notin DOMAIN l
    <3>1. NULL \notin Int /\ a \in Int /\ Hdr \in Int
      BY <2>2, <2>3, HeapAssumption DEF Fits
    <3>2. a + Hdr # NULL
      BY <3>1
    <3>3. r.ptr # NULL
      BY <2>1, <3>2
    <3> HIDE DEF r, a
    <3>4. \/ r.ptr = NULL
          \/ HeapOK(r.blocks, r.mem, Holds(l, r.ptr, n)) /\ r.ptr \notin DOMAIN l
      BY MallocOK DEF r
    <3> QED  BY <3>3, <3>4
  <2> HIDE DEF r, a
  <2> DEFINE k == Holds(l, r.ptr, n)
  <2>6. \A q \in Whole(l) : q \in Whole(k) /\ k[q] = l[q]
    BY <2>5 DEF Holds, Whole
  <2> HIDE DEF k
  <2>7. \A q \in Whole(k) : /\ Span(q, k[q]) \subseteq Addr
                            /\ Span(q, k[q]) \cap Span(a + Hdr + n, Hdr) = {}
    <3>1. HeapOK(r.blocks, r.mem, k)
      BY <2>5 DEF k
    <3> QED  BY <2>4, <3>1, ExtentsApart
  <2>8. \A q \in Whole(l) : \A x \in Span(q, l[q]) :
           x \in Addr /\ x \notin Span(a + Hdr + n, Hdr)
    BY <2>6, <2>7
  <2>9. \A q \in Whole(l) : \A x \in Span(q, l[q]) : r.mem[x] = m[x]
    BY <2>1, <2>8 DEF WriteHeader
  <2> QED  BY <2>9 DEF r
<1> QED  BY <1>1, <1>2

----------------------------------------------------------------------------
(* The mapping, step by step.                                              *)

\* The allocator's cells and extents are the heap's.
LEMMA SameArena ==
    /\ Abstract!Arena = Addr
    /\ \A p, n : Abstract!Extent(p, n) = Span(p, n)
    /\ Abstract!Full = Whole(live)
BY DEF Abstract!Arena, Addr, Abstract!Extent, Span, Abstract!Full, Whole

\* The untouched heap is an allocator with nothing owned.
LEMMA InitRefines == Init => Abstract!AllocInit
<1> SUFFICES ASSUME Init
             PROVE  Abstract!AllocInit
  OBVIOUS
<1>1. mem \in [Addr -> Cells]
  BY HeapAssumption DEF Init, Cells
<1>2. live = [p \in {} |-> 0]
  BY DEF Init
<1>3. overrun = FALSE
  BY DEF Init
<1> QED  BY <1>1, <1>2, <1>3, SameArena, Zenon DEF Abstract!AllocInit

\* What a granted pointer gives the abstract allocator.
LEMMA GrantIsFresh ==
    ASSUME NEW h, NEW m, NEW p, NEW n \in Nat \ {0}, n < SizeMod, p \notin DOMAIN live,
           HeapOK(h, m, Holds(live, p, n))
    PROVE  p \in Addr /\ n \in 1..HeapSize /\ Abstract!Fresh(p, n)
<1> DEFINE k == Holds(live, p, n)
<1>1. p \in Whole(k) /\ k[p] = n
      /\ \A q \in Whole(live) : q \in Whole(k) /\ k[q] = live[q] /\ q # p
  BY DEF Holds, Whole
<1> HIDE DEF k
<1>2. HeapOK(h, m, k)
  BY DEF k
<1>3. /\ p \in Addr /\ n \in 1..HeapSize /\ Span(p, n) \subseteq Addr
      /\ \A q \in Whole(live) : Span(p, n) \cap Span(q, live[q]) = {}
  BY <1>1, <1>2, ExtentsApart
<1> QED  BY <1>3, SameArena DEF Abstract!Fresh

\* The list is ready before the first allocation or nothing is held.
LEMMA ReadyQuiet ==
    ASSUME IInv, overrun = FALSE
    PROVE  /\ HeapOK(ReadyBlocks, ReadyMem, live)
           /\ \A q \in Whole(live) : \A x \in Span(q, live[q]) : ReadyMem[x] = mem[x]
<1>1. HeapOK(ReadyBlocks, ReadyMem, live)
  BY ReadyOK
<1>2. DOMAIN live = {} \/ ReadyMem = mem
  <2>1. NULL # 0
    BY HeapAssumption
  <2>2. heap_start = NULL => DOMAIN live = {}
    BY <2>1, IInvSplit, Zenon
  <2> QED  BY <2>2 DEF ReadyMem
<1> QED  BY <1>1, <1>2 DEF Whole

\* A step that changes no held pointer and no held cell is housekeeping.
LEMMA HousekeepingStep ==
    ASSUME NEW w \in [Addr -> Cells], mem' = w, UNCHANGED <<live, overrun>>,
           \A q \in Whole(live) : \A x \in Span(q, live[q]) : w[x] = mem[x]
    PROVE  Abstract!Housekeeping
BY SameArena DEF Abstract!Housekeeping, Abstract!Undisturbed

\* malloc is a grant, or housekeeping when it refuses.
LEMMA MallocRefines ==
    ASSUME IInv, overrun = FALSE, NEW n \in Nat, n < SizeMod, Malloc(n)
    PROVE  Abstract!Operation \/ UNCHANGED Abstract!allocVars
<1>1. CASE n = 0
  BY <1>1 DEF Malloc, vars, Abstract!allocVars
<1>2. CASE n # 0
  <2> DEFINE r == malloc(ReadyBlocks, ReadyMem, n)
  <2>1. blocks' = r.blocks /\ mem' = r.mem /\ UNCHANGED overrun
        /\ live' = IF r.ptr = NULL THEN live ELSE Holds(live, r.ptr, n)
    BY <1>2 DEF Malloc, Granted
  <2>2. HeapOK(ReadyBlocks, ReadyMem, live)
    BY ReadyOK
  <2>3. \/ r.ptr = NULL /\ r.blocks = ReadyBlocks /\ r.mem = ReadyMem
        \/ /\ r.ptr # NULL /\ r.ptr \notin DOMAIN live
           /\ HeapOK(r.blocks, r.mem, Holds(live, r.ptr, n))
    BY <1>2, <2>2, MallocOK
  <2>4. \A q \in Whole(live) : \A x \in Span(q, live[q]) : r.mem[x] = mem[x]
    <3>1. \A q \in Whole(live) : \A x \in Span(q, live[q]) : r.mem[x] = ReadyMem[x]
      BY <1>2, <2>2, MallocQuiet
    <3> QED  BY <3>1, ReadyQuiet
  <2>5. r.mem \in [Addr -> Cells]
    BY <2>2, <2>3 DEF HeapOK
  <2> HIDE DEF r
  <2>6. CASE r.ptr = NULL
    <3>1. Abstract!Housekeeping
      BY <2>1, <2>4, <2>5, <2>6, HousekeepingStep
    <3> QED  BY <3>1 DEF Abstract!Operation
  <2>7. CASE r.ptr # NULL
    <3>1. r.ptr \in Addr /\ n \in 1..HeapSize /\ Abstract!Fresh(r.ptr, n)
      BY <1>2, <2>3, <2>7, GrantIsFresh
    <3>2. live' = Abstract!With(live, r.ptr, n)
      BY <2>1, <2>7 DEF Holds, Abstract!With
    <3>3. Abstract!Undisturbed(Whole(live))
      BY <2>1, <2>4, SameArena DEF Abstract!Undisturbed
    <3>4. Abstract!Grant(n)
      BY <2>1, <2>5, <3>1, <3>2, <3>3, SameArena DEF Abstract!Grant
    <3> QED  BY <3>1, <3>4 DEF Abstract!Operation
  <2> QED  BY <2>6, <2>7
<1> QED  BY <1>1, <1>2

\* calloc is a zeroed grant, or a short one when its product wraps, or
\* housekeeping when it refuses.
LEMMA CallocRefines ==
    ASSUME IInv, overrun = FALSE, NEW num \in Nat, NEW size \in Nat, Calloc(num, size)
    PROVE  Abstract!Operation \/ UNCHANGED Abstract!allocVars
<1> USE HeapAssumption
<1> DEFINE N == num * size
           total == N % SizeMod
<1>1. N \in Nat /\ total \in Nat /\ total < SizeMod /\ (N < SizeMod => total = N)
  BY Product
<1>2. CASE total = 0
  BY <1>2 DEF Calloc, vars, Abstract!allocVars
<1>3. CASE total # 0
  <2> DEFINE r == malloc(ReadyBlocks, ReadyMem, total)
             c == calloc(ReadyBlocks, ReadyMem, num, size)
  <2>1. mem' = c.mem /\ UNCHANGED overrun
        /\ live' = IF c.ptr = NULL THEN live ELSE Holds(live, c.ptr, N)
    BY <1>3 DEF Calloc, Granted
  <2>2. HeapOK(ReadyBlocks, ReadyMem, live)
    BY ReadyOK
  <2>5. c = IF r.ptr = NULL THEN r
            ELSE [ptr    |-> r.ptr, blocks |-> r.blocks,
                  mem    |-> memset(r.mem, r.ptr, 0, total)]
    BY DEF calloc
  <2> HIDE DEF total, N
  <2>3. \/ r.ptr = NULL /\ r.blocks = ReadyBlocks /\ r.mem = ReadyMem
        \/ /\ r.ptr # NULL /\ r.ptr \notin DOMAIN live
           /\ HeapOK(r.blocks, r.mem, Holds(live, r.ptr, total))
    BY <1>1, <1>3, <2>2, MallocOK
  <2>4. \A q \in Whole(live) : \A x \in Span(q, live[q]) : r.mem[x] = mem[x]
    <3>1. \A q \in Whole(live) : \A x \in Span(q, live[q]) : r.mem[x] = ReadyMem[x]
      BY <1>1, <1>3, <2>2, MallocQuiet
    <3> QED  BY <3>1, ReadyQuiet
  <2>6. r.mem \in [Addr -> Cells]
    BY <2>2, <2>3 DEF HeapOK
  <2> HIDE DEF r, c
  <2>7. CASE r.ptr = NULL
    <3>1. Abstract!Housekeeping
      BY <2>1, <2>4, <2>5, <2>6, <2>7, HousekeepingStep
    <3> QED  BY <3>1 DEF Abstract!Operation
  <2>8. CASE r.ptr # NULL
    <3> DEFINE w == memset(r.mem, r.ptr, 0, total)
    <3>1. mem' = w /\ live' = Holds(live, r.ptr, N)
      BY <2>1, <2>5, <2>8
    <3>2. /\ r.ptr \in Addr /\ total \in 1..HeapSize /\ Abstract!Fresh(r.ptr, total)
      BY <1>1, <1>3, <2>3, <2>8, GrantIsFresh
    <3>3. /\ Span(r.ptr, total) \subseteq Addr
          /\ \A q \in Whole(live) : Span(r.ptr, total) \cap Span(q, live[q]) = {}
      BY <3>2, SameArena DEF Abstract!Fresh
    <3>4. w \in [Addr -> Cells]
      BY <2>6 DEF memset, Cells
    <3>5. \A x \in Span(r.ptr, total) : w[x] = 0
      BY <3>3 DEF memset
    <3>6. \A q \in Whole(live) : Span(q, live[q]) \subseteq Addr
      BY <2>2, ExtentsApart
    <3>7. \A q \in Whole(live) : \A x \in Span(q, live[q]) : w[x] = mem[x]
      BY <2>4, <3>3, <3>6 DEF memset
    <3> HIDE DEF w
    <3>8. live' = Abstract!With(live, r.ptr, N)
      BY <3>1 DEF Holds, Abstract!With
    <3>9. Abstract!Undisturbed(Whole(live))
      BY <3>1, <3>7, SameArena DEF Abstract!Undisturbed
    <3>10. CASE N < SizeMod
      <4>1. N = total
        BY <1>1, <3>10
      <4>2. Abstract!GrantZeroed(total)
        BY <2>1, <3>1, <3>2, <3>4, <3>5, <3>8, <3>9, <4>1, SameArena
           DEF Abstract!GrantZeroed
      <4> QED  BY <3>2, <4>2 DEF Abstract!Operation
    <3>11. CASE ~(N < SizeMod)
      <4>1. r.ptr \in DOMAIN live' /\ live'[r.ptr] = N
        BY <3>1 DEF Holds
      <4>2. r.ptr \in Addr \ DOMAIN live
        BY <2>3, <2>8, <3>2
      <4>3. N >= SizeMod
        BY <1>1, <3>11
      <4>4. Abstract!GrantShort
        BY <2>1, <3>1, <3>4, <3>8, <3>9, <4>1, <4>2, <4>3, SameArena
           DEF Abstract!GrantShort
      <4> QED  BY <4>4 DEF Abstract!Operation
    <3> QED  BY <3>10, <3>11
  <2> QED  BY <2>7, <2>8
<1> QED  BY <1>2, <1>3

\* free is a release.
LEMMA FreeRefines ==
    ASSUME IInv, overrun = FALSE, NEW p \in DOMAIN live, Free(p)
    PROVE  Abstract!Operation \/ UNCHANGED Abstract!allocVars
<1>1. mem \in [Addr -> Cells]
  BY IInvSplit DEF HeapOK
<1>2. mem' = mem /\ live' = Restrict(live, DOMAIN live \ {p}) /\ UNCHANGED overrun
  BY DEF Free, Drops
<1>3. Abstract!Undisturbed(Whole(live) \ {p})
  BY <1>2 DEF Abstract!Undisturbed
<1>4. Abstract!Release(p)
  BY <1>1, <1>2, <1>3, SameArena DEF Abstract!Release, Restrict, Abstract!Restrict
<1> QED  BY <1>4 DEF Abstract!Operation

\* A realloc that stays where it is is a resize.
LEMMA ReallocInPlaceRefines ==
    ASSUME IInv, overrun = FALSE, NEW p \in DOMAIN live, NEW n \in Nat, n < SizeMod, ReallocInPlace(p, n)
    PROVE  Abstract!Operation \/ UNCHANGED Abstract!allocVars
<1> DEFINE l == [live EXCEPT ![p] = n]
<1>2. HeapOK(blocks, mem, live)
  BY IInvSplit
<1>3. p \in Whole(l) /\ l[p] = n
      /\ \A q \in Whole(live) \ {p} : q \in Whole(l) /\ l[q] = live[q]
  BY DEF Whole
<1>4. HeapOK(blocks, mem, l)
  BY <1>2, ResizedOK DEF ReallocInPlace
<1> HIDE DEF l
<1>5. /\ n \in 1..HeapSize /\ Span(p, n) \subseteq Addr
      /\ \A q \in Whole(live) \ {p} : Span(p, n) \cap Span(q, live[q]) = {}
  BY <1>3, <1>4, ExtentsApart
<1>6. Abstract!ResizeInPlace(p, n)
  BY <1>5, SameArena DEF ReallocInPlace, Abstract!ResizeInPlace
<1> QED  BY <1>5, <1>6 DEF Abstract!Operation

\* A realloc that moves carries the contents over; one that fails changes nothing held.
LEMMA ReallocMoveRefines ==
    ASSUME IInv, overrun = FALSE, NEW p \in DOMAIN live, NEW n \in Nat, n < SizeMod, ReallocMove(p, n)
    PROVE  Abstract!Operation \/ UNCHANGED Abstract!allocVars
<1> USE HeapAssumption
<1> DEFINE r == malloc(blocks, mem, n)
           c == realloc_move(blocks, mem, p, n)
           k == blocks[p - Hdr].size
<1>1. heap_start = 0 /\ HeapOK(blocks, mem, live)
  BY IInvSplit
<1>2. /\ k \in Nat \ {0} /\ k < n /\ live[p] \in Nat \ {0}
      /\ p \in Whole(live) => live[p] <= k
      /\ p \in Nat
      /\ n \in Nat \ {0}
  <2>1. k \in Nat \ {0} /\ p \in Nat
    BY <1>1, HeldBlock
  <2> QED  BY <1>1, <2>1 DEF ReallocMove, HeapOK, Whole
<1>3. mem' = c.mem /\ UNCHANGED overrun
      /\ live' = IF c.ptr = NULL THEN live ELSE Holds(Drops(live, p), c.ptr, n)
  BY DEF ReallocMove
<1>4. c = IF r.ptr = NULL THEN r
          ELSE [ptr |-> r.ptr, blocks |-> free(r.blocks, p), mem |-> memcpy(r.mem, r.ptr, p, k)]
  BY DEF realloc_move
<1>5. \/ r.ptr = NULL /\ r.blocks = blocks /\ r.mem = mem
      \/ /\ r.ptr # NULL /\ r.ptr \notin DOMAIN live
         /\ HeapOK(r.blocks, r.mem, Holds(live, r.ptr, n))
         /\ \A b \in Used(blocks) : r.blocks[b] = blocks[b]
  BY <1>1, <1>2, MallocOK
<1>6. \A q \in Whole(live) : \A x \in Span(q, live[q]) : r.mem[x] = mem[x]
  BY <1>1, <1>2, MallocQuiet
<1> HIDE DEF r, c
<1>7. CASE r.ptr = NULL
  BY <1>3, <1>4, <1>5, <1>7 DEF Abstract!allocVars
<1>8. CASE r.ptr # NULL
  <2> DEFINE l == Holds(live, r.ptr, n)
             w == memcpy(r.mem, r.ptr, p, k)
             t == r.ptr
  <2>1. mem' = w /\ live' = Holds(Drops(live, p), t, n)
    BY <1>3, <1>4, <1>8
  <2>2. /\ t \in Addr /\ n \in 1..HeapSize /\ Abstract!Fresh(t, n)
    BY <1>2, <1>5, <1>8, GrantIsFresh
  <2>3. /\ Span(t, n) \subseteq Addr
        /\ \A q \in Whole(live) : Span(t, n) \cap Span(q, live[q]) = {}
    BY <2>2, SameArena DEF Abstract!Fresh
  <2>4. HeapOK(r.blocks, r.mem, l) /\ t \in DOMAIN l /\ p \in DOMAIN l /\ l[t] = n
        /\ r.blocks[p - Hdr].size = k
    BY <1>1, <1>5, <1>8, HeldBlock DEF Holds
  <2> HIDE DEF l, k
  <2>5. w \in [Addr -> Cells]
    <3>1. k <= r.blocks[p - Hdr].size /\ k <= r.blocks[t - Hdr].size
      <4>1. n <= r.blocks[t - Hdr].size /\ r.blocks[t - Hdr].size \in Nat
        BY <2>4, HeldBlock DEF HeapOK
      <4> QED  BY <1>2, <2>4, <4>1
    <3>2. HeapOK(r.blocks, w, l)
      <4> HIDE DEF w, t
      <4>1. HeapOK(r.blocks, memcpy(r.mem, t, p, k), l)
        BY <1>2, <2>4, <3>1, MemcpyOK
      <4> QED  BY <4>1 DEF w, t
    <3> QED  BY <3>2 DEF HeapOK
  <2>6. Span(t, k) \subseteq Span(t, n) /\ t \in Nat
    BY <1>2, <2>2 DEF Span, Addr
  <2>7. \A q \in Whole(live) : Span(q, live[q]) \subseteq Addr
    BY <1>1, ExtentsApart
  <2>8. w = [x \in Addr |-> IF x \in Span(t, k) THEN r.mem[p + (x - t)] ELSE r.mem[x]]
    BY DEF memcpy
  <2>9. \A q \in Whole(live) \ {p} : \A x \in Span(q, live[q]) : w[x] = mem[x]
    <3> HIDE DEF w, t
    <3> QED  BY <1>6, <2>3, <2>6, <2>7, <2>8
  <2>10. ASSUME p \in Whole(live)
         PROVE  \A i \in 0..(live[p] - 1) : w[t + i] = mem[p + i]
    <3> HIDE DEF w, t
    <3> TAKE i \in 0..(live[p] - 1)
    <3>1. t + i \in Span(t, k) /\ p + ((t + i) - t) = p + i /\ p + i \in Span(p, live[p])
      BY <1>2, <2>6, <2>10 DEF Span
    <3>2. t + i \in Addr
      BY <2>3, <2>6, <3>1
    <3> QED  BY <1>6, <2>8, <2>10, <3>1, <3>2
  <2> HIDE DEF w, t
  <2>11. live' = Abstract!With(Restrict(live, DOMAIN live \ {p}), t, n)
    BY <2>1 DEF Holds, Drops, Abstract!With
  <2>12. Abstract!Undisturbed(Whole(live) \ {p})
    BY <2>1, <2>9, SameArena DEF Abstract!Undisturbed
  <2>13. Abstract!Move(p, n)
    <3>1. p \in Whole(live) => n >= live[p]
      BY <1>2
    <3>2. mem' \in [Abstract!Arena -> Cells] /\ t \in Abstract!Arena
      BY <2>1, <2>2, <2>5, SameArena
    <3>3. p \in Whole(live) => \A i \in 0..(live[p] - 1) : mem'[t + i] = mem[p + i]
      BY <2>1, <2>10
    <3> QED  BY <1>3, <2>2, <2>11, <2>12, <3>1, <3>2, <3>3, SameArena
             DEF Abstract!Move, Restrict, Abstract!Restrict
  <2> QED  BY <2>2, <2>13 DEF Abstract!Operation
<1> QED  BY <1>7, <1>8

\* A caller's write is the allocator's write, or a trespass.
LEMMA ClientWriteRefines ==
    ASSUME IInv, overrun = FALSE, NEW p \in DOMAIN live, NEW c \in Byte, ClientWrite(p, c)
    PROVE  Abstract!Operation \/ UNCHANGED Abstract!allocVars
<1>1. mem \in [Addr -> Cells]
  BY DEF IInv, TypeOK
<1>2. mem' = memset(mem, p, c, live[p]) /\ live' = live /\ overrun' = (live[p] >= SizeMod)
  BY DEF ClientWrite
<1>3. mem' \in [Addr -> Cells] /\ \A x \in Addr \ Span(p, live[p]) : mem'[x] = mem[x]
  BY <1>1, <1>2 DEF memset, Cells
<1>4. live[p] \in Nat
  BY DEF IInv, TypeOK
<1>5. CASE live[p] < SizeMod
  <2>1. (live[p] >= SizeMod) = FALSE
    BY <1>4, <1>5, HeapAssumption
  <2>2. overrun' = overrun
    BY <1>2, <2>1, Zenon
  <2>3. Abstract!Store(p)
    BY <1>2, <1>3, <1>5, <2>2, SameArena DEF Abstract!Store, Whole
  <2> QED  BY <2>3 DEF Abstract!Operation
<1>6. CASE ~(live[p] < SizeMod)
  <2>1. live[p] >= SizeMod
    BY <1>4, <1>6, HeapAssumption
  <2>2. overrun' = TRUE
    BY <1>2, <2>1, Zenon
  <2>3. DOMAIN live # Whole(live)
    BY <1>6 DEF Whole
  <2>4. Abstract!Trespass
    BY <1>2, <1>3, <2>2, <2>3, SameArena DEF Abstract!Trespass
  <2> QED  BY <2>4 DEF Abstract!Operation
<1> QED  BY <1>5, <1>6

\* init_heap is housekeeping.
LEMMA InitHeapRefines ==
    ASSUME IInv, overrun = FALSE, init_heap
    PROVE  Abstract!Operation \/ UNCHANGED Abstract!allocVars
<1>1. ReadyMem = WriteHeader(mem, 0) /\ ReadyMem \in [Addr -> Cells]
  BY ReadyOK DEF init_heap, ReadyMem, HeapOK
<1>2. Abstract!Housekeeping
  BY <1>1, ReadyQuiet, HousekeepingStep DEF init_heap
<1> QED  BY <1>2 DEF Abstract!Operation

\* Every step of the heap is a step of the allocator or changes nothing the
\* allocator sees.
LEMMA NextRefines == IInv /\ [Next]_vars => [Abstract!AllocNext]_(Abstract!allocVars)
<1> SUFFICES ASSUME IInv, [Next]_vars
             PROVE  [Abstract!AllocNext]_(Abstract!allocVars)
  OBVIOUS
<1> USE HeapAssumption
<1>1. CASE UNCHANGED vars
  BY <1>1 DEF vars, Abstract!allocVars
<1>2. CASE ~overrun /\ Call
  <2>0. overrun = FALSE
    BY <1>2 DEF IInv, TypeOK
  <2>7. \A n \in Sizes : n \in Nat /\ n < SizeMod
    OBVIOUS
  <2>1. init_heap => Abstract!Operation \/ UNCHANGED Abstract!allocVars
    BY <2>0, InitHeapRefines
  <2>2. ASSUME NEW n \in Sizes, Malloc(n)
        PROVE  Abstract!Operation \/ UNCHANGED Abstract!allocVars
    BY <2>0, <2>2, <2>7, MallocRefines
  <2>3. ASSUME NEW num \in Sizes, NEW size \in Sizes, Calloc(num, size)
        PROVE  Abstract!Operation \/ UNCHANGED Abstract!allocVars
    BY <2>0, <2>3, <2>7, CallocRefines
  <2>4. ASSUME NEW p \in DOMAIN live, Free(p)
        PROVE  Abstract!Operation \/ UNCHANGED Abstract!allocVars
    BY <2>0, <2>4, FreeRefines
  <2>5. ASSUME NEW p \in DOMAIN live, NEW n \in Sizes, Realloc(p, n)
        PROVE  Abstract!Operation \/ UNCHANGED Abstract!allocVars
    BY <2>0, <2>4, <2>5, <2>7, ReallocInPlaceRefines, ReallocMoveRefines DEF Realloc
  <2>6. ASSUME NEW p \in DOMAIN live, NEW c \in Byte, ClientWrite(p, c)
        PROVE  Abstract!Operation \/ UNCHANGED Abstract!allocVars
    BY <2>0, <2>6, ClientWriteRefines
  <2>8. Abstract!Operation \/ UNCHANGED Abstract!allocVars
    BY <1>2, <2>1, <2>2, <2>3, <2>4, <2>5, <2>6 DEF Call
  <2> QED  BY <1>2, <2>8 DEF Abstract!AllocNext
<1> QED  BY <1>1, <1>2 DEF Next, Overrun

\* memory.c implements the allocator its callers rely on: grants never meet,
\* realloc carries the contents over, and no call disturbs a cell that
\* somebody else holds, after any sequence of calls on any heap.
THEOREM HeapImplementsAllocator == Spec => AllocatorSpec
<1>1. Spec => []IInv
  BY HeapInvariant
<1>2. Spec => Abstract!AllocSpec
  BY <1>1, InitRefines, NextRefines, PTL DEF Spec, Abstract!AllocSpec
<1> QED  BY <1>2 DEF AllocatorSpec

----------------------------------------------------------------------------
(* The loops of memory.c.                                                  *)

\* Induction along the list, from its end.
LEMMA ListInduction ==
    ASSUME NEW h, IsList(h), NEW S, NULL \in S,
           \A a \in DOMAIN h : h[a].next \in S => a \in S
    PROVE  \A a \in DOMAIN h : a \in S
<1> DEFINE T == {d \in Nat : \A a \in DOMAIN h : HeapSize - a = d => a \in S}
<1>1. HeapSize \in Nat
  BY HeapAssumption
<1>2. ASSUME NEW d \in Nat, \A e \in 0..(d - 1) : e \in T PROVE d \in T
  <2> SUFFICES ASSUME NEW a \in DOMAIN h, HeapSize - a = d PROVE a \in S
    OBVIOUS
  <2>1. a \in Nat /\ a < HeapSize
    BY ListBounds
  <2>2. CASE h[a].next = NULL
    BY <2>2
  <2>3. CASE h[a].next # NULL
    <3>1. PICK b \in DOMAIN h : b = h[a].next /\ b \in Nat /\ a < b /\ b < HeapSize
      BY <2>1, <2>3, ListBounds, HeapAssumption
    <3>2. PICK e \in 0..(d - 1) : e = HeapSize - b
      BY <1>1, <2>1, <3>1
    <3>3. b \in S
      BY <1>2, <3>2
    <3> QED  BY <3>1, <3>3
  <2> QED  BY <2>2, <2>3
<1> HIDE DEF T
<1>3. \A d \in Nat : d \in T
  BY <1>2, StrongInductionNat
<1> QED  BY <1>1, <1>3, ListBounds DEF T

\* The values of a loop along the list: z behind it, and at block a what G[a]
\* makes of the value at the next block.
Follows(f, h, z, G) == f[NULL] = z /\ \A a \in DOMAIN h : f[a] = G[a][f[h[a].next]]

LEMMA ListRecursion ==
    ASSUME NEW h, IsList(h), NEW Z, NEW z \in Z, NEW G \in [DOMAIN h -> [Z -> Z]]
    PROVE  \E f \in [DOMAIN h \cup {NULL} -> Z] : Follows(f, h, z, G)
<1> DEFINE D == DOMAIN h \cup {NULL}
           m == [a \in D |-> IF a = NULL THEN 0 ELSE HeapSize - a]
           q == [a \in D |-> IF a = NULL THEN NULL ELSE h[a].next]
           E == {NULL}
           y == [a \in D |-> z]
           H == [a \in D |-> IF a = NULL THEN [x \in Z |-> x] ELSE G[a]]
<1>1. \A a \in DOMAIN h :
         /\ a \in Nat /\ a < HeapSize /\ a # NULL /\ HeapSize \in Nat
         /\ h[a].next \in D
         /\ h[a].next # NULL => h[a].next \in Nat /\ a < h[a].next /\ h[a].next < HeapSize
  BY ListBounds, HeapAssumption
<1>2. m \in [D -> Nat] /\ q \in [D -> D] /\ E \in SUBSET D /\ y \in [D -> Z]
  <2>1. ASSUME NEW a \in D PROVE (IF a = NULL THEN 0 ELSE HeapSize - a) \in Nat
    <3>1. CASE a = NULL
      BY <3>1
    <3>2. CASE a # NULL
      <4>1. a \in DOMAIN h
        BY <3>2
      <4>2. a \in Nat /\ a < HeapSize /\ HeapSize \in Nat
        BY <1>1, <4>1
      <4>3. HeapSize - a \in Nat
        <5> HIDE DEF D, m, q, E, y, H
        <5> QED  BY <4>2
      <4> QED  BY <3>2, <4>3
    <3> QED  BY <3>1, <3>2
  <2>2. ASSUME NEW a \in D PROVE (IF a = NULL THEN NULL ELSE h[a].next) \in D
    <3>1. CASE a = NULL
      BY <3>1
    <3>2. CASE a # NULL
      BY <1>1, <3>2
    <3> QED  BY <3>1, <3>2
  <2> HIDE DEF D
  <2>3. m \in [D -> Nat]
    BY <2>1
  <2>4. q \in [D -> D]
    BY <2>2
  <2>5. E \in SUBSET D
    BY DEF D
  <2> QED  BY <2>3, <2>4, <2>5
<1>3. H \in [D -> [Z -> Z]]
  OBVIOUS
<1>4. \A v \in D : v \notin E => m[q[v]] < m[v]
  <2> TAKE v \in D
  <2> HAVE v \notin E
  <2>1. v \in DOMAIN h /\ q[v] = h[v].next /\ m[v] = HeapSize - v
    BY <1>1
  <2>2. CASE h[v].next = NULL
    <3>1. m[q[v]] = 0
      BY <2>1, <2>2
    <3> QED  BY <1>1, <2>1, <3>1
  <2>3. CASE h[v].next # NULL
    <3>1. m[q[v]] = HeapSize - h[v].next
      BY <1>1, <2>1, <2>3
    <3> QED  BY <1>1, <2>1, <2>3, <3>1
  <2> QED  BY <2>2, <2>3
<1>5. PICK f \in [D -> Z] : Descends(f, D, q, E, y, H)
  <2> HIDE DEF D, m, q, E, y, H
  <2> QED  BY <1>2, <1>3, <1>4, Descent
<1>6. f[NULL] = z
  BY <1>5 DEF Descends
<1>7. \A a \in DOMAIN h : f[a] = G[a][f[h[a].next]]
  <2> TAKE a \in DOMAIN h
  <2>1. a \in D /\ a \notin E /\ q[a] = h[a].next /\ H[a] = G[a]
    BY <1>1
  <2>2. f[a] = H[a][f[q[a]]]
    <3> HIDE DEF D, q, E, y, H
    <3> QED  BY <1>5, <2>1 DEF Descends
  <2> QED  BY <2>1, <2>2
<1> QED  BY <1>6, <1>7 DEF Follows

\* The loop of find_free_block stops at the lowest block that fits.
LEMMA WalkFinds ==
    ASSUME NEW h, IsList(h), NEW n
    PROVE  WalkFrom(h, 0, n) = find_free_block(h, n)
<1> DEFINE D == DOMAIN h \cup {NULL}
           F == Fits(h, n)
           G == [a \in DOMAIN h |-> [x \in D |-> IF a \in F THEN a ELSE x]]
           IsLoop(g) == g = [cur \in D |->
                               IF cur = NULL THEN NULL
                               ELSE IF h[cur].is_free /\ h[cur].size >= n THEN cur
                               ELSE g[h[cur].next]]
           g == CHOOSE f : IsLoop(f)
<1>1. \A a \in DOMAIN h : /\ a \in Nat /\ a # NULL /\ h[a].next \in D
                          /\ a \in F <=> h[a].is_free /\ h[a].size >= n
                          /\ h[a].next # NULL =>
                                h[a].next \in DOMAIN h /\ h[a].next = End(h, a)
                          /\ \A b \in DOMAIN h : a < b => End(h, a) <= b
  BY ListBounds, HeapAssumption DEF Fits
<1>2. F \subseteq DOMAIN h
  BY DEF Fits
<1> HIDE DEF F
<1>3. \E f : IsLoop(f)
  <2>1. G \in [DOMAIN h -> [D -> D]] /\ NULL \in D
    OBVIOUS
  <2>2. PICK f \in [D -> D] :
           f[NULL] = NULL /\ \A a \in DOMAIN h : f[a] = G[a][f[h[a].next]]
    <3> DEFINE C == D
               z == NULL
    <3>1. G \in [DOMAIN h -> [C -> C]] /\ z \in C
      BY <2>1
    <3> HIDE DEF C, G, z
    <3>2. \E f \in [DOMAIN h \cup {NULL} -> C] : Follows(f, h, z, G)
      BY <3>1, ListRecursion
    <3> QED  BY <3>2 DEF C, z, Follows
  <2>3. \A a \in DOMAIN h : f[a] = IF a \in F THEN a ELSE f[h[a].next]
    <3> TAKE a \in DOMAIN h
    <3>1. f[h[a].next] \in D
      BY <1>1
    <3> QED  BY <2>2, <3>1
  <2>4. IsLoop(f)
    BY <1>1, <2>2, <2>3
  <2> QED  BY <2>4
<1>4. IsLoop(g)
  <2> HIDE DEF IsLoop
  <2> QED  BY <1>3
<1>5. WalkFrom(h, 0, n) = g[0]
  BY DEF WalkFrom
<1> HIDE DEF g
<1>6. g[NULL] = NULL /\ \A a \in DOMAIN h : g[a] = IF a \in F THEN a ELSE g[h[a].next]
  BY <1>1, <1>4
<1> DEFINE Finds(a) ==
              \/ g[a] = NULL /\ \A b \in F : b < a
              \/ g[a] \in F /\ a <= g[a] /\ \A b \in F : a <= b => g[a] <= b
           S == {NULL} \cup {a \in DOMAIN h : Finds(a)}
<1>7. ASSUME NEW a \in DOMAIN h, h[a].next \in S PROVE a \in S
  <2> SUFFICES Finds(a)
    OBVIOUS
  <2>1. CASE a \in F
    BY <1>1, <1>2, <1>6, <2>1
  <2>2. CASE a \notin F
    <3>1. g[a] = g[h[a].next]
      BY <1>6, <2>2
    <3>2. \A b \in F : a <= b => a < b /\ End(h, a) <= b
      BY <1>1, <1>2, <2>2
    <3>3. CASE h[a].next = NULL
      <4>1. g[a] = NULL
        BY <1>6, <3>1, <3>3
      <4>2. End(h, a) = HeapSize /\ \A b \in F : b < HeapSize /\ b \in Nat
        BY <1>2, <3>3, ListBounds, HeapAssumption
      <4> QED  BY <1>1, <1>2, <3>2, <4>1, <4>2, HeapAssumption
    <3>4. CASE h[a].next # NULL
      <4>1. PICK e \in DOMAIN h : e = h[a].next /\ e = End(h, a) /\ e \in Nat /\ a < e
        BY <1>1, <3>4, ListBounds, HeapAssumption
      <4>2. Finds(e)
        BY <1>1, <1>7, <4>1
      <4> QED  BY <1>1, <1>2, <3>1, <3>2, <4>1, <4>2
    <3> QED  BY <3>3, <3>4
  <2> QED  BY <2>1, <2>2
<1>8. \A a \in DOMAIN h : a \in S
  <2> HIDE DEF S
  <2>1. NULL \in S
    BY DEF S
  <2> QED  BY <1>7, <2>1, ListInduction
<1>9. Finds(0)
  <2>1. 0 \in DOMAIN h
    BY ListBounds
  <2> QED  BY <1>1, <1>8, <2>1
<1>10. \A b \in F : b \in Nat /\ 0 <= b
  BY <1>1, <1>2
<1>11. CASE F = {}
  <2>1. g[0] = NULL
    BY <1>9, <1>11
  <2> QED  BY <1>5, <1>11, <2>1 DEF find_free_block, F
<1>12. CASE F # {}
  <2>1. PICK w : w = g[0] /\ w \in F /\ \A b \in F : w <= b
    BY <1>9, <1>10, <1>12
  <2>2. \A a \in F : (\A b \in F : a <= b) => a = w
    <3> TAKE a \in F
    <3> HAVE \A b \in F : a <= b
    <3>1. a <= w /\ w <= a /\ a \in Nat /\ w \in Nat
      BY <1>10, <2>1
    <3> QED  BY <3>1
  <2>3. (CHOOSE a \in F : \A b \in F : a <= b) = w
    BY <2>1, <2>2
  <2> QED  BY <1>5, <1>12, <2>1, <2>3 DEF find_free_block, F
<1> QED  BY <1>11, <1>12


\* What the statistics of the list from any block on account for: the bytes
\* from that block to the end of the heap.
LEMMA StatsOfList ==
    ASSUME NEW h, IsList(h)
    PROVE  StatsFrom(h, 0).used + StatsFrom(h, 0).free + Hdr * StatsFrom(h, 0).count
              = HeapSize
<1> DEFINE Z == [used : Nat, free : Nat, count : Nat]
           z == [used |-> 0, free |-> 0, count |-> 0]
           Step(a, rest) ==
              IF h[a].is_free
              THEN [rest EXCEPT !.free = @ + h[a].size, !.count = @ + 1]
              ELSE [rest EXCEPT !.used = @ + h[a].size, !.count = @ + 1]
           D == DOMAIN h \cup {NULL}
           IsLoop(g) == g = [cur \in D |-> IF cur = NULL THEN z ELSE Step(cur, g[h[cur].next])]
           g == CHOOSE f : IsLoop(f)
           G == [a \in DOMAIN h |-> [r \in Z |-> Step(a, r)]]
           Sum(s) == s.used + s.free + Hdr * s.count
<1>1. \A a \in DOMAIN h :
         /\ a \in Nat /\ a < HeapSize /\ a # NULL
         /\ h[a].size \in Nat /\ h[a].size = End(h, a) - a - Hdr /\ End(h, a) \in Nat
         /\ h[a].is_free \in BOOLEAN
         /\ h[a].next \in D
         /\ h[a].next = NULL => End(h, a) = HeapSize
         /\ h[a].next # NULL => h[a].next \in DOMAIN h /\ h[a].next = End(h, a)
  <2>1. \A a \in DOMAIN h : End(h, a) <= HeapSize /\ End(h, a) \in Nat
    BY ListBounds
  <2>2. \A a \in DOMAIN h : h[a].size \in Nat
    BY DEF IsList, Block
  <2>3. \A a \in DOMAIN h : h[a].next = NULL => End(h, a) = HeapSize
    <3> TAKE a \in DOMAIN h
    <3> HAVE h[a].next = NULL
    <3>1. CASE End(h, a) < HeapSize
      <4>1. NULL \in DOMAIN h
        BY <3>1, ListBounds
      <4> QED  BY <4>1, ListBounds, HeapAssumption
    <3>2. CASE ~(End(h, a) < HeapSize)
      BY <2>1, <3>2, HeapAssumption
    <3> QED  BY <3>1, <3>2
  <2> QED  BY <2>1, <2>2, <2>3, ListBounds, HeapAssumption
<1>2. Hdr \in Nat /\ HeapSize \in Nat
  BY HeapAssumption
<1>3. \A c \in Nat : Hdr * c \in Nat /\ Hdr * (c + 1) = Hdr * c + Hdr
  BY <1>2
<1>4. z \in Z /\ Sum(z) = 0
  BY <1>2
<1>5. ASSUME NEW a \in DOMAIN h, NEW r \in Z
      PROVE  Step(a, r) \in Z /\ Sum(Step(a, r)) = Sum(r) + h[a].size + Hdr
  <2>1. r.used \in Nat /\ r.free \in Nat /\ r.count \in Nat
    OBVIOUS
  <2> DEFINE n == h[a].size
  <2>2. n \in Nat
    BY <1>1
  <2>3. PICK p \in Nat : p = Hdr * r.count /\ Hdr * (r.count + 1) = p + Hdr
    BY <1>3, <2>1
  <2>4. CASE h[a].is_free
    <3> DEFINE t == Step(a, r)
    <3>1. t = [used |-> r.used, free |-> r.free + n, count |-> r.count + 1]
      BY <2>4
    <3> HIDE DEF t, n
    <3>2. t.used = r.used /\ t.free = r.free + n /\ t.count = r.count + 1 /\ t \in Z
      BY <2>1, <2>2, <3>1
    <3>3. Hdr * t.count = p + Hdr
      BY <2>3, <3>2
    <3>4. Sum(t) = Sum(r) + n + Hdr
      BY <1>2, <2>1, <2>2, <2>3, <3>2, <3>3
    <3> QED  BY <3>2, <3>4 DEF t, n
  <2>5. CASE ~h[a].is_free
    <3> DEFINE t == Step(a, r)
    <3>1. t = [used |-> r.used + n, free |-> r.free, count |-> r.count + 1]
      BY <2>5
    <3> HIDE DEF t, n
    <3>2. t.used = r.used + n /\ t.free = r.free /\ t.count = r.count + 1 /\ t \in Z
      BY <2>1, <2>2, <3>1
    <3>3. Hdr * t.count = p + Hdr
      BY <2>3, <3>2
    <3>4. Sum(t) = Sum(r) + n + Hdr
      BY <1>2, <2>1, <2>2, <2>3, <3>2, <3>3
    <3> QED  BY <3>2, <3>4 DEF t, n
  <2> QED  BY <2>4, <2>5
<1>6. G \in [DOMAIN h -> [Z -> Z]]
  <2> HIDE DEF Z, Step
  <2> QED  BY <1>5
<1>7. \E f : IsLoop(f)
  <2>1. PICK f \in [D -> Z] : f[NULL] = z /\ \A a \in DOMAIN h : f[a] = G[a][f[h[a].next]]
    <3> HIDE DEF Z, z, G
    <3>1. \E f \in [DOMAIN h \cup {NULL} -> Z] : Follows(f, h, z, G)
      BY <1>4, <1>6, ListRecursion
    <3> QED  BY <3>1 DEF Follows
  <2> HIDE DEF Z, z, Step
  <2>2. \A a \in DOMAIN h : f[a] = Step(a, f[h[a].next])
    <3> TAKE a \in DOMAIN h
    <3>1. f[h[a].next] \in Z
      BY <1>1
    <3> QED  BY <2>1, <3>1
  <2>3. IsLoop(f)
    BY <1>1, <2>1, <2>2
  <2> QED  BY <2>3
<1>8. IsLoop(g)
  <2> HIDE DEF IsLoop
  <2> QED  BY <1>7
<1>9. StatsFrom(h, 0) = g[0]
  BY DEF StatsFrom
<1> HIDE DEF g, Z, z, Step
<1>10. g[NULL] = z /\ \A a \in DOMAIN h : g[a] = Step(a, g[h[a].next])
  BY <1>1, <1>8
<1> HIDE DEF IsLoop
<1> DEFINE Left(a) == IF a = NULL THEN 0 ELSE HeapSize - a
           S == {a \in D : g[a] \in Z /\ Sum(g[a]) = Left(a)}
<1> HIDE DEF Sum
<1>11. ASSUME NEW a \in DOMAIN h, h[a].next \in S PROVE a \in S
  <2> DEFINE r == g[h[a].next]
  <2>1. r \in Z /\ Sum(r) = Left(h[a].next)
    BY <1>11
  <2>2. g[a] = Step(a, r)
    BY <1>10
  <2> HIDE DEF r
  <2>3. Left(h[a].next) = HeapSize - End(h, a)
    BY <1>1, <1>2
  <2>4. g[a] \in Z /\ Sum(g[a]) = Left(h[a].next) + h[a].size + Hdr
    BY <1>5, <2>1, <2>2
  <2>5. Left(h[a].next) + h[a].size + Hdr = Left(a)
    BY <1>1, <1>2, <2>3
  <2> QED  BY <2>4, <2>5
<1>12. \A a \in DOMAIN h : a \in S
  <2>1. NULL \in S
    BY <1>4, <1>10
  <2> HIDE DEF S
  <2> QED  BY <1>11, <2>1, ListInduction
<1>13. Sum(g[0]) = HeapSize
  <2>1. 0 \in DOMAIN h
    BY ListBounds
  <2>2. 0 # NULL
    BY HeapAssumption
  <2> QED  BY <1>2, <1>12, <2>1, <2>2
<1> QED  BY <1>9, <1>13 DEF Sum

\* The statistics account for every byte of the heap: what get_heap_stats
\* counts as used and free in its walk over the list, and one header for each
\* block it counts, add up to HEAP_SIZE after any history of calls.
THEOREM HeapStatsAddUp == Spec => []StatsAddUp
<1>1. IInv => StatsAddUp
  <2> SUFFICES ASSUME IInv, heap_start = 0 PROVE StatsAddUp
    BY DEF StatsAddUp
  <2>1. IsList(blocks)
    BY ListAlways
  <2> QED  BY <2>1, StatsOfList DEF StatsAddUp, get_heap_stats
<1> QED  BY <1>1, HeapInvariant, PTL

\* The loop that ascends copies what was there before when no cell it has
\* already written is one it still reads.
LEMMA AscendCopies ==
    ASSUME NEW V, NEW m \in [Addr -> V], NEW dest \in Addr, NEW src \in Addr, NEW n \in Nat,
           dest + n <= HeapSize, src + n <= HeapSize,
           \A i \in 1..n : src + i - 1 \notin Span(dest, i - 1)
    PROVE  Ascend(m, dest, src, n) = memcpy(m, dest, src, n)
<1> DEFINE IsLoop(g) == g = [i \in 0..n |->
                               IF i = 0 THEN m
                               ELSE [g[i - 1] EXCEPT ![dest + i - 1] = g[i - 1][src + i - 1]]]
           g == CHOOSE f : IsLoop(f)
           M(i) == memcpy(m, dest, src, i)
           F == [i \in 0..n |-> M(i)]
<1>1. HeapSize \in Nat /\ dest \in Nat /\ src \in Nat /\ dest < HeapSize /\ src < HeapSize
  BY HeapAssumption DEF Addr
<1>2. M(0) = m
  <2>1. \A x \in Addr : x \notin Span(dest, 0)
    BY <1>1 DEF Span, Addr
  <2> QED  BY <2>1 DEF memcpy
<1>3. ASSUME NEW i \in 1..n
      PROVE  M(i) = [M(i - 1) EXCEPT ![dest + i - 1] = M(i - 1)[src + i - 1]]
  <2> DEFINE a == M(i - 1)
             b == M(i)
  <2>1. dest + i - 1 \in Addr /\ src + i - 1 \in Addr
    BY <1>1 DEF Addr
  <2>2. \A x \in Addr : a[x] = IF x \in dest..(dest + i - 2) THEN m[src + (x - dest)] ELSE m[x]
    <3>1. dest + (i - 1) - 1 = dest + i - 2
      BY <1>1
    <3> QED  BY <3>1 DEF memcpy, Span
  <2>3. \A x \in Addr : b[x] = IF x \in dest..(dest + i - 1) THEN m[src + (x - dest)] ELSE m[x]
    BY DEF memcpy, Span
  <2>4. a = [x \in Addr |-> a[x]] /\ b = [x \in Addr |-> b[x]]
    BY DEF memcpy
  <2> HIDE DEF a, b
  <2>5. a[src + i - 1] = m[src + i - 1]
    <3>1. src + i - 1 \notin dest..(dest + i - 2)
      BY <1>1 DEF Span
    <3> QED  BY <2>1, <2>2, <3>1
  <2>6. ASSUME NEW x \in Addr
        PROVE  b[x] = IF x = dest + i - 1 THEN m[src + i - 1] ELSE a[x]
    <3>1. x \in Nat
      BY <1>1 DEF Addr
    <3>2. CASE x = dest + i - 1
      <4>1. src + (x - dest) = src + i - 1 /\ x \in dest..(dest + i - 1)
        BY <1>1, <3>2
      <4> QED  BY <2>3, <3>2, <4>1
    <3>3. CASE x # dest + i - 1
      <4>1. x \in dest..(dest + i - 1) <=> x \in dest..(dest + i - 2)
        BY <1>1, <3>1, <3>3
      <4> QED  BY <2>2, <2>3, <3>3, <4>1
    <3> QED  BY <3>2, <3>3
  <2>7. b = [a EXCEPT ![dest + i - 1] = m[src + i - 1]]
    BY <2>1, <2>4, <2>6
  <2>8. b = [a EXCEPT ![dest + i - 1] = a[src + i - 1]]
    BY <2>5, <2>7
  <2> QED  BY <2>8 DEF a, b
<1> HIDE DEF M
<1>4. IsLoop(F)
  <2>1. \A i \in 0..n : i # 0 => i \in 1..n /\ i - 1 \in 0..n
    OBVIOUS
  <2>2. \A i \in 0..n :
           F[i] = IF i = 0 THEN m
                  ELSE [F[i - 1] EXCEPT ![dest + i - 1] = F[i - 1][src + i - 1]]
    BY <1>2, <1>3, <2>1
  <2>3. F = [i \in 0..n |-> F[i]]
    OBVIOUS
  <2> HIDE DEF F
  <2> QED  BY <2>2, <2>3
<1>5. IsLoop(g)
  <2> HIDE DEF IsLoop, F
  <2> QED  BY <1>4
<1>6. Ascend(m, dest, src, n) = g[n]
  BY DEF Ascend
<1> HIDE DEF g
<1> DEFINE S == {i \in Nat : i <= n => g[i] = M(i)}
<1>7. \A i \in Nat : i \in S
  <2>1. 0 \in S
    BY <1>2, <1>5
  <2>2. ASSUME NEW i \in Nat, i \in S PROVE i + 1 \in S
    <3> SUFFICES ASSUME i + 1 <= n PROVE g[i + 1] = M(i + 1)
      OBVIOUS
    <3>1. PICK j \in 1..n : j = i + 1 /\ j - 1 = i /\ j \in 0..n /\ j # 0
      OBVIOUS
    <3>2. g[j] = [g[j - 1] EXCEPT ![dest + j - 1] = g[j - 1][src + j - 1]]
      BY <1>5, <3>1
    <3>3. g[j - 1] = M(j - 1)
      BY <2>2, <3>1
    <3>4. g[j] = M(j)
      BY <1>3, <3>1, <3>2, <3>3
    <3> QED  BY <3>1, <3>4
  <2> HIDE DEF S
  <2> QED  BY <2>1, <2>2, InductionNat
<1>8. g[n] = M(n)
  BY <1>7
<1> QED  BY <1>6, <1>8 DEF M

\* The loop that descends does so when the cells it reads are below those it
\* writes.
LEMMA DescendCopies ==
    ASSUME NEW V, NEW m \in [Addr -> V], NEW dest \in Addr, NEW src \in Addr, NEW n \in Nat,
           dest + n <= HeapSize, src + n <= HeapSize, src < dest
    PROVE  Descend(m, dest, src, n) = memcpy(m, dest, src, n)
<1> DEFINE IsLoop(g) == g = [i \in 0..n |->
                               IF i = 0 THEN m
                               ELSE [g[i - 1] EXCEPT ![dest + n - i] = g[i - 1][src + n - i]]]
           g == CHOOSE f : IsLoop(f)
           M(i) == [x \in Addr |-> IF x \in (dest + n - i)..(dest + n - 1)
                                   THEN m[src + (x - dest)] ELSE m[x]]
           F == [i \in 0..n |-> M(i)]
<1>1. HeapSize \in Nat /\ dest \in Nat /\ src \in Nat /\ dest < HeapSize /\ src < HeapSize
  BY HeapAssumption DEF Addr
<1>2. M(0) = m
  <2>1. \A x \in Addr : x \notin (dest + n - 0)..(dest + n - 1)
    BY <1>1 DEF Addr
  <2> QED  BY <2>1
<1>3. ASSUME NEW i \in 1..n
      PROVE  M(i) = [M(i - 1) EXCEPT ![dest + n - i] = M(i - 1)[src + n - i]]
  <2> DEFINE a == M(i - 1)
             b == M(i)
  <2>1. dest + n - i \in Addr /\ src + n - i \in Addr
    BY <1>1 DEF Addr
  <2>2. \A x \in Addr : a[x] = IF x \in (dest + n - i + 1)..(dest + n - 1)
                               THEN m[src + (x - dest)] ELSE m[x]
    <3>1. dest + n - (i - 1) = dest + n - i + 1
      BY <1>1
    <3> QED  BY <3>1
  <2>3. \A x \in Addr : b[x] = IF x \in (dest + n - i)..(dest + n - 1)
                               THEN m[src + (x - dest)] ELSE m[x]
    OBVIOUS
  <2>4. a = [x \in Addr |-> a[x]] /\ b = [x \in Addr |-> b[x]]
    OBVIOUS
  <2> HIDE DEF a, b
  <2>5. a[src + n - i] = m[src + n - i]
    <3>1. src + n - i \notin (dest + n - i + 1)..(dest + n - 1)
      BY <1>1
    <3> QED  BY <2>1, <2>2, <3>1
  <2>6. ASSUME NEW x \in Addr
        PROVE  b[x] = IF x = dest + n - i THEN m[src + n - i] ELSE a[x]
    <3>1. x \in Nat
      BY <1>1 DEF Addr
    <3>2. CASE x = dest + n - i
      <4>1. src + (x - dest) = src + n - i /\ x \in (dest + n - i)..(dest + n - 1)
        BY <1>1, <3>2
      <4> QED  BY <2>3, <3>2, <4>1
    <3>3. CASE x # dest + n - i
      <4>1. x \in (dest + n - i)..(dest + n - 1) <=> x \in (dest + n - i + 1)..(dest + n - 1)
        BY <1>1, <3>1, <3>3
      <4> QED  BY <2>2, <2>3, <3>3, <4>1
    <3> QED  BY <3>2, <3>3
  <2>7. b = [a EXCEPT ![dest + n - i] = m[src + n - i]]
    BY <2>1, <2>4, <2>6
  <2>8. b = [a EXCEPT ![dest + n - i] = a[src + n - i]]
    BY <2>5, <2>7
  <2> QED  BY <2>8 DEF a, b
<1>4. M(n) = memcpy(m, dest, src, n)
  <2>1. dest + n - n = dest
    BY <1>1
  <2> QED  BY <2>1 DEF memcpy, Span
<1> HIDE DEF M
<1>5. IsLoop(F)
  <2>1. \A i \in 0..n : i # 0 => i \in 1..n /\ i - 1 \in 0..n
    OBVIOUS
  <2>2. \A i \in 0..n :
           F[i] = IF i = 0 THEN m
                  ELSE [F[i - 1] EXCEPT ![dest + n - i] = F[i - 1][src + n - i]]
    BY <1>2, <1>3, <2>1
  <2>3. F = [i \in 0..n |-> F[i]]
    OBVIOUS
  <2> HIDE DEF F
  <2> QED  BY <2>2, <2>3
<1>6. IsLoop(g)
  <2> HIDE DEF IsLoop, F
  <2> QED  BY <1>5
<1>7. Descend(m, dest, src, n) = g[n]
  BY DEF Descend
<1> HIDE DEF g
<1> DEFINE S == {i \in Nat : i <= n => g[i] = M(i)}
<1>8. \A i \in Nat : i \in S
  <2>1. 0 \in S
    BY <1>2, <1>6
  <2>2. ASSUME NEW i \in Nat, i \in S PROVE i + 1 \in S
    <3> SUFFICES ASSUME i + 1 <= n PROVE g[i + 1] = M(i + 1)
      OBVIOUS
    <3>1. PICK j \in 1..n : j = i + 1 /\ j - 1 = i /\ j \in 0..n /\ j # 0
      OBVIOUS
    <3>2. g[j] = [g[j - 1] EXCEPT ![dest + n - j] = g[j - 1][src + n - j]]
      BY <1>6, <3>1
    <3>3. g[j - 1] = M(j - 1)
      BY <2>2, <3>1
    <3>4. g[j] = M(j)
      BY <1>3, <3>1, <3>2, <3>3
    <3> QED  BY <3>1, <3>4
  <2> HIDE DEF S
  <2> QED  BY <2>1, <2>2, InductionNat
<1>9. g[n] = M(n)
  BY <1>8
<1> QED  BY <1>4, <1>7, <1>9

\* Both functions copy what was there before.
LEMMA CopiesDo == CopiesAgree
<1> DEFINE m == [x \in Addr |-> x]
<1> SUFFICES ASSUME NEW dest \in Addr, NEW src \in Addr, NEW n \in 0..HeapSize,
                    dest + n <= HeapSize, src + n <= HeapSize
             PROVE  /\ memmove(m, dest, src, n) = memcpy(m, dest, src, n)
                    /\ Span(dest, n) \cap Span(src, n) = {} =>
                          Ascend(m, dest, src, n) = memcpy(m, dest, src, n)
  BY DEF CopiesAgree
<1>1. /\ HeapSize \in Nat /\ dest \in Nat /\ src \in Nat /\ n \in Nat
      /\ dest < HeapSize /\ src < HeapSize
  BY HeapAssumption DEF Addr
<1>2. m \in [Addr -> Addr]
  OBVIOUS
<1>3. src = dest => memcpy(m, dest, src, n) = m
  <2>1. \A x \in Addr : dest + (x - dest) = x
    BY <1>1 DEF Addr
  <2> QED  BY <2>1 DEF memcpy
<1>4. src > dest => \A i \in 1..n : src + i - 1 \notin Span(dest, i - 1)
  BY <1>1 DEF Span
<1>5. Span(dest, n) \cap Span(src, n) = {} =>
         \A i \in 1..n : src + i - 1 \notin Span(dest, i - 1)
  <2> SUFFICES ASSUME Span(dest, n) \cap Span(src, n) = {}, NEW i \in 1..n,
                      src + i - 1 \in Span(dest, i - 1)
               PROVE  FALSE
    OBVIOUS
  <2>1. src + i - 1 \in Span(src, n)
    BY <1>1 DEF Span
  <2>2. src + i - 1 \in Span(dest, n)
    BY <1>1 DEF Span
  <2> QED  BY <2>1, <2>2
<1> DEFINE V == Addr
<1>6. m \in [Addr -> V]
  BY <1>2
<1> HIDE DEF m, V
<1>7. (\A i \in 1..n : src + i - 1 \notin Span(dest, i - 1)) =>
         Ascend(m, dest, src, n) = memcpy(m, dest, src, n)
  BY <1>1, <1>6, AscendCopies
<1>8. src < dest => Descend(m, dest, src, n) = memcpy(m, dest, src, n)
  BY <1>1, <1>6, DescendCopies
<1>9. src > dest \/ src < dest \/ src = dest
  BY <1>1
<1> QED  BY <1>1, <1>3, <1>4, <1>5, <1>7, <1>8, <1>9 DEF memmove

----------------------------------------------------------------------------
(* The loop of coalesce.  It has come to a block c that has swallowed the  *)
(* free blocks behind it up to b: before c the list is the result already, *)
(* and from the end of b on it is the list the loop began with.            *)

Swallowed(h, c, b) ==
    [size |-> End(h, b) - c - Hdr, is_free |-> h[c].is_free, next |-> h[b].next]

SoFar(h, c, b) ==
    [a \in {x \in DOMAIN coalesce(h) : x < c} \cup {c} \cup {x \in DOMAIN h : End(h, b) <= x} |->
        IF a < c THEN coalesce(h)[a]
        ELSE IF a = c THEN Swallowed(h, c, b)
        ELSE h[a]]

At(h, c, b) == [h |-> SoFar(h, c, b), cur |-> c]

Swallows(h, c, b) ==
    /\ c \in DOMAIN coalesce(h)
    /\ c <= b
    /\ c # b => \A a \in DOMAIN h : c <= a /\ a <= b => h[a].is_free

\* Two blocks that end at the same place are one.
LEMMA EndsApart ==
    ASSUME NEW h, IsList(h), NEW a \in DOMAIN h, NEW b \in DOMAIN h, End(h, a) = End(h, b)
    PROVE  a = b
BY ListBounds, HeapAssumption

\* A run of free blocks has one end.
LEMMA RunEndIs ==
    ASSUME NEW h, IsList(h), NEW a \in DOMAIN h, h[a].is_free,
           NEW e \in DOMAIN h, EndsRun(h, a, e)
    PROVE  RunEnd(h, a) = e
<1> DEFINE r == RunEnd(h, a)
<1>1. r \in DOMAIN h /\ EndsRun(h, a, r)
  BY RunEndExists
<1> HIDE DEF r
<1>2. ASSUME NEW x \in DOMAIN h, NEW y \in DOMAIN h, EndsRun(h, a, x), EndsRun(h, a, y), x < y
      PROVE  FALSE
  <2>1. End(h, x) <= y /\ y < HeapSize /\ y \in Nat /\ x \in Nat /\ a \in Nat
        /\ a <= x /\ End(h, x) \in Nat /\ x < End(h, x)
    BY <1>2, ListBounds, HeapAssumption DEF EndsRun
  <2>2. End(h, x) < HeapSize
    BY <2>1, HeapAssumption
  <2>3. PICK n \in DOMAIN h : n = End(h, x) /\ h[x].next = n
    BY <2>2, ListBounds
  <2>4. n # NULL /\ a <= n /\ n <= y
    BY <2>1, <2>3, ListBounds, HeapAssumption
  <2>5. h[n].is_free
    BY <1>2, <2>4 DEF EndsRun
  <2>6. ~h[n].is_free
    BY <1>2, <2>3, <2>4 DEF EndsRun
  <2> QED  BY <2>5, <2>6
<1>3. ~(r < e) /\ ~(e < r)
  BY <1>1, <1>2
<1>4. r \in Nat /\ e \in Nat
  BY <1>1, ListBounds
<1> QED  BY <1>3, <1>4 DEF r

\* What is known of coalesce(h) as a function.
LEMMA CoalesceIs ==
    ASSUME NEW h, IsList(h)
    PROVE  /\ coalesce(h) = [a \in DOMAIN coalesce(h) |-> coalesce(h)[a]]
           /\ DOMAIN coalesce(h) = DOMAIN h \ Absorbed(h)
           /\ \A a \in DOMAIN coalesce(h) : ~h[a].is_free => coalesce(h)[a] = h[a]
           /\ \A a \in DOMAIN coalesce(h) : h[a].is_free =>
                 coalesce(h)[a] = Swallowed(h, a, RunEnd(h, a))
BY DEF coalesce, Swallowed

\* A free block behind a free one is unlinked.
LEMMA FollowerIsAbsorbed ==
    ASSUME NEW h, IsList(h), NEW c \in DOMAIN h, NEW b \in DOMAIN h,
           Swallows(h, c, b), NEW a \in DOMAIN h, c < a, a <= b
    PROVE  a \in Absorbed(h)
<1>1. c \in Nat /\ a \in Nat /\ b \in Nat /\ a # 0
  BY ListBounds
<1>2. PICK p \in DOMAIN h : p < a /\ End(h, p) = a /\ h[p].next = a
  BY <1>1, Predecessor
<1>3. p \in Nat /\ c <= p
  BY <1>1, <1>2, ListBounds
<1>4. h[a].is_free /\ h[p].is_free
  BY <1>1, <1>2, <1>3 DEF Swallows
<1> QED  BY <1>2, <1>4 DEF Absorbed

\* When the loop leaves c, or the list is at its end, c is what it will be in
\* the result.
LEMMA Settled ==
    ASSUME NEW h, IsList(h), NEW c \in DOMAIN h, NEW b \in DOMAIN h, Swallows(h, c, b),
           h[b].next = NULL \/ ~h[c].is_free \/ ~h[h[b].next].is_free
    PROVE  /\ coalesce(h)[c] = Swallowed(h, c, b)
           /\ \A a \in DOMAIN coalesce(h) : c < a => End(h, b) <= a
<1> DEFINE K == coalesce(h)
<1>1. c \in Nat /\ b \in Nat /\ c \in DOMAIN K
  BY ListBounds DEF Swallows
<1>2. \A a \in DOMAIN K : a \in DOMAIN h /\ a \notin Absorbed(h)
  BY CoalesceIs
<1>3. \A a \in DOMAIN K : c < a => End(h, b) <= a
  <2> TAKE a \in DOMAIN K
  <2> HAVE c < a
  <2>1. ~(a <= b)
    BY <1>2, FollowerIsAbsorbed
  <2> QED  BY <1>1, <1>2, <2>1, ListBounds
<1>4. CASE ~h[c].is_free
  <2>1. c = b
    BY <1>1, <1>4 DEF Swallows
  <2>2. K[c] = h[c]
    BY <1>1, <1>4, CoalesceIs
  <2>3. h[c] \in Block
    BY DEF IsList
  <2>4. h[c] = [size |-> h[c].size, is_free |-> h[c].is_free, next |-> h[c].next]
    BY <2>3 DEF Block
  <2>5. h[c].size = End(h, b) - c - Hdr
    BY <2>1, ListBounds
  <2>6. h[c] = Swallowed(h, c, b)
    BY <2>1, <2>4, <2>5 DEF Swallowed
  <2> QED  BY <1>3, <2>2, <2>6
<1>5. CASE h[c].is_free
  <2>1. EndsRun(h, c, b)
    <3>1. \A a \in DOMAIN h : c <= a /\ a <= b => h[a].is_free
      <4>1. CASE c # b
        BY <4>1 DEF Swallows
      <4>2. CASE c = b
        BY <1>1, <1>5, <4>2, ListBounds
      <4> QED  BY <4>1, <4>2
    <3>2. c <= b
      BY DEF Swallows
    <3>3. h[b].next # NULL => ~h[h[b].next].is_free
      BY <1>5
    <3> QED  BY <3>1, <3>2, <3>3 DEF EndsRun
  <2>2. RunEnd(h, c) = b
    BY <1>5, <2>1, RunEndIs
  <2> QED  BY <1>1, <1>3, <1>5, <2>2, CoalesceIs
<1> QED  BY <1>4, <1>5

\* The loop begins at the first block, with the list as it is.
LEMMA CoalesceStarts ==
    ASSUME NEW h, IsList(h)
    PROVE  Swallows(h, 0, 0) /\ SoFar(h, 0, 0) = h
<1> DEFINE K == coalesce(h)
<1>1. 0 \in DOMAIN h /\ \A a \in DOMAIN h : a \in Nat
  BY ListBounds
<1>2. 0 \in DOMAIN K
  <2>1. ASSUME NEW p \in DOMAIN h, h[p].next = 0 PROVE FALSE
    <3>1. End(h, p) = 0
      BY <2>1, ListBounds, HeapAssumption
    <3>2. p \in Nat /\ p + Hdr < End(h, p)
      BY ListBounds
    <3> QED  BY <3>1, <3>2, HeapAssumption
  <2>2. 0 \notin Absorbed(h)
    BY <2>1 DEF Absorbed
  <2> QED  BY <1>1, <2>2, CoalesceIs
<1>3. Swallows(h, 0, 0)
  BY <1>2 DEF Swallows
<1>4. Swallowed(h, 0, 0) = h[0]
  <2>1. h[0] \in Block
    BY <1>1 DEF IsList
  <2>2. h[0] = [size |-> h[0].size, is_free |-> h[0].is_free, next |-> h[0].next]
    BY <2>1 DEF Block
  <2>3. h[0].size = End(h, 0) - 0 - Hdr
    BY <1>1, ListBounds
  <2> QED  BY <2>2, <2>3 DEF Swallowed
<1>5. {x \in DOMAIN K : x < 0} \cup {0} \cup {x \in DOMAIN h : End(h, 0) <= x} = DOMAIN h
  <2>1. \A x \in DOMAIN K : x \in DOMAIN h
    BY CoalesceIs
  <2>2. \A x \in DOMAIN h : x = 0 \/ End(h, 0) <= x
    BY <1>1, ListBounds
  <2> HIDE DEF K
  <2> QED  BY <1>1, <2>1, <2>2
<1>6. \A a \in DOMAIN h : ~(a < 0)
  BY <1>1
<1>7. h = [a \in DOMAIN h |-> h[a]]
  BY DEF IsList
<1> DEFINE f == SoFar(h, 0, 0)
<1>8. DOMAIN f = DOMAIN h /\ f = [a \in DOMAIN f |-> f[a]]
  BY <1>5 DEF SoFar
<1>9. \A a \in DOMAIN f : f[a] = IF a = 0 THEN Swallowed(h, 0, 0) ELSE h[a]
  <2>1. \A a \in DOMAIN f : f[a] = IF a < 0 THEN coalesce(h)[a]
                                   ELSE IF a = 0 THEN Swallowed(h, 0, 0) ELSE h[a]
    BY DEF SoFar
  <2> HIDE DEF f
  <2> QED  BY <1>6, <1>8, <2>1
<1> HIDE DEF f
<1>10. f = h
  BY <1>4, <1>7, <1>8, <1>9
<1> QED  BY <1>3, <1>10 DEF f

\* The list so far is a function with these values.
LEMMA SoFarIs ==
    ASSUME NEW h, NEW c, NEW b
    PROVE  /\ SoFar(h, c, b) = [a \in DOMAIN SoFar(h, c, b) |-> SoFar(h, c, b)[a]]
           /\ \A a : a \in DOMAIN SoFar(h, c, b) <=>
                 \/ a \in DOMAIN coalesce(h) /\ a < c
                 \/ a = c
                 \/ a \in DOMAIN h /\ End(h, b) <= a
           /\ \A a \in DOMAIN SoFar(h, c, b) :
                 SoFar(h, c, b)[a] = IF a < c THEN coalesce(h)[a]
                                     ELSE IF a = c THEN Swallowed(h, c, b)
                                     ELSE h[a]
BY DEF SoFar

\* At the end of the list the loop is done.
LEMMA CoalesceEnds ==
    ASSUME NEW h, IsList(h), NEW c \in DOMAIN h, NEW b \in DOMAIN h, Swallows(h, c, b),
           h[b].next = NULL
    PROVE  SoFar(h, c, b) = coalesce(h) /\ Coalesce(At(h, c, b)) = At(h, c, b)
<1> DEFINE K == coalesce(h)
           f == SoFar(h, c, b)
<1>1. K[c] = Swallowed(h, c, b) /\ \A a \in DOMAIN K : c < a => End(h, b) <= a
  BY Settled
<1>2. c \in DOMAIN K /\ c \in Nat
  BY ListBounds DEF Swallows
<1>3. \A a \in DOMAIN h : a < End(h, b)
  <2> TAKE a \in DOMAIN h
  <2>1. End(h, b) = HeapSize
    <3>1. ~(End(h, b) < HeapSize)
      <4> SUFFICES ASSUME End(h, b) < HeapSize PROVE FALSE
        OBVIOUS
      <4>1. NULL \in DOMAIN h
        BY ListBounds
      <4> QED  BY <4>1, ListBounds, HeapAssumption
    <3> QED  BY <3>1, ListBounds, HeapAssumption
  <2> QED  BY <2>1, ListBounds
<1>4. \A a \in DOMAIN K : a \in DOMAIN h /\ a \in Nat /\ End(h, b) \in Nat
  <2>1. \A a \in DOMAIN K : a \in DOMAIN h
    BY CoalesceIs
  <2> HIDE DEF K
  <2> QED  BY <2>1, ListBounds
<1>5. K = [a \in DOMAIN K |-> K[a]]
  BY CoalesceIs
<1>6. \A a \in DOMAIN K : ~(c < a)
  <2> TAKE a \in DOMAIN K
  <2>1. a < End(h, b)
    BY <1>3, <1>4
  <2> QED  BY <1>1, <1>4, <2>1
<1>7. /\ f = [a \in DOMAIN f |-> f[a]]
      /\ \A a : a \in DOMAIN f <=> \/ a \in DOMAIN K /\ a < c
                                   \/ a = c
                                   \/ a \in DOMAIN h /\ End(h, b) <= a
      /\ \A a \in DOMAIN f : f[a] = IF a < c THEN K[a]
                                    ELSE IF a = c THEN Swallowed(h, c, b) ELSE h[a]
  BY SoFarIs
<1> HIDE DEF K, f
<1>8. DOMAIN f = DOMAIN K
  <2>1. \A a \in DOMAIN h : ~(End(h, b) <= a)
    BY <1>3, ListBounds
  <2>2. \A a \in DOMAIN K : a < c \/ a = c
    BY <1>2, <1>4, <1>6
  <2>3. \A a : a \in DOMAIN f <=> a \in DOMAIN K
    BY <1>2, <1>7, <2>1, <2>2
  <2> QED  BY <2>3
<1>9. \A a \in DOMAIN K : f[a] = K[a]
  <2> TAKE a \in DOMAIN K
  <2>1. a < c \/ a = c
    BY <1>2, <1>4, <1>6
  <2> QED  BY <1>1, <1>2, <1>7, <1>8, <2>1
<1>10. f = K
  BY <1>5, <1>7, <1>8, <1>9
<1>11. f[c].next = NULL
  BY <1>1, <1>2, <1>9 DEF Swallowed
<1>12. Coalesce(At(h, c, b)) = At(h, c, b)
  BY <1>11 DEF Coalesce, At, f
<1> QED  BY <1>10, <1>12 DEF f, K

\* The block behind b.
LEMMA NextBlock ==
    ASSUME NEW h, IsList(h), NEW b \in DOMAIN h, NEW e, e = h[b].next, e # NULL
    PROVE  /\ e \in DOMAIN h /\ e = End(h, b) /\ b < e /\ b \in Nat /\ e \in Nat
           /\ End(h, e) \in Nat /\ e < End(h, e)
           /\ \A a \in DOMAIN h : a \in Nat /\ (b < a => e <= a)
           /\ \A a \in DOMAIN h : e <= a <=> a = e \/ End(h, e) <= a
<1>1. e \in DOMAIN h /\ e = End(h, b)
  BY ListBounds
<1>2. b < e /\ b \in Nat /\ e \in Nat /\ End(h, e) \in Nat /\ e < End(h, e)
  BY <1>1, ListBounds, HeapAssumption
<1>3. \A a \in DOMAIN h : a \in Nat /\ (b < a => e <= a)
  BY <1>1, ListBounds
<1>4. \A a \in DOMAIN h : e <= a <=> a = e \/ End(h, e) <= a
  <2> TAKE a \in DOMAIN h
  <2>1. e < a => End(h, e) <= a
    BY <1>1, ListBounds
  <2> QED  BY <1>2, <1>3, <2>1
<1> QED  BY <1>1, <1>2, <1>3, <1>4

\* Of two free blocks the first takes the second in.
LEMMA CoalesceMerges ==
    ASSUME NEW h, IsList(h), NEW c \in DOMAIN h, NEW b \in DOMAIN h, Swallows(h, c, b),
           NEW e, e = h[b].next, e # NULL, h[c].is_free, h[e].is_free
    PROVE  Swallows(h, c, e) /\ Coalesce(At(h, c, b)) = At(h, c, e)
<1> DEFINE K == coalesce(h)
           f == SoFar(h, c, b)
           g == SoFar(h, c, e)
<1>1. /\ e \in DOMAIN h /\ e = End(h, b) /\ b < e /\ b \in Nat /\ e \in Nat
      /\ End(h, e) \in Nat /\ e < End(h, e)
      /\ \A a \in DOMAIN h : a \in Nat /\ (b < a => e <= a)
      /\ \A a \in DOMAIN h : e <= a <=> a = e \/ End(h, e) <= a
  BY NextBlock
<1>2. c \in DOMAIN K /\ c \in Nat /\ c <= b /\ c < e
  BY <1>1 DEF Swallows
<1>3. Swallows(h, c, e)
  <2>1. ASSUME NEW a \in DOMAIN h, c <= a, a <= e PROVE h[a].is_free
    <3>1. CASE a <= b
      <4>1. CASE c = b
        BY <1>1, <1>2, <2>1, <3>1, <4>1
      <4>2. CASE c # b
        BY <2>1, <3>1, <4>2 DEF Swallows
      <4> QED  BY <4>1, <4>2
    <3>2. CASE ~(a <= b)
      <4>1. a = e
        BY <1>1, <2>1, <3>2
      <4> QED  BY <4>1
    <3> QED  BY <3>1, <3>2
  <2>2. c <= e
    BY <1>1, <1>2
  <2> QED  BY <1>2, <2>1, <2>2 DEF Swallows
<1>4. /\ \A a : a \in DOMAIN f <=> \/ a \in DOMAIN K /\ a < c
                                   \/ a = c
                                   \/ a \in DOMAIN h /\ End(h, b) <= a
      /\ \A a \in DOMAIN f : f[a] = IF a < c THEN K[a]
                                    ELSE IF a = c THEN Swallowed(h, c, b) ELSE h[a]
  BY SoFarIs
<1>5. /\ g = [a \in DOMAIN g |-> g[a]]
      /\ \A a : a \in DOMAIN g <=> \/ a \in DOMAIN K /\ a < c
                                   \/ a = c
                                   \/ a \in DOMAIN h /\ End(h, e) <= a
      /\ \A a \in DOMAIN g : g[a] = IF a < c THEN K[a]
                                    ELSE IF a = c THEN Swallowed(h, c, e) ELSE h[a]
  BY SoFarIs
<1>6. \A a \in DOMAIN K : a \in Nat
  <2>1. \A a \in DOMAIN K : a \in DOMAIN h
    BY CoalesceIs
  <2> HIDE DEF K
  <2> QED  BY <1>1, <2>1
<1> HIDE DEF K, f, g
<1>7. c \in DOMAIN f /\ f[c] = Swallowed(h, c, b) /\ e \in DOMAIN f /\ f[e] = h[e]
  BY <1>1, <1>2, <1>4
<1>8. /\ f[c].next = e /\ f[c].is_free = h[c].is_free /\ f[c].size = e - c - Hdr
      /\ f[e].is_free = h[e].is_free
  <2>1. f[c] = [size |-> e - c - Hdr, is_free |-> h[c].is_free, next |-> e]
    BY <1>1, <1>7 DEF Swallowed
  <2>2. f[c].next = e /\ f[c].size = e - c - Hdr
    BY <2>1
  <2>3. f[c].is_free = h[c].is_free
    BY <2>1
  <2>4. f[e].is_free = h[e].is_free
    BY <1>7
  <2> QED  BY <2>2, <2>3, <2>4
<1> DEFINE m == Merge(f, c)
<1>9. /\ DOMAIN m = DOMAIN f \ {e} /\ m = [a \in DOMAIN m |-> m[a]]
      /\ m[c] = [size    |-> f[c].size + f[e].size + Hdr,
                 is_free |-> f[c].is_free,
                 next    |-> f[e].next]
      /\ \A a \in DOMAIN m : a # c => m[a] = f[a]
  BY <1>1, <1>2, <1>7, <1>8 DEF Merge
<1> HIDE DEF m
<1>10. m[c] = Swallowed(h, c, e)
  <2>1. h[e].size = End(h, e) - e - Hdr
    BY <1>1, ListBounds
  <2>2. f[c].size + f[e].size + Hdr = End(h, e) - c - Hdr
    BY <1>1, <1>2, <1>7, <1>8, <2>1, HeapAssumption
  <2>3. f[c].is_free = h[c].is_free /\ f[e].next = h[e].next
    BY <1>7, <1>8
  <2> QED  BY <1>9, <2>2, <2>3 DEF Swallowed
<1>11. DOMAIN m = DOMAIN g
  <2>1. ASSUME NEW a PROVE a \in DOMAIN m <=> a \in DOMAIN g
    <3>1. a \in DOMAIN K /\ a < c => a # e
      BY <1>1, <1>2, <1>6
    <3>2. a \in DOMAIN h => (End(h, b) <= a /\ a # e <=> End(h, e) <= a)
      BY <1>1
    <3> QED  BY <1>2, <1>4, <1>5, <1>9, <3>1, <3>2
  <2> QED  BY <2>1
<1>12. \A a \in DOMAIN m : m[a] = g[a]
  <2> TAKE a \in DOMAIN m
  <2>1. CASE a = c
    BY <1>2, <1>5, <1>10, <1>11, <2>1
  <2>2. CASE a # c
    BY <1>4, <1>5, <1>9, <1>11, <2>2
  <2> QED  BY <2>1, <2>2
<1>13. m = g
  BY <1>5, <1>9, <1>11, <1>12
<1>14. Coalesce(At(h, c, b)) = [h |-> m, cur |-> c]
  <2> DEFINE s == At(h, c, b)
  <2>1. s.h = f /\ s.cur = c
    BY DEF At, f
  <2> HIDE DEF s
  <2>2. s.h[s.cur].next = e /\ s.h[s.cur].is_free /\ s.h[e].is_free
    BY <1>8, <2>1
  <2>3. Coalesce(s) = [h |-> Merge(s.h, s.cur), cur |-> s.cur]
    BY <2>2 DEF Coalesce
  <2> QED  BY <2>1, <2>3 DEF m, s
<1> QED  BY <1>3, <1>13, <1>14 DEF At, g

\* Otherwise the loop comes to the next block.
LEMMA CoalesceMoves ==
    ASSUME NEW h, IsList(h), NEW c \in DOMAIN h, NEW b \in DOMAIN h, Swallows(h, c, b),
           NEW e, e = h[b].next, e # NULL, ~(h[c].is_free /\ h[e].is_free)
    PROVE  Swallows(h, e, e) /\ Coalesce(At(h, c, b)) = At(h, e, e)
<1> DEFINE K == coalesce(h)
           f == SoFar(h, c, b)
           g == SoFar(h, e, e)
<1>1. /\ e \in DOMAIN h /\ e = End(h, b) /\ b < e /\ b \in Nat /\ e \in Nat
      /\ End(h, e) \in Nat /\ e < End(h, e)
      /\ \A a \in DOMAIN h : a \in Nat /\ (b < a => e <= a)
      /\ \A a \in DOMAIN h : e <= a <=> a = e \/ End(h, e) <= a
  BY NextBlock
<1>2. c \in DOMAIN K /\ c \in Nat /\ c <= b /\ c < e
  BY <1>1 DEF Swallows
<1>3. K[c] = Swallowed(h, c, b) /\ \A a \in DOMAIN K : c < a => e <= a
  BY <1>1, Settled
<1>4. e \notin Absorbed(h)
  <2> SUFFICES ASSUME NEW p \in DOMAIN h, h[e].is_free, h[p].is_free, h[p].next = e
               PROVE  FALSE
    BY DEF Absorbed
  <2>1. End(h, p) = e
    BY ListBounds
  <2>2. p = b
    BY <1>1, <2>1, EndsApart
  <2>3. CASE c = b
    BY <2>2, <2>3
  <2>4. CASE c # b
    <3>1. h[c].is_free
      BY <1>2, <2>4 DEF Swallows
    <3> QED  BY <3>1
  <2> QED  BY <2>3, <2>4
<1>5. e \in DOMAIN K
  BY <1>1, <1>4, CoalesceIs
<1>6. Swallows(h, e, e)
  BY <1>1, <1>5 DEF Swallows
<1>7. Swallowed(h, e, e) = h[e]
  <2>1. h[e] \in Block
    BY <1>1 DEF IsList
  <2>2. h[e] = [size |-> h[e].size, is_free |-> h[e].is_free, next |-> h[e].next]
    BY <2>1 DEF Block
  <2>3. h[e].size = End(h, e) - e - Hdr
    BY <1>1, ListBounds
  <2> QED  BY <2>2, <2>3 DEF Swallowed
<1>8. \A a \in DOMAIN K : a \in Nat
  <2>1. \A a \in DOMAIN K : a \in DOMAIN h
    BY CoalesceIs
  <2> HIDE DEF K
  <2> QED  BY <1>1, <2>1
<1>9. /\ f = [a \in DOMAIN f |-> f[a]]
      /\ \A a : a \in DOMAIN f <=> \/ a \in DOMAIN K /\ a < c
                                   \/ a = c
                                   \/ a \in DOMAIN h /\ End(h, b) <= a
      /\ \A a \in DOMAIN f : f[a] = IF a < c THEN K[a]
                                    ELSE IF a = c THEN Swallowed(h, c, b) ELSE h[a]
  BY SoFarIs
<1>10. /\ g = [a \in DOMAIN g |-> g[a]]
       /\ \A a : a \in DOMAIN g <=> \/ a \in DOMAIN K /\ a < e
                                    \/ a = e
                                    \/ a \in DOMAIN h /\ End(h, e) <= a
       /\ \A a \in DOMAIN g : g[a] = IF a < e THEN K[a]
                                     ELSE IF a = e THEN Swallowed(h, e, e) ELSE h[a]
  BY SoFarIs
<1> HIDE DEF K, f, g
<1>11. \A a \in DOMAIN K : a < e <=> a < c \/ a = c
  BY <1>1, <1>2, <1>3, <1>8
<1>12. DOMAIN f = DOMAIN g
  <2>1. ASSUME NEW a PROVE a \in DOMAIN f <=> a \in DOMAIN g
    BY <1>1, <1>2, <1>9, <1>10, <1>11
  <2> QED  BY <2>1
<1>13. \A a \in DOMAIN f : f[a] = g[a]
  <2> TAKE a \in DOMAIN f
  <2>1. CASE a \in DOMAIN K /\ a < c
    BY <1>9, <1>10, <1>11, <1>12, <2>1
  <2>2. CASE a = c
    BY <1>2, <1>3, <1>9, <1>10, <1>12, <2>2
  <2>3. CASE a \in DOMAIN h /\ e <= a
    <3>1. ~(a < c) /\ a # c /\ ~(a < e)
      BY <1>1, <1>2, <2>3
    <3>2. f[a] = h[a]
      BY <1>9, <3>1
    <3>3. g[a] = IF a = e THEN h[e] ELSE h[a]
      BY <1>7, <1>10, <1>12, <3>1
    <3> QED  BY <3>2, <3>3
  <2> QED  BY <1>1, <1>9, <2>1, <2>2, <2>3
<1>14. f = g
  BY <1>9, <1>10, <1>12, <1>13
<1>15. c \in DOMAIN f /\ f[c].next = e /\ f[c].is_free = h[c].is_free
  BY <1>2, <1>9 DEF Swallowed
<1>16. e \in DOMAIN f /\ f[e] = h[e]
  BY <1>1, <1>2, <1>9
<1>17. Coalesce(At(h, c, b)) = [h |-> f, cur |-> e]
  <2> DEFINE s == At(h, c, b)
  <2>1. s.h = f /\ s.cur = c
    BY DEF At, f
  <2> HIDE DEF s
  <2>2. s.h[s.cur].next = e /\ ~(s.h[s.cur].is_free /\ s.h[e].is_free)
    BY <1>15, <1>16, <2>1
  <2>3. Coalesce(s) = [h |-> s.h, cur |-> e]
    BY <2>2 DEF Coalesce
  <2> QED  BY <2>1, <2>3 DEF s
<1> QED  BY <1>6, <1>14, <1>17 DEF At, g

\* The block the loop has come to after one more iteration.
Comes(h, c, b) == IF h[c].is_free /\ h[h[b].next].is_free THEN c ELSE h[b].next

\* The loop of coalesce makes the list that coalesce describes, in at most as
\* many iterations as the heap has cells.
LEMMA LoopCoalesces ==
    ASSUME NEW h, IsList(h)
    PROVE  CoalesceFrom(h, 0) = coalesce(h)
<1> DEFINE N == HeapSize
           D == DOMAIN h
           IsLoop(f) == f = [i \in 0..N |->
                               IF i = 0 THEN [h |-> h, cur |-> 0] ELSE Coalesce(f[i - 1])]
           g == CHOOSE f : IsLoop(f)
           R == {r \in D \X D : Swallows(h, r[1], r[2])}
           Z == {At(h, r[1], r[2]) : r \in R}
           z == At(h, 0, 0)
           G == [i \in 1..N |-> [s \in Z |-> Coalesce(s)]]
<1>1. N \in Nat /\ N > 0 /\ 0 \in D /\ \A a \in D : a \in Nat /\ End(h, a) \in Nat
  BY ListBounds, HeapAssumption
<1>2. z = [h |-> h, cur |-> 0] /\ Swallows(h, 0, 0)
  BY CoalesceStarts DEF At
<1>3. ASSUME NEW c \in D, NEW b \in D, Swallows(h, c, b), h[b].next = NULL
      PROVE  SoFar(h, c, b) = coalesce(h) /\ Coalesce(At(h, c, b)) = At(h, c, b)
  BY <1>3, CoalesceEnds
<1>4. ASSUME NEW c \in D, NEW b \in D, Swallows(h, c, b), h[b].next # NULL
      PROVE  /\ Comes(h, c, b) \in D /\ h[b].next \in D
             /\ h[b].next = End(h, b) /\ End(h, b) < End(h, h[b].next)
             /\ Swallows(h, Comes(h, c, b), h[b].next)
             /\ Coalesce(At(h, c, b)) = At(h, Comes(h, c, b), h[b].next)
  <2> DEFINE e == h[b].next
  <2>1. e \in D /\ e = End(h, b) /\ e < End(h, e)
    BY <1>4, NextBlock
  <2>2. CASE h[c].is_free /\ h[e].is_free
    <3>1. Comes(h, c, b) = c
      BY <2>2 DEF Comes
    <3> QED  BY <1>4, <2>1, <2>2, <3>1, CoalesceMerges
  <2>3. CASE ~(h[c].is_free /\ h[e].is_free)
    <3>1. Comes(h, c, b) = e
      BY <2>3 DEF Comes
    <3> QED  BY <1>4, <2>1, <2>3, <3>1, CoalesceMoves
  <2> QED  BY <2>2, <2>3
<1>5. z \in Z
  <2>1. <<0, 0>> \in R
    BY <1>1, <1>2
  <2> QED  BY <2>1
<1>6. \A s \in Z : Coalesce(s) \in Z
  <2> TAKE s \in Z
  <2>1. PICK c \in D, b \in D : Swallows(h, c, b) /\ s = At(h, c, b)
    OBVIOUS
  <2>2. CASE h[b].next = NULL
    BY <1>3, <2>1, <2>2
  <2>3. CASE h[b].next # NULL
    <3>1. PICK x \in D, y \in D : Swallows(h, x, y) /\ Coalesce(s) = At(h, x, y)
      BY <1>4, <2>1, <2>3
    <3>2. <<x, y>> \in R
      BY <3>1
    <3> QED  BY <3>1, <3>2
  <2> QED  BY <2>2, <2>3
<1>7. G \in [1..N -> [Z -> Z]]
  <2> HIDE DEF Z
  <2> QED  BY <1>6
<1>8. \E f : IsLoop(f)
  <2>1. PICK f \in [0..N -> Z] : f[0] = z /\ \A i \in 1..N : f[i] = G[i][f[i - 1]]
    <3> HIDE DEF Z, z, G, N
    <3>1. \E f \in [0..N -> Z] : Iterates(f, N, z, G)
      BY <1>1, <1>5, <1>7, Recursion
    <3> QED  BY <3>1 DEF Iterates
  <2> HIDE DEF Z, z, N
  <2>2. ASSUME NEW i \in 0..N PROVE f[i] = IF i = 0 THEN z ELSE Coalesce(f[i - 1])
    <3>1. CASE i = 0
      BY <2>1, <3>1
    <3>2. CASE i # 0
      <4>1. i \in 1..N /\ i - 1 \in 0..N
        BY <1>1, <3>2
      <4>2. f[i - 1] \in Z
        BY <4>1
      <4> QED  BY <2>1, <3>2, <4>1, <4>2
    <3> QED  BY <3>1, <3>2
  <2>3. f = [i \in 0..N |-> IF i = 0 THEN z ELSE Coalesce(f[i - 1])]
    BY <2>2
  <2>4. IsLoop(f)
    BY <1>2, <2>3
  <2> QED  BY <2>4
<1>9. IsLoop(g)
  <2> HIDE DEF IsLoop
  <2> QED  BY <1>8
<1>10. CoalesceFrom(h, 0) = g[N].h
  BY DEF CoalesceFrom
<1> HIDE DEF g, Z, z, G, R
<1>11. g[0] = At(h, 0, 0) /\ \A i \in 1..N : g[i] = Coalesce(g[i - 1])
  <2> HIDE DEF N
  <2>1. \A i \in 0..N : g[i] = IF i = 0 THEN [h |-> h, cur |-> 0] ELSE Coalesce(g[i - 1])
    BY <1>9
  <2>2. 0 \in 0..N /\ \A i \in 1..N : i \in 0..N /\ i # 0
    BY <1>1
  <2> QED  BY <1>2, <2>1, <2>2 DEF z
<1> HIDE DEF IsLoop
<1> DEFINE Q(i, c, b) == /\ Swallows(h, c, b)
                         /\ g[i] = At(h, c, b)
                         /\ h[b].next = NULL \/ i < End(h, b)
           S == {i \in Nat : i <= N => \E c \in D, b \in D : Q(i, c, b)}
<1>12. \A i \in Nat : i \in S
  <2>1. 0 \in S
    <3>1. 0 < End(h, 0)
      BY <1>1, ListBounds, HeapAssumption
    <3>2. Q(0, 0, 0)
      BY <1>2, <1>11, <3>1
    <3> HIDE DEF Q
    <3> QED  BY <1>1, <3>2
  <2>2. ASSUME NEW i \in Nat, i \in S PROVE i + 1 \in S
    <3> SUFFICES ASSUME i + 1 <= N PROVE \E c \in D, b \in D : Q(i + 1, c, b)
      OBVIOUS
    <3>1. PICK c \in D, b \in D : Q(i, c, b)
      <4> HIDE DEF Q
      <4>1. i <= N
        BY <1>1
      <4> QED  BY <2>2, <4>1
    <3>2. g[i + 1] = Coalesce(At(h, c, b))
      <4>1. i + 1 \in 1..N /\ (i + 1) - 1 = i
        BY <1>1
      <4> QED  BY <1>11, <3>1, <4>1
    <3>3. CASE h[b].next = NULL
      <4>1. g[i + 1] = At(h, c, b)
        BY <1>3, <3>1, <3>2, <3>3
      <4>2. Q(i + 1, c, b)
        BY <3>1, <3>3, <4>1
      <4> HIDE DEF Q
      <4> QED  BY <4>2
    <3>4. CASE h[b].next # NULL
      <4>1. PICK x \in D, y \in D : /\ y = h[b].next /\ End(h, b) < End(h, y)
                                    /\ Swallows(h, x, y)
                                    /\ Coalesce(At(h, c, b)) = At(h, x, y)
        BY <1>4, <3>1, <3>4
      <4>2. i + 1 < End(h, y)
        BY <1>1, <3>1, <3>4, <4>1
      <4>3. Q(i + 1, x, y)
        BY <3>2, <4>1, <4>2
      <4> HIDE DEF Q
      <4> QED  BY <4>3
    <3> QED  BY <3>3, <3>4
  <2> HIDE DEF S
  <2> QED  BY <2>1, <2>2, InductionNat
<1>13. PICK c \in D, b \in D : Q(N, c, b)
  <2> HIDE DEF Q
  <2> QED  BY <1>1, <1>12
<1>14. h[b].next = NULL
  <2>1. End(h, b) <= N /\ End(h, b) \in Nat
    BY ListBounds
  <2> QED  BY <1>1, <1>13, <2>1
<1>15. g[N] = At(h, c, b) /\ SoFar(h, c, b) = coalesce(h)
  BY <1>3, <1>13, <1>14
<1> QED  BY <1>10, <1>15 DEF At

\* Blocks marked free as well leave a list a list.
LEMMA FreedIsList ==
    ASSUME NEW h, IsList(h), NEW F
    PROVE  IsList(Freed(h, F))
<1> DEFINE g == Freed(h, F)
<1>1. DOMAIN g = DOMAIN h /\ g = [a \in DOMAIN g |-> g[a]]
  BY DEF Freed
<1>2. ASSUME NEW a \in DOMAIN h
      PROVE  g[a].size = h[a].size /\ g[a].next = h[a].next /\ g[a] \in Block
             /\ End(g, a) = End(h, a)
  <2>1. h[a] \in Block
    BY DEF IsList
  <2>2. g[a] = [h[a] EXCEPT !.is_free = @ \/ a \in F]
    BY DEF Freed
  <2>3. (h[a].is_free \/ a \in F) \in BOOLEAN
    OBVIOUS
  <2>4. g[a] \in Block /\ g[a].size = h[a].size /\ g[a].next = h[a].next
    BY <2>1, <2>2, <2>3 DEF Block
  <2> QED  BY <2>4 DEF End
<1> HIDE DEF g
<1>3. TilesList(g)
  BY <1>1, <1>2 DEF IsList, TilesList
<1> QED  BY <1>1, <1>2, <1>3 DEF g, IsList

\* The loops of memory.c compute what the model says of them in one formula:
\* find_free_block's walk and coalesce's pass on every list the heap reaches
\* and with any of its blocks marked free, memmove's two loops and memcpy's.
THEOREM HeapLoopsAgree == Spec => []LoopsAgree
<1>1. IInv => LoopsAgree
  <2> SUFFICES ASSUME IInv, heap_start = 0
               PROVE  /\ \A n \in 1..HeapSize :
                            find_free_block(blocks, n) = WalkFrom(blocks, heap_start, n)
                      /\ \A F \in SUBSET DOMAIN blocks :
                            coalesce(Freed(blocks, F))
                               = CoalesceFrom(Freed(blocks, F), heap_start)
    BY CopiesDo DEF LoopsAgree
  <2>1. IsList(blocks)
    BY ListAlways
  <2>2. ASSUME NEW n \in 1..HeapSize
        PROVE  find_free_block(blocks, n) = WalkFrom(blocks, heap_start, n)
    BY <2>1, WalkFinds
  <2>3. ASSUME NEW F \in SUBSET DOMAIN blocks
        PROVE  coalesce(Freed(blocks, F)) = CoalesceFrom(Freed(blocks, F), heap_start)
    <3>1. IsList(Freed(blocks, F))
      BY <2>1, FreedIsList
    <3> QED  BY <3>1, LoopCoalesces
  <2> QED  BY <2>2, <2>3
<1> QED  BY <1>1, HeapInvariant, PTL
=============================================================================
