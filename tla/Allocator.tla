----------------------------- MODULE Allocator -----------------------------
(***************************************************************************)
(* What a client of malloc, free, calloc and realloc relies on, with no    *)
(* free list and no headers: the arena is an array of cells, every granted *)
(* pointer owns an extent of it, and no call disturbs a cell that somebody *)
(* else owns.  Where an extent is placed, whether a request is refused and *)
(* what cells outside the owned extents hold is left open.                 *)
(*                                                                         *)
(* One promise is weaker than a client would like: a request of Limit      *)
(* cells or more, which calloc cannot tell from a smaller one, may be      *)
(* granted with less than was asked for.  The grant disturbs nobody, but   *)
(* its owner has no extent to rely on, and if it stores what it asked for  *)
(* it trespasses: from then on nothing is promised.                        *)
(*                                                                         *)
(* Heap.tla implements this specification (Heap!AllocatorSpec).            *)
(***************************************************************************)
EXTENDS Integers, Functions

CONSTANTS
    ArenaSize,  \* number of cells of the arena
    Cell,       \* what a cell may hold
    Zero,       \* the cell value calloc clears to
    Limit       \* the number of cells from which on a grant may fall short

VARIABLES
    owned,      \* function: granted pointer -> number of cells asked for
    cells,      \* contents of the arena
    trespassed  \* the owner of a short grant has stored what it asked for

allocVars == <<owned, cells, trespassed>>

Arena == 0..(ArenaSize - 1)

Extent(p, n) == p..(p + n - 1)

\* The pointers that own all they were asked for.
Full == {p \in DOMAIN owned : owned[p] < Limit}

\* An extent of n cells at p that meets no owned extent.
Fresh(p, n) ==
    /\ p \in Arena \ DOMAIN owned
    /\ Extent(p, n) \subseteq Arena
    /\ \A q \in Full : Extent(p, n) \cap Extent(q, owned[q]) = {}

\* Every pointer of S still owns what it owned, with the same contents.
Undisturbed(S) ==
    \A q \in S : \A x \in Extent(q, owned[q]) : cells'[x] = cells[x]

With(f, p, n) == [q \in DOMAIN f \cup {p} |-> IF q = p THEN n ELSE f[q]]

AllocInit ==
    /\ owned = [p \in {} |-> 0]
    /\ cells \in [Arena -> Cell]
    /\ trespassed = FALSE

----------------------------------------------------------------------------
(* Operations.                                                             *)

\* malloc(n) succeeds.
Grant(n) ==
    \E p \in Arena :
        /\ n > 0
        /\ Fresh(p, n)
        /\ owned' = With(owned, p, n)
        /\ cells' \in [Arena -> Cell]
        /\ Undisturbed(Full)
        /\ UNCHANGED trespassed

\* calloc of n cells succeeds.
GrantZeroed(n) ==
    \E p \in Arena :
        /\ n > 0
        /\ Fresh(p, n)
        /\ owned' = With(owned, p, n)
        /\ cells' \in [Arena -> Cell]
        /\ Undisturbed(Full)
        /\ \A x \in Extent(p, n) : cells'[x] = Zero
        /\ UNCHANGED trespassed

\* calloc of Limit cells or more returns a pointer nobody else holds.
GrantShort ==
    \E p \in Arena \ DOMAIN owned :
        /\ p \in DOMAIN owned'
        /\ owned'[p] >= Limit
        /\ owned' = With(owned, p, owned'[p])
        /\ cells' \in [Arena -> Cell]
        /\ Undisturbed(Full)
        /\ UNCHANGED trespassed

\* free(p), also realloc(p, 0).
Release(p) ==
    /\ p \in DOMAIN owned
    /\ owned' = Restrict(owned, DOMAIN owned \ {p})
    /\ cells' \in [Arena -> Cell]
    /\ Undisturbed(Full \ {p})
    /\ UNCHANGED trespassed

\* realloc(p, n) that keeps the pointer: no cell changes, and the extent,
\* grown or shrunk, still meets no other.
ResizeInPlace(p, n) ==
    /\ p \in DOMAIN owned
    /\ n > 0
    /\ Extent(p, n) \subseteq Arena
    /\ \A q \in Full \ {p} : Extent(p, n) \cap Extent(q, owned[q]) = {}
    /\ owned' = [owned EXCEPT ![p] = n]
    /\ UNCHANGED <<cells, trespassed>>

\* realloc(p, n) that moves: the new extent is fresh while p is still owned,
\* and receives a copy of everything p owned.
Move(p, n) ==
    \E q \in Arena :
        /\ p \in DOMAIN owned
        /\ Fresh(q, n)
        /\ owned' = With(Restrict(owned, DOMAIN owned \ {p}), q, n)
        /\ cells' \in [Arena -> Cell]
        /\ Undisturbed(Full \ {p})
        /\ p \in Full =>
              /\ n >= owned[p]
              /\ \A i \in 0..(owned[p] - 1) : cells'[q + i] = cells[p + i]
        /\ UNCHANGED trespassed

\* The owner of p stores into its extent.
Store(p) ==
    /\ p \in Full
    /\ cells' \in [Arena -> Cell]
    /\ \A x \in Arena \ Extent(p, owned[p]) : cells'[x] = cells[x]
    /\ UNCHANGED <<owned, trespassed>>

\* The owner of a short grant stores what it asked for.
Trespass ==
    /\ DOMAIN owned # Full
    /\ cells' \in [Arena -> Cell]
    /\ trespassed' = TRUE
    /\ UNCHANGED owned

\* Bookkeeping that no owner can see: cells nobody owns may change.
Housekeeping ==
    /\ cells' \in [Arena -> Cell]
    /\ Undisturbed(Full)
    /\ UNCHANGED <<owned, trespassed>>

Operation ==
    \/ \E n \in 1..ArenaSize : Grant(n) \/ GrantZeroed(n)
    \/ GrantShort
    \/ \E p \in DOMAIN owned :
          \/ Release(p)
          \/ Store(p)
          \/ \E n \in 1..ArenaSize : ResizeInPlace(p, n) \/ Move(p, n)
    \/ Trespass
    \/ Housekeeping

AllocNext == ~trespassed /\ Operation

AllocSpec == AllocInit /\ [][AllocNext]_allocVars

=============================================================================
