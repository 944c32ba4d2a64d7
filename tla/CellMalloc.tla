----------------------------- MODULE CellMalloc -----------------------------
(***************************************************************************)
(* An arena of cells and those who use it: cells are asked for one at a    *)
(* time or in bunches and given back in any order.  Every function of      *)
(* cellmalloc.c holds the mutex of the arena, or has the arena for itself, *)
(* so that a call is one step.                                             *)
(***************************************************************************)
EXTENDS CellArena

CONSTANTS Sizes,        \* pairs of cell size and alignment
          MaxMany       \* the most cells that are asked for at a time

VARIABLES arena,
          held          \* the cells that are handed out

arenaVars == <<arena, held>>

ArenaInit ==
  /\ \E s \in Sizes, lifo \in BOOLEAN : arena = NewArena(s[1], s[2], lifo)
  /\ held = {}

CellMallocOne ==
  \E mmap \in BOOLEAN : \E m \in {Malloc(arena, mmap)} :
    /\ arena' = m.arena
    /\ held' = IF m.got = NULL THEN held ELSE held \cup {m.got}

CellMallocMany ==
  \E mmap \in BOOLEAN, n \in 1..MaxMany : \E m \in {MallocMany(arena, n, mmap)} :
    /\ arena' = m.arena
    /\ held' = held \cup ToSet(m.got)

CellFree ==
  \E c \in held : arena' = Free(arena, c) /\ held' = held \ {c}

CellFreeMany ==
  \E c, d \in held : c # d /\ arena' = FreeMany(arena, <<c, d>>) /\ held' = held \ {c, d}

ArenaNext == CellMallocOne \/ CellMallocMany \/ CellFree \/ CellFreeMany

-----------------------------------------------------------------------------

(* Cells that are handed out are aligned, lie in their block and share no  *)
(* byte with another cell.                                                 *)
CellsApart ==
  \A c \in held :
    /\ c[2] % arena.alignment = 0
    /\ c[2] >= 0 /\ c[2] + arena.cellsize <= createsize
    /\ \A d \in held \ {c} : c[1] = d[1] => (c[2] + arena.cellsize <= d[2] \/ d[2] + arena.cellsize <= c[2])

(* The cells of the blocks i to j, for every layout. *)
Blocks(size, i, j) ==
  LET o == SetToSortSeq(Offsets(NewArena(size[1], size[2], FALSE)), LAMBDA x, y : x < y)
  IN  FlattenSeq([b \in 1..(j - i + 1) |-> [k \in 1..Len(o) |-> <<b + i - 1, o[k]>>]])

NewCells == {<<>>} \cup {Blocks(s, i, j) : s \in Sizes, i, j \in 1..CELLBLOCKS_MAX}

Pool == INSTANCE CellPool WITH
          lifo <- arena.lifo, line <- FreeList(arena), held <- held, MaxMany <- MaxMany,
          News <- NewCells

(* The linked list of an arena behaves as the line of CellPool: cells come *)
(* from its front, and go back to the end or, with the policy LIFO, to the *)
(* front.                                                                  *)
ArenaIsPool == Pool!PoolSpec
=============================================================================
