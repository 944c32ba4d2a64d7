----------------------------- MODULE CellArena -----------------------------
(***************************************************************************)
(* What cellmalloc.c does to an arena of cells of one size.  A cell is a   *)
(* pair of the number of its block and its offset in the block.  An arena  *)
(* is a record of the free list (head, tail and the link "next" that is    *)
(* kept in the first word of every cell, free or not), the counters and    *)
(* the sizes; all arenas of the program have minfree 0.                    *)
(***************************************************************************)
EXTENDS Integers, SequencesExt

CONSTANTS CELLBLOCKS_MAX,
          createsize                \* bytes of a block

NULL == <<0, 0>>

Align(cellsize, alignment) ==
  cellsize + (IF cellsize % alignment # 0 THEN alignment - (cellsize % alignment) ELSE 0)

(* Mutated: a last cell that starts in the block and ends outside of it. *)
OffsetsOver(a) == {i \in 0..(createsize - 1) : i % a.increment = 0}

(* The offsets at which new_cellblock puts cells. *)
Offsets(a) == {i \in 0..(createsize - a.increment) : i % a.increment = 0}

(* cellinit *)
NewArena(cellsize, alignment, lifo) ==
  LET inc == Align(cellsize, alignment)
  IN  [cellsize |-> cellsize, alignment |-> alignment, increment |-> inc, lifo |-> lifo,
       head |-> NULL, tail |-> NULL, count |-> 0, blocks |-> 0,
       next |-> [c \in {NULL} \cup ((1..CELLBLOCKS_MAX) \X {i \in 0..(createsize - 1) : i % inc = 0})
                   |-> NULL]]

(* One turn of the loop of new_cellblock: a cell is appended to the list. *)
AppendCell(a, c) ==
  [a EXCEPT !.head = IF @ = NULL THEN c ELSE @,
            !.next = IF a.head = NULL THEN [@ EXCEPT ![c] = NULL]
                                      ELSE [@ EXCEPT ![a.tail] = c, ![c] = NULL],
            !.tail = c,
            !.count = @ + 1]

(* new_cellblock, when mmap succeeds. *)
NewCellblock(a) ==
  LET b == a.blocks + 1
      offsets == SetToSortSeq(Offsets(a), LAMBDA x, y : x < y)
  IN  FoldLeft(LAMBDA acc, i : AppendCell(acc, <<b, i>>), [a EXCEPT !.blocks = b], offsets)

MayGrow(a) == a.blocks < CELLBLOCKS_MAX

(* The arena from which a cell is picked: a block is added when the free   *)
(* list is empty; mmap says whether the system has memory to give.         *)
Filled(a, mmap) == IF a.head = NULL /\ MayGrow(a) /\ mmap THEN NewCellblock(a) ELSE a

(* The free list without its first cell. *)
Taken(a) ==
  [a EXCEPT !.head = a.next[a.head],
            !.next = [@ EXCEPT ![a.head] = NULL],
            !.tail = IF a.next[a.head] = NULL THEN NULL ELSE @,
            !.count = @ - 1]

(* A cell and the arena after cellmalloc; NULL when there is none. *)
Malloc(a, mmap) ==
  LET f == Filled(a, mmap)
  IN  IF f.head = NULL THEN [got |-> NULL, arena |-> f]
                       ELSE [got |-> f.head, arena |-> Taken(f)]

(* The cells and the arena after cellmallocmany. *)
MallocMany(a, numcells, mmap) ==
  FoldLeft(LAMBDA acc, i :
             LET m == Malloc(acc.arena, mmap)
             IN  [got |-> IF m.got = NULL THEN acc.got ELSE Append(acc.got, m.got),
                  arena |-> m.arena],
           [got |-> <<>>, arena |-> a], [i \in 1..numcells |-> i])

(* Mutated: the policy is not looked at. *)
FreeLifo(a, c) == [a EXCEPT !.next = [@ EXCEPT ![c] = a.head], !.head = c, !.count = @ + 1]

(* cellfree *)
Free(a, c) ==
  IF a.lifo
  THEN [a EXCEPT !.next = [@ EXCEPT ![c] = a.head], !.head = c, !.count = @ + 1]
  ELSE [a EXCEPT !.next = IF a.tail = NULL THEN [@ EXCEPT ![c] = NULL]
                                           ELSE [@ EXCEPT ![a.tail] = c, ![c] = NULL],
                 !.tail = c,
                 !.head = IF @ = NULL THEN c ELSE @,
                 !.count = @ + 1]

(* cellfreemany *)
FreeMany(a, cells) == FoldLeft(Free, a, cells)

(* The free list: what one meets from the head on. *)
FreeList(a) ==
  LET nth[i \in Nat] == IF i = 1 THEN a.head ELSE a.next[nth[i - 1]]
  IN  [i \in 1..a.count |-> nth[i]]
=============================================================================
