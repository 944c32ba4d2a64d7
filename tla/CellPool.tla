------------------------------ MODULE CellPool ------------------------------
(***************************************************************************)
(* What an arena promises to those who use it.  The free cells wait in a   *)
(* line.  Cells are handed out from its front; new ones are put at its     *)
(* end; a cell that is given back goes to the end, so that it is used      *)
(* again as late as possible, or (lifo) to the front.                      *)
(***************************************************************************)
EXTENDS SequencesExt

CONSTANTS MaxMany,      \* the most cells that are asked for at a time
          News          \* the sequences of new cells that may join the line

VARIABLES lifo, line, held

PoolInit == lifo \in BOOLEAN /\ line = <<>> /\ held = {}

(* Up to n cells are handed out, after new ones have joined the line. *)
Get(n, new) ==
  LET all == line \o new
      k == IF n <= Len(all) THEN n ELSE Len(all)
  IN  /\ ToSet(new) \cap (held \cup ToSet(line)) = {}
      /\ line' = SubSeq(all, k + 1, Len(all))
      /\ held' = held \cup ToSet(SubSeq(all, 1, k))
      /\ UNCHANGED lifo

(* Cells are given back, one after the other. *)
Give(cells) ==
  /\ ToSet(cells) \subseteq held
  /\ held' = held \ ToSet(cells)
  /\ line' = IF lifo THEN Reverse(cells) \o line ELSE line \o cells
  /\ UNCHANGED lifo

PoolNext ==
  \/ \E n \in 1..MaxMany, new \in News : Get(n, new)
  \/ \E cells \in UNION {[1..n -> held] : n \in 1..MaxMany} : Give(cells)

PoolSpec == PoolInit /\ [][PoolNext]_<<lifo, line, held>>
=============================================================================
