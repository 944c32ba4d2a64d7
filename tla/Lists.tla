------------------------------- MODULE Lists -------------------------------
(***************************************************************************)
(* Linked lists and arrays of the code as sequences.                       *)
(***************************************************************************)
EXTENDS Integers, Sequences

Members(q) == {q[k] : k \in DOMAIN q}

(* The elements behind the n-th move down by one. *)
Without(q, n) == [k \in 1..Len(q) - 1 |-> q[IF k < n THEN k ELSE k + 1]]
=============================================================================
