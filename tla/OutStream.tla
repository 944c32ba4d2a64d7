----------------------------- MODULE OutStream -----------------------------
(***************************************************************************)
(* What the output side of a connection promises: the lines that are       *)
(* accepted for it reach the socket byte by byte in the order in which     *)
(* they were accepted.  No byte is lost, repeated or overtaken, and a line *)
(* is accepted as a whole, until the connection is closed with what it     *)
(* still had queued.                                                       *)
(***************************************************************************)
EXTENDS Naturals, Sequences

CONSTANT Line             \* the byte sequences that may be written

VARIABLES queue,          \* the bytes accepted and not yet passed on
          wire,           \* the bytes the last step passed to the socket
          open

streamVars == <<queue, wire, open>>

StreamInit == queue = <<>> /\ wire = <<>> /\ open = TRUE

(* A line, or nothing, is accepted and the first n bytes are passed on. *)
Pass(line, n) ==
    /\ open = TRUE /\ open' = TRUE
    /\ wire' = SubSeq(queue \o line, 1, n)
    /\ queue' = SubSeq(queue \o line, n + 1, Len(queue \o line))

Close ==
    /\ open = TRUE /\ open' = FALSE
    /\ queue' = <<>> /\ wire' = <<>>

StreamNext ==
    \/ \E line \in Line \cup {<<>>} : \E n \in 0..Len(queue \o line) : Pass(line, n)
    \/ Close

StreamSpec == StreamInit /\ [][StreamNext]_streamVars
=============================================================================
