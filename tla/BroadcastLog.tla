---------------------------- MODULE BroadcastLog ----------------------------
(***************************************************************************)
(* What a global packet queue promises: one log, appended to at its end,   *)
(* that readers come to, each at the then end of it, and read entry by     *)
(* entry, none skipped and none read twice.  Entries are reclaimed from    *)
(* the front, and never the last entry a present reader has read, which    *)
(* its cursor still points into.                                           *)
(***************************************************************************)
EXTENDS Integers, Sequences

CONSTANT Reader

VARIABLES
    log,        \* every entry ever appended
    low,        \* how many of them are reclaimed
    readers,    \* the readers present
    position    \* position[r]: how many entries r has passed

vars == <<log, low, readers, position>>

Init ==
    /\ log = <<>>
    /\ low = 0
    /\ readers = {}
    /\ position = [r \in Reader |-> 0]

AppendEntries ==
    /\ Len(log') > Len(log)
    /\ SubSeq(log', 1, Len(log)) = log
    /\ UNCHANGED <<low, readers, position>>

Read(r) ==
    /\ r \in readers
    /\ position[r] < Len(log)
    /\ position' = [position EXCEPT ![r] = @ + 1]
    /\ UNCHANGED <<log, low, readers>>

Reclaim ==
    /\ low' \in (low + 1)..Len(log)
    /\ \A r \in readers : low' < position[r]
    /\ UNCHANGED <<log, readers, position>>

Join(r) ==
    /\ r \notin readers
    /\ readers' = readers \cup {r}
    /\ position' = [position EXCEPT ![r] = Len(log)]
    /\ UNCHANGED <<log, low>>

Leave(r) ==
    /\ r \in readers
    /\ readers' = readers \ {r}
    /\ position' = [position EXCEPT ![r] = 0]
    /\ UNCHANGED <<log, low>>

Next ==
    \/ AppendEntries
    \/ Reclaim
    \/ \E r \in Reader : Read(r) \/ Join(r) \/ Leave(r)

Spec == Init /\ [][Next]_vars
=============================================================================
