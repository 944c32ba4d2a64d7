----------------------------- MODULE MCPipeline -----------------------------
(* Instances of Pipeline for TLC. *)
EXTENDS Pipeline, TLC

(* No content is a mangled version of another one. *)
NoMangling == [k \in Key |-> {}]

(* "trimmed" is what trimming makes of "spaced", and nothing else. *)
Trimming == [k \in Key |-> IF k = "spaced" THEN {"trimmed"} ELSE {}]

KeepNone == [q \in Queue |-> 0]
KeepOne == [q \in Queue |-> 1]
=============================================================================
