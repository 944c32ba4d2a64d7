---------------------------- MODULE ClientInput ----------------------------
(***************************************************************************)
(* The input side of a client connection (worker.c): what is read from the *)
(* socket is collected in ibuf, deframe_aprsis_input_lines hands the lines *)
(* in it to the handler of the client, and client_postread keeps the rest. *)
(*                                                                         *)
(* The stream is what the other end sends: "c" is a character of a line,   *)
(* "e" an end-of-line byte.  A cell of ibuf holds the position in the      *)
(* stream of the byte in it, or Nul once a handler has overwritten it.     *)
(***************************************************************************)
EXTENDS Integers, Sequences, FiniteSets

CONSTANTS ibuf_size,
          MaxStream           \* bound on the length of the stream

ASSUME InputAssumption == ibuf_size \in Nat \ {0, 1} /\ MaxStream \in Nat

(* A handler returns, reports that it closed the client, returns although  *)
(* it closed it, or reports that a write was refused while the client      *)
(* lives.                                                                  *)
Results == {"done", "destroyed", "closed", "refused"}

VARIABLES stream,
          got,                \* how many bytes of it have been read
          ibuf, ibuf_end,
          ipc,                \* "poll", or "deframe" with:
          i, row_start,       \* the loop of deframe_aprsis_input_lines
          handed,             \* the lines given to handlers: positions of their bytes
          iopen,
          again               \* has a write of a handler been refused?

inputVars == <<stream, got, ibuf, ibuf_end, ipc, i, row_start, handed, iopen, again>>
frameVars == <<stream, got>>

Nul == 0
IsEol(cell) == cell # Nul /\ stream[cell] = "e"

InputInit ==
    /\ \E n \in 0..MaxStream : stream \in [1..n -> {"c", "e"}]
    /\ got = 0 /\ ibuf = [k \in 0..ibuf_size - 1 |-> Nul] /\ ibuf_end = 0
    /\ ipc = "poll" /\ i = 0 /\ row_start = 0
    /\ handed = <<>> /\ iopen = TRUE /\ again = FALSE

Close ==
    /\ iopen' = FALSE /\ ipc' = "poll" /\ ibuf_end' = 0 /\ i' = 0 /\ row_start' = 0
    /\ UNCHANGED <<stream, got, ibuf, handed, again>>

(* handle_client_readable and ssl_readable, then client_postread up to the *)
(* loop: n bytes arrive, behind what is already there.                     *)
Read ==
    /\ ipc = "poll" /\ iopen
    /\ \E n \in 1..ibuf_size - ibuf_end - 1 :
         /\ got + n <= Len(stream)
         /\ got' = got + n /\ ibuf_end' = ibuf_end + n
         /\ ibuf' = [k \in DOMAIN ibuf |-> IF k \in ibuf_end..ibuf_end + n - 1
                                           THEN got + 1 + (k - ibuf_end) ELSE ibuf[k]]
    /\ ipc' = "deframe" /\ i' = 0 /\ row_start' = 0
    /\ UNCHANGED <<stream, handed, iopen, again>>

(* The other end closes, or there is no room: read returns 0 either way. *)
ReadZero ==
    /\ ipc = "poll" /\ iopen
    /\ got = Len(stream) \/ ibuf_size - ibuf_end - 1 = 0
    /\ Close

(* The first end of line at or after k, or the end of the data. *)
FindEol(k) ==
    CHOOSE j \in k..ibuf_end : /\ j = ibuf_end \/ IsEol(ibuf[j])
                               /\ \A m \in k..j - 1 : ~IsEol(ibuf[m])

(* The first byte after the run of end-of-line bytes at k. *)
SkipEol(k) ==
    CHOOSE j \in k..ibuf_end : /\ j = ibuf_end \/ ~IsEol(ibuf[j])
                               /\ \A m \in k..j - 1 : IsEol(ibuf[m])

(* Mutant: the byte after the end of line is not looked at. *)
ContinueTwice(j) ==
    LET s == SkipEol(IF j + 2 <= ibuf_end THEN j + 2 ELSE ibuf_end)
    IN  /\ row_start' = s
        /\ i' = s + 1

(* The loop goes on behind the end of line at j.  The for statement counts *)
(* once more, past a byte that is known not to end a line.                 *)
Continue(j) ==
    LET s == SkipEol(j + 1)
    IN  /\ row_start' = s
        /\ i' = s + 1

(* An empty line is passed over. *)
EmptyLine ==
    /\ ipc = "deframe" /\ i < ibuf_end
    /\ \E j \in {FindEol(i)} :
         /\ j < ibuf_end /\ j = row_start
         /\ Continue(j)
    /\ UNCHANGED <<frameVars, ibuf, ibuf_end, ipc, handed, iopen, again>>

(* A line is handed over.  The handlers of logins write a NUL where the    *)
(* line ends.                                                              *)
Call ==
    /\ ipc = "deframe" /\ i < ibuf_end
    /\ \E j \in {FindEol(i)}, res \in Results, nul \in BOOLEAN :
         /\ j < ibuf_end /\ j > row_start
         /\ handed' = Append(handed, [k \in 1..j - row_start |-> ibuf[row_start + k - 1]])
         /\ ibuf' = IF nul THEN [ibuf EXCEPT ![j] = Nul] ELSE ibuf
         /\ CASE res = "done" ->
                   Continue(j) /\ UNCHANGED <<ipc, ibuf_end, iopen, again>>
              [] res = "destroyed" ->        \* deframe and client_postread return -1
                   /\ iopen' = FALSE /\ ipc' = "poll" /\ ibuf_end' = 0
                   /\ i' = 0 /\ row_start' = 0 /\ UNCHANGED again
              [] res = "refused" ->          \* the same, and ibuf stays as it is
                   /\ ipc' = "poll" /\ i' = 0 /\ row_start' = 0 /\ again' = TRUE
                   /\ UNCHANGED <<ibuf_end, iopen>>
              [] res = "closed" ->           \* ibuf_end is read again, and is 0 now
                   /\ iopen' = FALSE /\ ipc' = "poll" /\ ibuf_end' = 0
                   /\ i' = 0 /\ row_start' = 0 /\ UNCHANGED again
    /\ UNCHANGED frameVars

(* The end of client_postread. *)
Postread(consumed) ==
    /\ ibuf_end' = IF consumed >= ibuf_end THEN 0 ELSE ibuf_end - consumed
    /\ ibuf' = IF consumed \in 1..ibuf_end - 1
               THEN [k \in DOMAIN ibuf |-> IF k < ibuf_end - consumed THEN ibuf[k + consumed]
                                           ELSE ibuf[k]]
               ELSE ibuf

LoopEnd ==
    /\ ipc = "deframe"
    /\ \A k \in i..ibuf_end - 1 : ~IsEol(ibuf[k])
    /\ Postread(row_start)
    /\ ipc' = "poll" /\ i' = 0 /\ row_start' = 0
    /\ UNCHANGED <<frameVars, handed, iopen, again>>

(* A live upgrade between two reads: worker_client_json writes down the    *)
(* bytes of ibuf, accept_liveupgrade_single restores them.                 *)
InputUpgrade ==
    /\ ipc = "poll" /\ iopen
    /\ ibuf' = [k \in DOMAIN ibuf |-> IF k < ibuf_end THEN ibuf[k] ELSE Nul]
    /\ UNCHANGED <<frameVars, ibuf_end, ipc, i, row_start, handed, iopen, again>>

InputNext == InputUpgrade \/ Read \/ ReadZero \/ EmptyLine \/ Call \/ LoopEnd

InputSpec == InputInit /\ [][InputNext]_inputVars
-----------------------------------------------------------------------------
(* The lines that the first n bytes of the stream complete. *)
IsLine(s, e) ==
    /\ s < e /\ stream[e] = "e"
    /\ \A k \in s..e - 1 : stream[k] = "c"
    /\ s = 1 \/ stream[s - 1] = "e"

CompleteLines(n) ==
    LET bounds == {b \in (1..n) \X (1..n) : IsLine(b[1], b[2])}
    IN  {[o \in 1..b[2] - b[1] |-> b[1] + o - 1] : b \in bounds}

(* However the stream is cut into reads, and whichever handlers overwrite  *)
(* the end of a line, the handlers get the lines of the stream, whole, in  *)
(* order, and each exactly once, as soon as their end has arrived, unless  *)
(* the write of a reply was refused: then the lines of this read are given *)
(* to the handlers again.                                                  *)
LinesHanded ==
  ~again =>
    /\ \A k \in 1..Len(handed) - 1 : handed[k][1] < handed[k + 1][1]
    /\ iopen /\ ipc = "poll" => {handed[k] : k \in 1..Len(handed)} = CompleteLines(got)

=============================================================================
