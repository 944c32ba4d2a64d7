----------------------------- MODULE PbufPools -----------------------------
(***************************************************************************)
(* Where packet buffers are (incoming.c): free in the global arena of      *)
(* their size, free in the local pool of a worker, in the hands of a       *)
(* worker that parses a packet, or in the queues of the pipeline until the *)
(* dupecheck thread purges them.  Workers come and go.  The order in which *)
(* an arena hands out its cells is CellMalloc's; here it hands out any.    *)
(***************************************************************************)
EXTENDS Integers, FiniteSets

CONSTANTS Worker,               \* all that have a worker_t: workers, UDP, HTTP
          Buf,                  \* the cells of the three arenas
          Size(_),              \* the arena that a cell was cut for
          Lens,                 \* lengths of packets with their Q construct
          PACKETLEN_MAX_SMALL, PACKETLEN_MAX_MEDIUM, PACKETLEN_MAX_LARGE,
          Bunch                 \* PBUF_ALLOCATE_BUNCH_*

ASSUME PoolsAssumption ==
  /\ PACKETLEN_MAX_SMALL \in Nat /\ PACKETLEN_MAX_MEDIUM \in Nat /\ PACKETLEN_MAX_LARGE \in Nat
  /\ PACKETLEN_MAX_SMALL < PACKETLEN_MAX_MEDIUM /\ PACKETLEN_MAX_MEDIUM < PACKETLEN_MAX_LARGE
  /\ Lens \subseteq Nat

Class == {PACKETLEN_MAX_SMALL, PACKETLEN_MAX_MEDIUM, PACKETLEN_MAX_LARGE}

ASSUME SizeAssumption == \A p \in Buf : Size(p) \in Class

VARIABLES pbuf_cells,        \* the free cells of every arena
          local,        \* pbuf_free_small, _medium and _large of every worker
          parsing,      \* the buffer that a worker fills: a set of at most one
          queued,       \* buffers in the queues of the pipeline
          buf_len,      \* the field of the same name
          is_free,      \* the field of the same name
          need          \* the length for which a buffer was asked

poolVars == <<pbuf_cells, local, parsing, queued, buf_len, is_free, need>>

(* pbuf_init: a cell that was never used holds zeroes. *)
PoolsInit ==
  /\ pbuf_cells = [k \in Class |-> {p \in Buf : Size(p) = k}]
  /\ local = [w \in Worker |-> [k \in Class |-> {}]]
  /\ parsing = [w \in Worker |-> {}]
  /\ queued = {}
  /\ buf_len = [p \in Buf |-> 0]
  /\ is_free = [p \in Buf |-> FALSE]
  /\ need = [p \in Buf |-> 0]

(* The size of the buffer for a packet. *)
ClassFor(len) ==
  IF len <= PACKETLEN_MAX_SMALL THEN PACKETLEN_MAX_SMALL
  ELSE IF len <= PACKETLEN_MAX_MEDIUM THEN PACKETLEN_MAX_MEDIUM
  ELSE PACKETLEN_MAX_LARGE

(* The caller has refused packets that are too long. *)
MayGet(w, len) == parsing[w] = {} /\ len <= PACKETLEN_MAX_LARGE

(* What pbuf_get returns has its header cleared and its length set. *)
Cleared(f, p, v) == [f EXCEPT ![p] = v]

(* pbuf_get, from the pool of the worker. *)
GetLocal(w, len) ==
  LET k == ClassFor(len)
  IN  /\ MayGet(w, len)
      /\ \E p \in local[w][k] :
           /\ local' = [local EXCEPT ![w][k] = @ \ {p}]
           /\ parsing' = [parsing EXCEPT ![w] = {p}]
           /\ buf_len' = Cleared(buf_len, p, k)
           /\ is_free' = Cleared(is_free, p, FALSE)
           /\ need' = Cleared(need, p, len)
      /\ UNCHANGED <<pbuf_cells, queued>>

(* allocarray[0] is returned, the others become the pool. *)
Rest(got, p) == got \ {p}

Unmarked(got) == [q \in Buf |-> is_free[q] /\ q \notin got]

(* pbuf_get, when the pool is empty: cellmallocmany gives up to a bunch of *)
(* buffers.  One is returned and the others become the pool.               *)
GetBunch(w, len) ==
  LET k == ClassFor(len)
  IN  /\ MayGet(w, len)
      /\ local[w][k] = {}
      /\ \E got \in SUBSET pbuf_cells[k] :
           /\ Cardinality(got) <= Bunch
           /\ \E p \in got :
                /\ pbuf_cells' = [pbuf_cells EXCEPT ![k] = @ \ got]
                /\ local' = [local EXCEPT ![w][k] = Rest(got, p)]
                /\ parsing' = [parsing EXCEPT ![w] = {p}]
                /\ need' = Cleared(need, p, len)
           /\ buf_len' = [q \in Buf |-> IF q \in got THEN k ELSE buf_len[q]]
           /\ is_free' = Unmarked(got)
      /\ UNCHANGED queued

(* The packet goes on to the dupecheck thread. *)
Accepted(w) ==
  /\ parsing[w] # {}
  /\ queued' = queued \cup parsing[w]
  /\ parsing' = [parsing EXCEPT ![w] = {}]
  /\ UNCHANGED <<pbuf_cells, local, buf_len, is_free, need>>

(* The packet is dropped: pbuf_free gives the buffer to the worker's pool, *)
(* by the length that it finds in the buffer.                              *)
Dropped(w) ==
  /\ \E p \in parsing[w] :
       local' = [local EXCEPT ![w] = [k \in Class |-> IF k = buf_len[p] THEN @[k] \cup {p} ELSE @[k]]]
  /\ parsing' = [parsing EXCEPT ![w] = {}]
  /\ UNCHANGED <<pbuf_cells, queued, buf_len, is_free, need>>

(* global_pbuf_purger: pbuf_free_many sorts the buffers by their length.   *)
Purge(S) ==
  /\ S # {} /\ S \subseteq queued
  /\ pbuf_cells' = [k \in Class |-> pbuf_cells[k] \cup {p \in S : buf_len[p] = k}]
  /\ queued' = queued \ S
  /\ is_free' = [p \in Buf |-> is_free[p] \/ p \in S]
  /\ UNCHANGED <<local, parsing, buf_len, need>>

(* Mutated: the medium buffers are forgotten. *)
WorkerExitForgets(w) ==
  /\ parsing[w] = {}
  /\ pbuf_cells' = [k \in Class |-> pbuf_cells[k] \cup
                 {p \in UNION {local[w][j] : j \in Class \ {PACKETLEN_MAX_MEDIUM}} : buf_len[p] = k}]
  /\ local' = [local EXCEPT ![w] = [k \in Class |-> {}]]
  /\ UNCHANGED <<parsing, queued, buf_len, is_free, need>>

(* worker_free_buffers: a worker that ends gives its pools back, every     *)
(* buffer by its length.                                                   *)
WorkerExit(w) ==
  /\ parsing[w] = {}
  /\ pbuf_cells' = [k \in Class |-> pbuf_cells[k] \cup
                 {p \in UNION {local[w][j] : j \in Class} : buf_len[p] = k}]
  /\ local' = [local EXCEPT ![w] = [k \in Class |-> {}]]
  /\ UNCHANGED <<parsing, queued, buf_len, is_free, need>>

PoolsNext ==
  \/ \E w \in Worker :
       \/ \E len \in Lens : GetLocal(w, len) \/ GetBunch(w, len)
       \/ Accepted(w) \/ Dropped(w) \/ WorkerExit(w)
  \/ \E S \in SUBSET Buf : Purge(S)

PoolsSpec == PoolsInit /\ [][PoolsNext]_poolVars

-----------------------------------------------------------------------------
PoolsTypeOK ==
  /\ pbuf_cells \in [Class -> SUBSET Buf]
  /\ local \in [Worker -> [Class -> SUBSET Buf]]
  /\ parsing \in [Worker -> SUBSET Buf]
  /\ queued \in SUBSET Buf
  /\ buf_len \in [Buf -> Class \cup {0}]
  /\ is_free \in [Buf -> BOOLEAN]
  /\ need \in [Buf -> Nat]

(* A free buffer is on a list of its own size. *)
RightList ==
  /\ \A k \in Class : \A p \in pbuf_cells[k] : Size(p) = k
  /\ \A w \in Worker, k \in Class : \A p \in local[w][k] : Size(p) = k /\ buf_len[p] = k

(* No buffer is in two places: no list, worker or queue shares one with    *)
(* another.                                                                *)
OnePlace ==
  /\ \A k \in Class : pbuf_cells[k] \cap queued = {}
  /\ \A w \in Worker :
       /\ parsing[w] \cap queued = {}
       /\ \A k \in Class :
            /\ local[w][k] \cap queued = {}
            /\ local[w][k] \cap pbuf_cells[k] = {}
            /\ parsing[w] \cap pbuf_cells[k] = {}
       /\ \A v \in Worker, k \in Class :
            /\ parsing[v] \cap local[w][k] = {}
            /\ v # w => local[v][k] \cap local[w][k] = {} /\ parsing[v] \cap parsing[w] = {}

(* Nothing is lost: every buffer is in one of those places. *)
NoneLost ==
  \A p \in Buf : \/ \E k \in Class : p \in pbuf_cells[k]
                 \/ \E w \in Worker : p \in parsing[w] \/ \E k \in Class : p \in local[w][k]
                 \/ p \in queued

(* A buffer that holds a packet has room for it. *)
PacketFits ==
  \A p \in queued \cup UNION {parsing[w] : w \in Worker} : need[p] <= Size(p) /\ buf_len[p] = Size(p)

(* A buffer that is marked as free is in an arena: what the workers read   *)
(* (outgoing.c reports a marked one as a bug) is never marked.             *)
MarkedIsFree == \A p \in Buf : is_free[p] => p \in pbuf_cells[Size(p)]

(* The pools of packet buffers are sound, whatever workers get, drop and   *)
(* hand over, whatever the purger gives back and whenever workers end.     *)
PoolsSound == RightList /\ OnePlace /\ NoneLost /\ PacketFits /\ MarkedIsFree
=============================================================================
