----------------------------- MODULE HistoryUse -----------------------------
(***************************************************************************)
(* The cells of the position history while several threads use them        *)
(* (historydb.c).  The dupecheck thread inserts and the main thread cleans *)
(* up, both with the write lock; a worker looks up a key with the read     *)
(* lock, but reads the head of the chain before it has the lock and uses   *)
(* the cell that it found after it gave the lock back (filter.c copies the *)
(* place from the cell).  Cells come from an arena of cellmalloc.c: the    *)
(* link of a chain and the link of the free list are the same word.        *)
(*                                                                         *)
(* A key may be the name of an object, which a packet can kill, or a       *)
(* callsign, which only expires.                                           *)
(***************************************************************************)
EXTENDS CellArena

CONSTANTS HistoryCellSize,  \* sizeof(struct history_cell_t)
          Key, ObjectKey, HashOf(_), HashBuckets,
          storetime,        \* lastposition_storetime
          Margin,           \* 5*60: a lookup wants a cell to be this far from its expiry
          MaxNow,           \* bound on the clock
          UseTime           \* how long a worker may take between the steps of a lookup

ASSUME UseAssumption == UseTime <= Margin

VARIABLES historydb_cells,
          hash,         \* historydb_hash: the first cell of every chain
          data,         \* key and arrivaltime of every cell
          now,          \* tick
          reader        \* the worker that looks up

useVars == <<historydb_cells, hash, data, now, reader>>

Idle == [pc |-> "idle", key |-> CHOOSE k \in Key : TRUE, cp |-> NULL, since |-> 0,
         absent |-> FALSE, gone |-> FALSE]

UseInit ==
  /\ historydb_cells = NewArena(HistoryCellSize, 1, FALSE)
  /\ hash = [b \in HashBuckets |-> NULL]
  /\ data = [c \in DOMAIN historydb_cells.next |-> [key |-> CHOOSE k \in Key : TRUE, t |-> -storetime]]
  /\ now = 0
  /\ reader = Idle

(* The cells that one meets from a cell on.  Chains and the free list are  *)
(* finite, so that as many steps as there are cells are enough.            *)
From(c) ==
  LET all == Cardinality(DOMAIN historydb_cells.next)
      nth[i \in 1..all] == IF i = 1 THEN c ELSE IF nth[i - 1] = NULL THEN NULL ELSE historydb_cells.next[nth[i - 1]]
  IN  SelectSeq(nth, LAMBDA x : x # NULL)

(* Mutated: a lookup accepts a cell until the very moment of its expiry. *)
FreshAlways(c) == data[c].t >= now - storetime

(* The cells that a lookup accepts. *)
Fresh(c) == data[c].t > now - storetime + Margin

Chain(b) == From(hash[b])

Present(k) == \E c \in ToSet(Chain(HashOf(k))) : data[c].key = k /\ Fresh(c)

(* The links after a chain has been written anew. *)
Linked(next, chain) ==
  [c \in DOMAIN next |->
     IF \E i \in DOMAIN chain : chain[i] = c
     THEN LET i == CHOOSE i \in DOMAIN chain : chain[i] = c
          IN  IF i = Len(chain) THEN NULL ELSE chain[i + 1]
     ELSE next[c]]

HeadOf(chain) == IF chain = <<>> THEN NULL ELSE Head(chain)

(* The cells of a sequence are given back one after the other. *)
Removed(chain, gone) ==
  FreeMany([historydb_cells EXCEPT !.next = Linked(@, SelectSeq(chain, LAMBDA c : c \notin gone))],
           SelectSeq(chain, LAMBDA c : c \in gone))

(* What a change of the chains means to the worker that looks up: the head *)
(* that it has seen was given back, or its key was not there for a moment. *)
Seen(freed) ==
  \E k \in {reader.key} :
    reader' = [reader EXCEPT !.gone = @ \/ (reader.pc = "head" /\ reader.cp \in freed),
                             !.absent = @ \/ (reader.pc = "head" /\ ~Present(k)')]

Old(chain) == {c \in ToSet(chain) : data[c].t < now - storetime}

Mine(chain, k) == {c \in ToSet(chain) \ Old(chain) : data[c].key = k}

(* historydb_insert of a packet about key k, which kills k if dead.        *)
Insert(k, dead) ==
  LET b == HashOf(k)
      chain == Chain(b)
      mine == Mine(chain, k)
      gone == Old(chain) \cup (IF dead THEN mine ELSE {})
      kept == SelectSeq(chain, LAMBDA c : c \notin gone)
  IN  /\ dead => k \in ObjectKey
      /\ \E mmap \in BOOLEAN : \E a \in {Removed(chain, gone)} :
         \E m \in {IF dead \/ mine # {} THEN [got |-> NULL, arena |-> a] ELSE Malloc(a, mmap)} :
           LET now_kept == IF m.got = NULL THEN kept ELSE Append(kept, m.got)
           IN  /\ historydb_cells' = [m.arena EXCEPT !.next = Linked(@, now_kept)]
               /\ hash' = [hash EXCEPT ![b] = HeadOf(now_kept)]
               /\ data' = [c \in DOMAIN data |->
                             IF (c = m.got /\ c # NULL) \/ (c \in mine /\ ~dead)
                             THEN [key |-> k, t |-> now] ELSE data[c]]
      /\ UNCHANGED now
      /\ Seen(gone)

(* historydb_cleanup, for one chain. *)
CleanUp(b) ==
  LET chain == Chain(b)
      gone == Old(chain)
  IN  /\ gone # {}
      /\ historydb_cells' = Removed(chain, gone)
      /\ hash' = [hash EXCEPT ![b] = HeadOf(SelectSeq(chain, LAMBDA c : c \notin gone))]
      /\ UNCHANGED <<data, now>>
      /\ Seen(gone)

(* historydb_lookup up to the read lock: the head of the chain is read.    *)
LookupHead(k) ==
  /\ reader.pc = "idle"
  /\ reader' = [pc |-> "head", key |-> k, cp |-> hash[HashOf(k)], since |-> now,
                absent |-> ~Present(k), gone |-> FALSE]
  /\ UNCHANGED <<historydb_cells, hash, data, now>>

(* The rest of historydb_lookup, with the read lock. *)
LookupWalk ==
  /\ reader.pc = "head"
  /\ LET hits == SelectSeq(From(reader.cp), LAMBDA c : data[c].key = reader.key /\ Fresh(c))
     IN  reader' = [reader EXCEPT !.pc = "found", !.cp = HeadOf(hits), !.since = now]
  /\ UNCHANGED <<historydb_cells, hash, data, now>>

(* The worker has used the cell. *)
Used ==
  /\ reader.pc = "found"
  /\ reader' = Idle
  /\ UNCHANGED <<historydb_cells, hash, data, now>>

(* A worker is not held up for longer than UseTime between two steps. *)
Clock ==
  /\ now < MaxNow
  /\ reader.pc # "idle" => now < reader.since + UseTime
  /\ now' = now + 1
  /\ UNCHANGED <<historydb_cells, hash, data>>
  /\ Seen({})

UseNext ==
  \/ \E k \in Key, dead \in BOOLEAN : Insert(k, dead)
  \/ \E b \in HashBuckets : CleanUp(b)
  \/ \E k \in Key : LookupHead(k)
  \/ LookupWalk \/ Used \/ Clock

-----------------------------------------------------------------------------
InChains == UNION {ToSet(Chain(b)) : b \in HashBuckets}

(* What a lookup answers stands although the head of the chain is read     *)
(* before the read lock is taken and the cell is used after it was given   *)
(* back.  The cell found is still the cell of the key, if the key is a     *)
(* callsign: it is five minutes from its expiry, and a callsign is not     *)
(* killed.  A key that is missed was missing at some moment of the lookup, *)
(* unless the head was given back before the lock was taken.               *)
LookupStands ==
  reader.pc = "found" =>
    IF reader.cp = NULL THEN reader.absent \/ reader.gone
    ELSE reader.key \notin ObjectKey =>
           reader.cp \in InChains /\ data[reader.cp].key = reader.key
=============================================================================
