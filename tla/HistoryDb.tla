----------------------------- MODULE HistoryDb -----------------------------
(***************************************************************************)
(* The position history (historydb.c): chains of cells, one chain for each *)
(* hash bucket.  A cell is a record of a key, a place and the time of      *)
(* arrival.  A key is a pair: <<"call", n>> for a callsign or a name as it *)
(* is typed, <<"padded", n>> for an object name with the blanks that fill  *)
(* its nine characters, and <<"header", n>> for the start of a third-party *)
(* header.                                                                 *)
(***************************************************************************)
EXTENDS Integers, SequencesExt

CONSTANTS lastposition_storetime,
          ValidityMargin,           \* 5*60: how much earlier a lookup gives up
          KeyBucket(_),             \* the chain of a key
          KeyBuckets

EmptyHistory == [b \in KeyBuckets |-> <<>>]

CallKey(n) == <<"call", n>>

Cell(key, place, t) == [key |-> key, place |-> place, t |-> t]

Expired(cell, now) == cell.t < now - lastposition_storetime

(* The name under which a packet is stored: it is read again from the      *)
(* information field, and for positions from the header.                   *)
HistoryKey(pb) ==
  LET own == pb.info.ty \in {";", ")"}
  IN  IF {"OBJECT", "ITEM"} \cap pb.types = {} THEN CallKey(pb.src)
      ELSE IF ~own THEN <<"header", pb.info.name>>
      ELSE IF "OBJECT" \in pb.types /\ ~pb.info.full THEN <<"padded", pb.info.name>>
      ELSE CallKey(pb.info.name)

Kills(pb) == pb.info.ty \in {";", ")"} /\ pb.info.sub = "killed"

OfInterest(pb) == pb.haspos /\ {"OBJECT", "ITEM", "POSITION"} \cap pb.types # {}

(* The chain after historydb_insert: expired cells go, the cells of the    *)
(* key are updated or removed, and a key that is not there is appended.    *)
InsertChain(chain, key, place, t, isdead, now, oom) ==
  LET live == SelectSeq(chain, LAMBDA c : ~Expired(c, now))
      found == \E i \in 1..Len(live) : live[i].key = key
      updated == [i \in 1..Len(live) |-> IF live[i].key = key THEN Cell(key, place, t) ELSE live[i]]
  IN  IF isdead THEN SelectSeq(live, LAMBDA c : c.key # key)
      ELSE IF found \/ oom THEN updated
      ELSE Append(live, Cell(key, place, t))

(* historydb_insert *)
HistoryInsert(db, pb, now, oom) ==
  LET key == HistoryKey(pb)
  IN  IF ~OfInterest(pb) THEN db
      ELSE [db EXCEPT ![KeyBucket(key)] = InsertChain(@, key, pb.pos, pb.t, Kills(pb), now, oom)]

(* historydb_lookup: the first valid cell of the key, in a sequence. *)
LookupChain(chain, key, now) ==
  LET hits == SelectSeq(chain, LAMBDA c : c.key = key /\ c.t > now - lastposition_storetime + ValidityMargin)
  IN  IF hits = <<>> THEN <<>> ELSE <<Head(hits)>>

HistoryLookup(db, name, now) == LookupChain(db[KeyBucket(CallKey(name))], CallKey(name), now)

(* historydb_cleanup, for one chain. *)
CleanChain(chain, now) == SelectSeq(chain, LAMBDA c : ~Expired(c, now))
HistoryCleanup(db, now) == [b \in KeyBuckets |-> CleanChain(db[b], now)]

(* historydb_dump writes the cells that have not expired, chain by chain. *)
HistoryDump(db, now) ==
  LET bs == SetToSeq(KeyBuckets)
  IN  FlattenSeq([i \in 1..Len(bs) |-> SelectSeq(db[bs[i]], LAMBDA c : c.t > now - lastposition_storetime)])

(* Mutant: the rest of the chain is not linked behind the new cell. *)
HistoryLoadUnlinked(db, cells, now, oom) ==
  FoldLeft(LAMBDA acc, c : IF Expired(c, now) \/ oom THEN acc
                           ELSE [acc EXCEPT ![KeyBucket(c.key)] = <<c>>], db, cells)

(* historydb_load puts every entry at the head of its chain. *)
HistoryLoad(db, cells, now, oom) ==
  FoldLeft(LAMBDA acc, c : IF Expired(c, now) \/ oom THEN acc
                           ELSE [acc EXCEPT ![KeyBucket(c.key)] = <<c>> \o @], db, cells)
=============================================================================
