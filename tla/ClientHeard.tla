---------------------------- MODULE ClientHeard ----------------------------
(***************************************************************************)
(* The heard and courtesy lists of a client (client_heard.c): hash tables  *)
(* of callsigns with the time each was last heard, most recent first in a  *)
(* bucket, and a count of all entries.                                     *)
(***************************************************************************)
EXTENDS Integers, SequencesExt

CONSTANTS HeardBucket(_),          \* the bucket of a callsign
          HeardBuckets,
          MAX_HEARD_PER_CLIENT

NoneHeard == [list |-> [b \in HeardBuckets |-> <<>>], count |-> 0]

Entry(call, t) == [call |-> call, last_heard |-> t]

(* The place of a callsign in its bucket, 0 if it is not there. *)
HeardAt(h, call) ==
  LET l == h.list[HeardBucket(call)]
      at == {i \in 1..Len(l) : l[i].call = call}
  IN  IF at = {} THEN 0 ELSE CHOOSE i \in at : \A j \in at : i <= j

(* heard_list_update: an entry that is found moves to the front. *)
HeardUpdate(h, call, t, oom) ==
  LET b == HeardBucket(call)
      i == HeardAt(h, call)
  IN  IF i > 0 THEN [h EXCEPT !.list[b] = <<Entry(call, t)>> \o RemoveAt(@, i)]
      ELSE IF h.count >= MAX_HEARD_PER_CLIENT \/ oom THEN h
      ELSE [list |-> [h.list EXCEPT ![b] = <<Entry(call, t)>> \o @], count |-> h.count + 1]

(* heard_find with drop_if_found: client_courtesy_needed. *)
HeardDrop(h, call) ==
  LET i == HeardAt(h, call)
  IN  IF i = 0 THEN h
      ELSE [list |-> [h.list EXCEPT ![HeardBucket(call)] = RemoveAt(@, i)], count |-> h.count - 1]

(* Mutant: an entry goes when its time is just reached. *)
HeardExpireEarly(h, now, storetime) ==
  LET kept == [b \in HeardBuckets |-> SelectSeq(h.list[b], LAMBDA e : e.last_heard > now - storetime)]
      gone == FoldSet(LAMBDA b, n : n + Len(h.list[b]) - Len(kept[b]), 0, HeardBuckets)
  IN  [list |-> kept, count |-> h.count - gone]

(* heard_expire_single *)
HeardExpire(h, now, storetime) ==
  LET kept == [b \in HeardBuckets |->
                 SelectSeq(h.list[b], LAMBDA e : ~(e.last_heard < now - storetime \/ e.last_heard > now))]
      gone == FoldSet(LAMBDA b, n : n + Len(h.list[b]) - Len(kept[b]), 0, HeardBuckets)
  IN  [list |-> kept, count |-> h.count - gone]

(* client_heard_json: the callsigns, bucket by bucket; the times are not   *)
(* written.                                                                *)
HeardDump(h) ==
  FlattenSeq([i \in 1..Cardinality(HeardBuckets) |->
    LET l == h.list[SetToSeq(HeardBuckets)[i]] IN [j \in 1..Len(l) |-> l[j].call]])

(* client_heard_json_load *)
HeardLoad(h, calls, now, oom) ==
  FoldLeft(LAMBDA acc, call : HeardUpdate(acc, call, now, oom), h, calls)
=============================================================================
