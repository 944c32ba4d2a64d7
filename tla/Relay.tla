------------------------------- MODULE Relay -------------------------------
(***************************************************************************)
(* What one server does with the packets of its clients, end to end: the   *)
(* parser of a worker (Incoming), the dupecheck thread with the position   *)
(* history, the filters of the receiving clients (Filters) and the routing *)
(* of outgoing.c.  The queues between the threads are sequences here; how  *)
(* the threads share them is the subject of Pipeline.                      *)
(***************************************************************************)
EXTENDS Filters, Bags

CONSTANTS Srv,                     \* the server record of QConstruct and Incoming
          Clients0,                \* the client records, by id, as they log in
          Packets,                 \* what each client may send: id -> set of packets
          Commands,                \* the filter commands a client may type
          heard_list_storetime, courtesy_list_storetime,
          filter_entrycall_maxage, filter_wx_maxage,
          MaxTick, MaxCommands, MaxUpgrades,
          MaxPackets,              \* bound on packets and live upgrades together
          MaxQueue                 \* how far a thread falls behind the one before it

VARIABLES tick, clients,
          db, entrycall, wx,       \* history and filter tables
          incoming,                \* parsed packets on their way to the dupecheck thread
          seen,                    \* the dupecheck database
          global, global_dupe,     \* packets on their way to the workers
          received, commanded,     \* how many lines of each kind came in
          upgrades,                \* how many live upgrades were made
          got,                     \* id -> the bag of contents written to the client
          heardAt,                 \* id -> call -> when its last packet came in through the client, -1 never
          owed,                    \* id -> call -> since when a courtesy position is owed, -1 not
          past                     \* <<call, place>> -> when the history last held it, -1 never
rvars == <<tick, clients, db, entrycall, wx, incoming, seen, global, global_dupe,
           received, commanded, upgrades, got, heardAt, owed, past>>

Ids == DOMAIN Clients0
AllPackets == UNION {Packets[i] : i \in Ids}
Calls == {p.src : p \in AllPackets}
Places == {p.info.place : p \in AllPackets}

RelayInit ==
  /\ tick = 0 /\ clients = Clients0
  /\ db = EmptyHistory /\ entrycall = <<>> /\ wx = <<>>
  /\ incoming = <<>> /\ seen = {} /\ global = <<>> /\ global_dupe = <<>>
  /\ received = 0 /\ commanded = 0 /\ upgrades = 0
  /\ got = [i \in Ids |-> EmptyBag]
  /\ heardAt = [i \in Ids |-> [n \in Calls |-> -1]]
  /\ owed = [i \in Ids |-> [n \in Calls |-> -1]]
  /\ past = [k \in Calls \X Places |-> -1]

Env == [now |-> tick, db |-> db, entrycall |-> entrycall, wx |-> wx]

-----------------------------------------------------------------------------
(* client_loc_update: on any packet of the position type. *)
Located(c, r) ==
  IF r.pb.src = c.user /\ "POSITION" \in r.pb.types
     /\ (r.queued \/ r.rc \in {"DISALLOW_UNVERIFIED", "DISALLOW_UNVERIFIED_PATH"})
  THEN [c EXCEPT !.loc_known = TRUE, !.loc = r.pb.pos] ELSE c

(* incoming_server_message: only a client's own message is obeyed. *)
ServerMessage(c, r, p) ==
  IF r.rc = "SERVER" /\ p.src = c.user /\ p.info.sub = "filter" /\ p.info.room
  THEN FilterCommands(c, p.cmd, FALSE) ELSE c

HeardHere(c, r) ==
  IF r.queued /\ Has(c, "IGATE") THEN [c EXCEPT !.heard = HeardUpdate(@, r.pb.src, r.pb.t, FALSE)] ELSE c

(* incoming_handler and incoming_parse, after the line was parsed as r. *)
Take(i, c, p, r) ==
  /\ clients' = [clients EXCEPT ![i] =
       IF r.pb # <<>> THEN HeardHere(ServerMessage(Located(c, r), r, p), r) ELSE c]
  /\ incoming' = IF r.queued THEN Append(incoming, r.pb) ELSE incoming
  /\ entrycall' = IF r.queued /\ Srv.filtered
                  THEN EntrycallInsert(entrycall, r.pb, tick + filter_entrycall_maxage, FALSE) ELSE entrycall
  /\ wx' = IF r.queued /\ Srv.filtered THEN WxInsert(wx, r.pb, tick + filter_wx_maxage, FALSE) ELSE wx
  /\ heardAt' = IF r.queued /\ Has(c, "IGATE") THEN [heardAt EXCEPT ![i][p.src] = tick] ELSE heardAt

(* incoming_handler, for a line that is not a comment. *)
Receive(i, p) ==
  LET c == clients[i]
  IN  /\ received + upgrades < MaxPackets /\ Len(incoming) < MaxQueue
      /\ received' = received + 1
      /\ \E r \in {IncomingParse(Srv, c, p, tick, FALSE, FALSE)} : Take(i, c, p, r)
      /\ UNCHANGED <<tick, db, seen, global, global_dupe, commanded, upgrades, got, owed, past>>

(* incoming_handler, for a comment with a filter command in it. *)
Command(i, cmd) ==
  /\ commanded < MaxCommands /\ Has(clients[i], "USERFILTEROK")
  /\ commanded' = commanded + 1
  /\ clients' = [clients EXCEPT ![i] = FilterCommands(@, cmd, FALSE)]
  /\ UNCHANGED <<tick, db, entrycall, wx, incoming, seen, global, global_dupe, received, upgrades, got, heardAt, owed, past>>

-----------------------------------------------------------------------------
(* What dupecheck compares: source, destination and information field. *)
DupeKey(pb) == <<pb.src, pb.dst, pb.info>>

(* filter_postprocess_dupefilter *)
Positioned(d, pb) ==
  LET hit == HistoryLookup(d, pb.srcname, tick)
  IN  IF pb.haspos \/ hit = <<>> THEN pb ELSE [pb EXCEPT !.pos = hit[1].place, !.haspos = TRUE]

(* The calls whose places the history holds. *)
Held(d, k) == \E b \in KeyBuckets : \E j \in 1..Len(d[b]) : d[b][j].key = CallKey(k[1]) /\ d[b][j].place = k[2]

(* Mutant: every packet is taken for unique. *)
DrainUnchecked ==
  /\ incoming # <<>> /\ Len(global) < MaxQueue
  /\ incoming' = Tail(incoming)
  /\ global' = Append(global, Head(incoming))
  /\ UNCHANGED <<tick, clients, db, entrycall, wx, seen, global_dupe, received, commanded, upgrades, got, heardAt, owed, past>>

(* dupecheck_drain_worker, for the packet at the head of the queue.  A     *)
(* packet marked as looped by the parser is checked like any other.        *)
Drain ==
  LET pb == Head(incoming)
      d == IF Srv.filtered THEN HistoryInsert(db, pb, tick, FALSE) ELSE db
  IN  /\ incoming # <<>> /\ Len(global) < MaxQueue /\ Len(global_dupe) < MaxQueue
      /\ incoming' = Tail(incoming)
      /\ seen' = seen \cup {DupeKey(pb)}
      /\ IF DupeKey(pb) \in seen
         THEN /\ global_dupe' = Append(global_dupe, [Positioned(db, pb) EXCEPT !.dupe = TRUE])
              /\ UNCHANGED <<db, global, past>>
         ELSE /\ db' = d
              /\ global' = Append(global, IF Srv.filtered THEN Positioned(d, pb) ELSE pb)
              /\ past' = [k \in DOMAIN past |-> IF Held(d, k) THEN tick ELSE past[k]]
              /\ UNCHANGED global_dupe
      /\ UNCHANGED <<tick, clients, entrycall, wx, received, commanded, upgrades, got, heardAt, owed>>

-----------------------------------------------------------------------------
(* worker_classify_client *)
ClassOf(c) ==
  IF Has(c, "PORT_RO") THEN "ro"
  ELSE IF c.state = "COREPEER" \/ Has(c, "UPLINKPORT") THEN "ups"
  ELSE IF Has(c, "DUPEFEED") THEN "dupe"
  ELSE IF Has(c, "INPORT") THEN "other" ELSE "none"

Class(k) == {i \in Ids : ClassOf(clients[i]) = k}

Stale(pb) == pb.t > tick + 2 \/ tick - pb.t > 5

Passing(pb) == ~Stale(pb) /\ ~pb.dupe

(* process_outgoing_single: every client of the class other is asked, the  *)
(* origin and those with no_tx included.                                   *)
Asking(pb) == [i \in Class("other") |->
  IF Has(clients[i], "FULLFEED") THEN Verdict(TRUE, clients[i]) ELSE FilterProcess(Env, clients[i], pb, FALSE)]

Recipients(pb, asked) ==
  IF Stale(pb) THEN {}
  ELSE IF pb.dupe THEN Class("dupe")
  ELSE {i \in Class("ups") : ~pb.upstr /\ i # pb.origin}
       \cup {i \in Class("other") : asked[i].pass /\ i # pb.origin /\ ~clients[i].no_tx}

Igates == {i \in Class("other") : Has(clients[i], "IGATE") /\ ~Has(clients[i], "FULLFEED")}

(* A message of pb.src passes to the igate i: a position is owed.  A       *)
(* position of the station takes the debt away.                            *)
Owes(i, pb) == i \in Igates /\ ForIgate(clients[i], pb) = "message"
Pays(i, pb) == i \in Igates /\ {"POSITION", "OBJECT", "ITEM"} \cap pb.types # {}

Send(pb, asked) ==
  /\ clients' = [i \in Ids |-> IF Passing(pb) /\ i \in Class("other") THEN asked[i].c ELSE clients[i]]
  /\ got' = [i \in Ids |-> IF i \in Recipients(pb, asked) THEN got[i] (+) SetToBag({DupeKey(pb)}) ELSE got[i]]

(* One packet of the main queue in process_outgoing. *)
Deliver ==
  LET pb == Head(global)
  IN  /\ global # <<>>
      /\ global' = Tail(global)
      /\ \E asked \in {Asking(pb)} : Send(pb, asked)
      /\ owed' = IF ~Passing(pb) THEN owed
                 ELSE [i \in Ids |-> [n \in Calls |->
                        IF n = pb.src /\ Owes(i, pb) THEN pb.t
                        ELSE IF n = pb.srcname /\ Pays(i, pb) THEN -1 ELSE owed[i][n]]]
      /\ UNCHANGED <<tick, db, entrycall, wx, incoming, seen, global_dupe, received, commanded, upgrades, heardAt, past>>

(* One packet of the duplicate queue. *)
DeliverDupe ==
  LET pb == Head(global_dupe)
      to == Recipients(pb, [i \in {} |-> {}])
  IN  /\ global_dupe # <<>>
      /\ global_dupe' = Tail(global_dupe)
      /\ got' = [i \in Ids |-> IF i \in to THEN got[i] (+) SetToBag({DupeKey(pb)}) ELSE got[i]]
      /\ UNCHANGED <<tick, clients, db, entrycall, wx, incoming, seen, global, received, commanded, upgrades,
                     heardAt, owed, past>>

-----------------------------------------------------------------------------
Tick ==
  /\ tick < MaxTick
  /\ tick' = tick + 1
  /\ past' = [k \in DOMAIN past |-> IF Held(db, k) THEN tick + 1 ELSE past[k]]
  /\ UNCHANGED <<clients, db, entrycall, wx, incoming, seen, global, global_dupe, received, commanded, upgrades, got, heardAt, owed>>

(* The worker's periodic client_heard_expire. *)
HeardExpiry ==
  LET expired == [i \in Ids |-> [clients[i] EXCEPT
                    !.heard = HeardExpire(@, tick, heard_list_storetime),
                    !.courtesy = HeardExpire(@, tick, courtesy_list_storetime)]]
  IN  /\ expired # clients
      /\ clients' = expired
      /\ UNCHANGED <<tick, db, entrycall, wx, incoming, seen, global, global_dupe, received, commanded,
                     upgrades, got, heardAt, owed, past>>

(* The main thread's periodic cleanup of the tables. *)
Cleanup ==
  /\ db' = HistoryCleanup(db, tick)
  /\ entrycall' = TableCleanup(entrycall, tick)
  /\ wx' = TableCleanup(wx, tick)
  /\ <<db', entrycall', wx'>> # <<db, entrycall, wx>>
  /\ UNCHANGED <<tick, clients, incoming, seen, global, global_dupe, received, commanded, upgrades, got, heardAt, owed, past>>

(* A client as accept_liveupgrade_single takes it over: the heard list is   *)
(* restored without its times, the courtesy list is not, and the user's    *)
(* filters are parsed again from filter_s.  An uplink is connected anew.   *)
TakenOver(i, c) ==
  LET terms == IF Has(c, "USERFILTEROK") THEN c.filter_s ELSE <<>>
      listed == [Clients0[i] EXCEPT
        !.validated = c.validated, !.loc_known = c.loc_known, !.loc = c.loc, !.filter_s = terms,
        !.neguser = <<>>, !.posuser = <<>>,
        !.heard = IF Has(c, "IGATE") THEN HeardLoad(NoneHeard, HeardDump(c.heard), tick, FALSE) ELSE NoneHeard]
  IN  IF ~Has(c, "INPORT") THEN Clients0[i]
      ELSE FoldLeft(LAMBDA acc, t : FilterParse(acc, t, TRUE, FALSE), listed, terms)

(* A live upgrade: the history and the clients go to the new process, the  *)
(* packets on their way, the dupecheck database and the tables of the      *)
(* filters do not.                                                         *)
LiveUpgrade ==
  /\ upgrades < MaxUpgrades /\ received + upgrades < MaxPackets
  /\ upgrades' = upgrades + 1
  /\ clients' = [i \in Ids |-> TakenOver(i, clients[i])]
  /\ db' = HistoryLoad(EmptyHistory, HistoryDump(db, tick), tick, FALSE)
  /\ entrycall' = <<>> /\ wx' = <<>> /\ seen' = {}
  /\ incoming' = <<>> /\ global' = <<>> /\ global_dupe' = <<>>
  /\ got' = [i \in Ids |-> EmptyBag]
  /\ owed' = [i \in Ids |-> [n \in Calls |-> -1]]
  /\ UNCHANGED <<tick, received, commanded, heardAt, past>>

RelayNext ==
  \/ \E i \in Ids : \E p \in Packets[i] : Receive(i, p)
  \/ \E i \in Ids : \E cmd \in Commands : Command(i, cmd)
  \/ Drain \/ Deliver \/ DeliverDupe
  \/ Tick \/ HeardExpiry \/ Cleanup \/ LiveUpgrade

-----------------------------------------------------------------------------

(* The step hands the first packet of the main queue to the clients. *)
Delivering == upgrades' = upgrades /\ global # <<>> /\ global' = Tail(global) /\ Passing(Head(global))

SentTo(i) == got'[i] # got[i]

(* Message routing (filter.c:2471-2486): a message to a station whose last *)
(* packet came in through an igate no longer than heard_list_storetime ago *)
(* is written to that igate, unless it came from there, whatever the       *)
(* igate's filters are and however often the lists were cleaned.           *)
MessagesReachIgates ==
  [][\A i \in Igates :
       LET pb == Head(global)
       IN  Delivering /\ "MESSAGE" \in pb.types /\ pb.dstname \in Calls /\ i # pb.origin
           /\ heardAt[i][pb.dstname] >= 0 /\ heardAt[i][pb.dstname] >= tick - heard_list_storetime
           => SentTo(i)]_rvars

(* Courtesy positions (filter.c:2487-2495): after a message of a station   *)
(* was passed to an igate, the next position of that station is written to *)
(* it too, as long as courtesy_list_storetime has not gone by and no live  *)
(* upgrade was made: the courtesy lists are not taken over.                *)
CourtesyReaches ==
  [][\A i \in Igates :
       LET pb == Head(global)
       IN  Delivering /\ "POSITION" \in pb.types /\ pb.srcname = pb.src /\ i # pb.origin
           /\ owed[i][pb.src] >= 0 /\ owed[i][pb.src] >= tick - courtesy_list_storetime
           => SentTo(i)]_rvars

(* An igate is sent nothing it has no claim to: what its filters do not    *)
(* pass is a message to the igate or to a station heard through it, an     *)
(* Internet packet of such a station, or the one position owed after a     *)
(* message.                                                                *)
OnlyInvited ==
  [][\A i \in Igates :
       LET pb == Head(global)
           Heard(n) == n \in Calls /\ heardAt[i][n] >= 0
       IN  Delivering /\ SentTo(i) =>
             \/ ByFilters(Env, clients[i], pb).pass
             \/ "MESSAGE" \in pb.types /\ (pb.dstname = clients[i].user \/ Heard(pb.dstname))
             \/ Heard(pb.src) /\ pb.tcpip
             \/ pb.srcname \in Calls /\ owed[i][pb.srcname] >= 0]_rvars

(* The place an f, m or t filter keeps from the history (filter.c:1865) is *)
(* used for HIST_LOOKUP_INTERVAL only: the history still held it then.     *)
CacheFresh ==
  \A i \in Ids : LET c == clients[i] IN
    \A fs \in {c.negdef, c.posdef, c.neguser, c.posuser} : \A k \in 1..Len(fs) :
      LET f == fs[k]
          name == IF f.type = "m" THEN c.user ELSE f.call
      IN  f.valid /\ tick <= f.age /\ f.age <= tick + HIST_LOOKUP_INTERVAL
          => past[<<name, f.at>>] >= tick - HIST_LOOKUP_INTERVAL

(* Duplicate filtering end to end: a client that is not a duplicate feed   *)
(* is written the same source, destination and content once, however many  *)
(* connections they came in through (until a live upgrade, which starts    *)
(* with an empty dupecheck database).                                      *)
WrittenOnce ==
  \A i \in Ids \ Class("dupe") : \A k \in BagToSet(got[i]) : CopiesIn(k, got[i]) = 1

(* Filters without what they keep from the history. *)
Terms(fs) == [k \in DOMAIN fs |-> [fs[k] EXCEPT !.valid = FALSE, !.age = 0, !.at = 0]]

(* A live upgrade loses nothing that routing depends on: the history gives *)
(* the same place for every callsign, each igate keeps the stations it     *)
(* heard, and a client's filters are those it had, unless it had given     *)
(* them up for the defaults: the command leaves filter_s as it was.        *)
UpgradeKeepsRouting ==
  [][upgrades' # upgrades =>
       /\ \A n \in Calls : HistoryLookup(db', n, tick) = HistoryLookup(db, n, tick)
       /\ \A i \in Igates, n \in Calls : (HeardAt(clients'[i].heard, n) > 0) = (HeardAt(clients[i].heard, n) > 0)
       /\ \A i \in Igates : clients[i].posuser # <<>> => Terms(clients'[i].posuser) = Terms(clients[i].posuser)]_rvars
=============================================================================
