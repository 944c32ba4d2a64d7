------------------------------ MODULE Filters ------------------------------
(***************************************************************************)
(* The output filters of filter.c: parsing filter terms into the lists of  *)
(* a client, and deciding whether a packet is sent to it.                  *)
(*                                                                         *)
(* A filter is a record; the fields a type does not use have the values of *)
(* Blank.  Places are points on a line, so that an area is an interval and *)
(* a range an open interval around its centre.  refs is a sequence of      *)
(* [call, wild]; Starts(n, p) says that the callsign n starts with p.      *)
(*                                                                         *)
(* env holds what the filters look up: now (tick), db (the history), the   *)
(* tables entrycall and wx.  A client has, besides the fields named in     *)
(* QConstruct: heard, courtesy, loc_known, loc, and the four lists negdef, *)
(* posdef, neguser and posuser.                                            *)
(***************************************************************************)
EXTENDS Incoming, ClientHeard, HistoryDb

CONSTANTS Starts(_, _),
          HIST_LOOKUP_INTERVAL,
          LookupGrace               \* the 60 seconds of the table lookups

Blank0 == [type |-> "", refs |-> <<>>, bits |-> {}, lo |-> 0, hi |-> 0, dist |-> 0, call |-> "",
           pri |-> {}, alt |-> {}, over |-> {}, valid |-> FALSE, age |-> 0, at |-> 0]

Ref(call, wild) == [call |-> call, wild |-> wild]

-----------------------------------------------------------------------------
(* The tables of entry igates and of positionless weather stations: chains *)
(* of [call, expiry].                                                      *)
TableInsert(tab, call, expiry, oom) ==
  LET at == {i \in 1..Len(tab) : tab[i].call = call}
  IN  IF at # {} THEN [tab EXCEPT ![Min(at)].expiry = expiry]
      ELSE IF oom THEN tab
      ELSE <<[call |-> call, expiry |-> expiry]>> \o tab

(* filter_entrycall_insert: only for qAr and qAR. *)
EntrycallInsert(tab, pb, expiry, oom) ==
  IF pb.entry # "" /\ pb.via[pb.at][3] \in {"r", "R"} THEN TableInsert(tab, pb.entry, expiry, oom) ELSE tab

(* filter_wx_insert *)
WxInsert(tab, pb, expiry, oom) ==
  IF "WX" \in pb.types /\ ~pb.haspos THEN TableInsert(tab, pb.src, expiry, oom) ELSE tab

(* filter_entrycall_lookup, filter_wx_lookup *)
TableLookup(tab, call, now) ==
  \E i \in 1..Len(tab) : tab[i].call = call /\ tab[i].expiry < now - LookupGrace

(* filter_entrycall_cleanup, filter_wx_cleanup *)
TableCleanup(tab, now) == SelectSeq(tab, LAMBDA e : e.expiry > now)

-----------------------------------------------------------------------------
(* filter_match_on_callsignset with MatchWild and with MatchPrefix. *)
MatchWild(key, f) ==
  \E i \in 1..Len(f.refs) :
    LET r == f.refs[i] IN r.call # "" /\ (IF r.wild THEN Starts(key, r.call) ELSE key = r.call)

MatchPrefix(key, f) ==
  \E i \in 1..Len(f.refs) : f.refs[i].call # "" /\ Starts(key, f.refs[i].call)

IsNamed(pb) == {"OBJECT", "ITEM"} \cap pb.types # {}

(* The source, and the source of the third-party packet inside. *)
SourceNames(pb) == {pb.src} \cup IF IsNamed(pb) THEN {} ELSE {pb.srcname}

(* filter_process_one_d: at most ten calls in front of the q construct;    *)
(* the first that matches, or one after it, has the used mark.             *)
MatchDigi(pb, f) ==
  LET n == IF pb.at - 1 > 10 THEN 10 ELSE pb.at - 1
      at == {i \in 1..n : MatchWild(pb.via[i][1], f)}
  IN  at # {} /\ \E i \in Min(at)..n : Len(pb.via[i]) = 2 /\ pb.via[i][2] = "*"

QTypes == {"C", "X", "U", "o", "O", "S", "r", "R", "Z", "I"}

(* filter_process_one_q *)
MatchQ(env, pb, f) ==
  LET q == pb.via[pb.at]
  IN  IsQ(q) /\ q[3] \in QTypes
      /\ (q[3] \in f.bits \/ ("analytics" \in f.bits /\ TableLookup(env.entrycall, pb.entry, env.now)))

(* filter_process_one_s *)
MatchSymbol(pb, f) ==
  LET primary == pb.sym[1] = "/"
      overlay == IF pb.sym[1] \in {"/", "\\"} THEN "" ELSE pb.sym[1]
  IN  \/ primary /\ pb.sym[2] \in f.pri
      \/ f.over # {} /\ overlay \in f.over /\ pb.sym[2] \in f.alt
      \/ f.over = {} /\ ~primary /\ pb.sym[2] \in f.alt

(* The first part of filter_process_one_t. *)
MatchType(env, pb, f) ==
  \/ f.bits \cap (pb.types \cup {"ALL"}) # {}
  \/ "WX" \in f.bits /\ pb.haspos /\ TableLookup(env.wx, pb.src, env.now)

Within1(a, b, d) == AbsOf(a - b) < d

-----------------------------------------------------------------------------
(* Mutant: a place found once is kept. *)
LookedOnce(env, f, name, failAge) ==
  LET hit == HistoryLookup(env.db, name, env.now)
  IN  IF f.valid THEN [f EXCEPT !.age = env.now + HIST_LOOKUP_INTERVAL]
      ELSE IF hit = <<>> THEN [f EXCEPT !.age = failAge]
      ELSE [f EXCEPT !.valid = TRUE, !.age = env.now + HIST_LOOKUP_INTERVAL, !.at = hit[1].place]

(* The f, m and t filters keep the place they looked up.  failAge is what  *)
(* a failed lookup leaves in hist_age.                                     *)
Looked(env, f, name, failAge) ==
  LET hit == HistoryLookup(env.db, name, env.now)
  IN  IF ~(f.age < env.now \/ f.age > env.now + HIST_LOOKUP_INTERVAL) THEN f
      ELSE IF hit = <<>> THEN [f EXCEPT !.valid = FALSE, !.age = failAge]
      ELSE [f EXCEPT !.valid = TRUE, !.age = env.now + HIST_LOOKUP_INTERVAL, !.at = hit[1].place]

(* A filter after it was asked about a packet. *)
Asked(env, c, pb, f) ==
  IF ~pb.haspos THEN f
  ELSE IF f.type = "f" THEN Looked(env, f, f.call, env.now + HIST_LOOKUP_INTERVAL)
  ELSE IF f.type = "m" /\ ~c.loc_known THEN Looked(env, f, c.user, env.now + HIST_LOOKUP_INTERVAL \div 2)
  ELSE IF f.type = "t" /\ f.call # "" /\ MatchType(env, pb, f) THEN Looked(env, f, f.call, f.age)
  ELSE f

(* The filter types, one by one; f is the filter after it was asked. *)
Near(pb, f) == pb.haspos /\ f.valid /\ Within1(f.at, pb.pos, f.dist)

MatchArea(pb, f) == pb.haspos /\ f.lo <= pb.pos /\ pb.pos <= f.hi
MatchBuddy(pb, f) == \E n \in SourceNames(pb) : MatchWild(n, f)
MatchEntry(pb, f) == pb.entry # "" /\ MatchWild(pb.entry, f)
MatchFriend(pb, f) == Near(pb, f)
MatchGroup(pb, f) == "MESSAGE" \in pb.types /\ pb.dstname # "" /\ MatchWild(pb.dstname, f)
MatchMine(c, pb, f) == IF c.loc_known THEN pb.haspos /\ Within1(c.loc, pb.pos, f.dist) ELSE Near(pb, f)
MatchObject(pb, f) == IsNamed(pb) /\ MatchWild(pb.srcname, f)
MatchPrefixes(pb, f) == \E n \in SourceNames(pb) : MatchPrefix(n, f)
MatchRange(pb, f) == pb.haspos /\ Within1(f.lo, pb.pos, f.dist)
MatchTypeNear(env, pb, f) == MatchType(env, pb, f) /\ (f.call = "" \/ Near(pb, f))
MatchUnproto(pb, f) == MatchWild(pb.dst, f)

(* filter_process_one *)
MatchesAsked(env, c, pb, f) ==
  CASE f.type = "a" -> MatchArea(pb, f)
    [] f.type = "b" -> MatchBuddy(pb, f)
    [] f.type = "d" -> MatchDigi(pb, f)
    [] f.type = "e" -> MatchEntry(pb, f)
    [] f.type = "f" -> MatchFriend(pb, f)
    [] f.type = "g" -> MatchGroup(pb, f)
    [] f.type = "m" -> MatchMine(c, pb, f)
    [] f.type = "o" -> MatchObject(pb, f)
    [] f.type = "p" -> MatchPrefixes(pb, f)
    [] f.type = "q" -> MatchQ(env, pb, f)
    [] f.type = "r" -> MatchRange(pb, f)
    [] f.type = "s" -> MatchSymbol(pb, f)
    [] f.type = "t" -> MatchTypeNear(env, pb, f)
    [] f.type = "u" -> MatchUnproto(pb, f)

Matches(env, c, pb, f) == MatchesAsked(env, c, pb, Asked(env, c, pb, f))

(* A list is asked filter by filter up to the first match. *)
AskList(env, c, pb, fs) ==
  LET hits == {i \in 1..Len(fs) : Matches(env, c, pb, fs[i])}
      last == IF hits = {} THEN Len(fs) ELSE Min(hits)
  IN  [hit |-> hits # {}, fs |-> [i \in 1..Len(fs) |-> IF i <= last THEN Asked(env, c, pb, fs[i]) ELSE fs[i]]]

-----------------------------------------------------------------------------
(* filter_process: whether the packet passes, and the client afterwards. *)
Verdict(pass, c) == [pass |-> pass, c |-> c]

(* Mutant: the recipient of a message is not looked up. *)
ForIgateAnyMessage(c, pb) ==
  IF "MESSAGE" \in pb.types THEN "message"
  ELSE IF {"POSITION", "OBJECT", "ITEM"} \cap pb.types # {} /\ HeardAt(c.courtesy, pb.srcname) > 0 THEN "courtesy"
  ELSE IF pb.tcpip /\ HeardAt(c.heard, pb.src) > 0 THEN "tcpip"
  ELSE ""

(* What an igate gets whatever its filters say. *)
ForIgate(c, pb) ==
  IF "MESSAGE" \in pb.types /\ (pb.dstname = c.user \/ HeardAt(c.heard, pb.dstname) > 0) THEN "message"
  ELSE IF {"POSITION", "OBJECT", "ITEM"} \cap pb.types # {} /\ HeardAt(c.courtesy, pb.srcname) > 0 THEN "courtesy"
  ELSE IF pb.tcpip /\ HeardAt(c.heard, pb.src) > 0 THEN "tcpip"
  ELSE ""

ByFilters(env, c, pb) ==
  LET lists == <<c.negdef, c.posdef, c.neguser, c.posuser>>
      asked == [k \in 1..4 |-> AskList(env, c, pb, lists[k])]
      hits == {k \in 1..4 : asked[k].hit}
      last == IF hits = {} THEN 4 ELSE Min(hits)
      after == [k \in 1..4 |-> IF k <= last THEN asked[k].fs ELSE lists[k]]
  IN  Verdict(hits # {} /\ last \in {2, 4},
              [c EXCEPT !.negdef = after[1], !.posdef = after[2], !.neguser = after[3], !.posuser = after[4]])

(* Mutant: a message leaves no courtesy behind. *)
FilterProcessNoCourtesy(env, c, pb, oom) ==
  LET why == IF Has(c, "IGATE") THEN ForIgate(c, pb) ELSE ""
  IN  IF why = "message" THEN Verdict(TRUE, c)
      ELSE IF why = "courtesy" THEN Verdict(TRUE, [c EXCEPT !.courtesy = HeardDrop(@, pb.srcname)])
      ELSE IF why = "tcpip" THEN Verdict(TRUE, c)
      ELSE ByFilters(env, c, pb)

FilterProcess(env, c, pb, oom) ==
  LET why == IF Has(c, "IGATE") THEN ForIgate(c, pb) ELSE ""
  IN  IF why = "message" THEN Verdict(TRUE, [c EXCEPT !.courtesy = HeardUpdate(@, pb.src, pb.t, oom)])
      ELSE IF why = "courtesy" THEN Verdict(TRUE, [c EXCEPT !.courtesy = HeardDrop(@, pb.srcname)])
      ELSE IF why = "tcpip" THEN Verdict(TRUE, c)
      ELSE ByFilters(env, c, pb)

-----------------------------------------------------------------------------
(* Filter terms as a client types them: a filter record and a minus sign.  *)
Term(neg, r) == [neg |-> neg, f |-> r]

CallSets == {"b", "d", "e", "g", "o", "p", "u"}
TypeBits == {"CWOP", "ITEM", "MESSAGE", "NWS", "OBJECT", "POSITION", "QUERY", "STATUS", "TELEMETRY", "USERDEF", "WX"}
(* t/ * sets every bit but T_CWOP, also those no letter stands for. *)
StarBits == (TypeBits \ {"CWOP"}) \cup {"STATCAPA", "3RDPARTY", "ALL"}

(* What the parser of each type refuses. *)
BadArea(f) == f.lo > f.hi
BadCallSet(f) == f.refs = <<>> \/ (f.type = "p" /\ \E i \in 1..Len(f.refs) : f.refs[i].wild)
BadFriend(f) == f.call = "" \/ f.dist < 1
BadMine(f) == f.dist < 1
BadQ(f) == ~(f.bits \subseteq QTypes \cup {"analytics"})
BadRange(f) == f.dist < 1
BadSymbol(f) == f.over # {} /\ f.alt = {}
BadType(f) == ~(f.bits \subseteq TypeBits \cup {"*"}) \/ (f.call # "" /\ f.dist < 1)

BadTerm(f) ==
  CASE f.type = "a" -> BadArea(f)
    [] f.type \in CallSets -> BadCallSet(f)
    [] f.type = "f" -> BadFriend(f)
    [] f.type = "m" -> BadMine(f)
    [] f.type = "q" -> BadQ(f)
    [] f.type = "r" -> BadRange(f)
    [] f.type = "s" -> BadSymbol(f)
    [] f.type = "t" -> BadType(f)
    [] OTHER -> TRUE

(* Mutant: a call set extends the last filter, whatever its type. *)
AddFilterAnyType(fs, f, oom) ==
  IF f.type \in CallSets /\ fs # <<>> THEN [fs EXCEPT ![Len(fs)].refs = @ \o f.refs] ELSE Append(fs, f)

(* filter_parse on one list: a call set extends a last filter of its type. *)
AddFilter(fs, f, oom) ==
  LET g == IF f.type = "t" /\ "*" \in f.bits THEN [f EXCEPT !.bits = (@ \ {"*"}) \cup StarBits] ELSE f
      extend == f.type \in CallSets /\ fs # <<>> /\ fs[Len(fs)].type = f.type
  IN  IF extend THEN [fs EXCEPT ![Len(fs)].refs = @ \o f.refs]
      ELSE IF oom THEN fs
      ELSE Append(fs, g)

(* filter_parse *)
FilterParse(c, term, is_user_filter, oom) ==
  IF (is_user_filter /\ ~Has(c, "USERFILTEROK")) \/ BadTerm(term.f) THEN c
  ELSE IF is_user_filter
  THEN IF term.neg THEN [c EXCEPT !.neguser = AddFilter(@, term.f, oom)]
       ELSE [c EXCEPT !.posuser = AddFilter(@, term.f, oom)]
  ELSE IF term.neg THEN [c EXCEPT !.negdef = AddFilter(@, term.f, oom)]
       ELSE [c EXCEPT !.posdef = AddFilter(@, term.f, oom)]

(* filter_commands.  A command is a query, one without a blank, default,   *)
(* or a list of terms.                                                     *)
FilterCommands(c, cmd, oom) ==
  LET reset == [c EXCEPT !.neguser = <<>>, !.posuser = <<>>]
  IN  CASE cmd.kind \in {"query", "noblank"} -> c
        [] cmd.kind = "default" -> reset
        [] cmd.kind = "terms" -> FoldLeft(LAMBDA acc, t : FilterParse(acc, t, TRUE, oom),
                                          [reset EXCEPT !.filter_s = cmd.terms], cmd.terms)
=============================================================================
