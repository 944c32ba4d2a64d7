----------------------------- MODULE RelayCases -----------------------------
(***************************************************************************)
(* The algorithms that every packet goes through, checked on sets of       *)
(* inputs against what they are meant to compute: the Q construct over     *)
(* paths and kinds of connections, filter lists over typed terms, and the  *)
(* position and symbol decoders over the corners of their formats.         *)
(***************************************************************************)
EXTENDS Filters

CONSTANTS QServer, QPeer,          \* the server, and another one beyond it
          QClients,                \* kinds of connections to QServer
          QSrcs, QPaths,
          ReturnLinks,             \* how QServer sees the other server
          FilterClient, FilterLists, FilterPbufs, FilterEnv

VARIABLE case

Corner(k, x) == [kind |-> k, x |-> x]

MicEDegrees == {0, 9, 10, 99, 100, 109, 110, 179}
Minutes == {0, 9, 10, 59}
Hundredths == {0, 5, 99}
(* Which digits are given: all, or all but the last one to four. *)
Ambiguity == 0..4

CasesInit ==
  \/ \E c \in QClients, s \in QSrcs, v \in QPaths : case = Corner("q", [c |-> c, src |-> s, via |-> v])
  \/ \E ts \in FilterLists, p \in FilterPbufs : case = Corner("filter", [terms |-> ts, pb |-> p])
  \/ \E t \in {Slash, Backslash}, k \in 33..126 : case = Corner("symbol", <<t, k>>)
  \/ \E d \in MicEDegrees, m \in Minutes, h \in Hundredths, a \in Ambiguity, s \in {TRUE, FALSE} :
       case = Corner("position", [deg |-> d, min |-> m, hun |-> h, amb |-> a, neg |-> s])

Is(k) == case.kind = k

-----------------------------------------------------------------------------
QResult == QProcess(QServer, case.x.c, case.x.src, case.x.via, FALSE)

Accepted(r) == r.drop = ""

(* The purpose of the construct: a packet marked with the login of a       *)
(* validated client or with the server's own name is dropped when it comes *)
(* back from another server, whichever kind of link it comes back on.      *)
ReturnCut ==
  Is("q") =>
    LET r == QResult
        c == case.x.c
        named == IF r.via = <<>> THEN NoCall ELSE r.via[Len(r.via)]
    IN  Accepted(r) /\ r.kept = 0 /\ c.validated /\ Has(c, "INPORT")
        /\ named \in {Call(QServer.id)} \cup {Call(n) : n \in QServer.local}
        => \A link \in ReturnLinks :
             LET away == QProcess(QPeer, [link EXCEPT !.user = QServer.id], case.x.src, r.via, FALSE)
             IN  Accepted(away) => ~Accepted(QProcess(QServer, link, case.x.src, away.via, FALSE))

-----------------------------------------------------------------------------
(* What one term alone says about a packet. *)
Alone(t, pb) ==
  LET c == FilterParse(FilterClient, [t EXCEPT !.neg = FALSE], TRUE, FALSE)
  IN  ByFilters(FilterEnv, c, pb).pass

(* filter_commands and filter_process: the terms a client types pass what  *)
(* a term without minus passes and no term with minus excludes, although   *)
(* terms of one type are merged into one filter and broken terms are left  *)
(* out.                                                                    *)
FilterMeaning ==
  Is("filter") =>
    LET ts == case.x.terms
        c == FilterCommands(FilterClient, [kind |-> "terms", terms |-> ts], FALSE)
    IN  ByFilters(FilterEnv, c, case.x.pb).pass
        <=> /\ \E k \in 1..Len(ts) : ~ts[k].neg /\ Alone(ts[k], case.x.pb)
            /\ \A k \in 1..Len(ts) : ~(ts[k].neg /\ Alone(ts[k], case.x.pb))

-----------------------------------------------------------------------------
(* The characters the APRS specification prescribes for a position. *)
Digits2(n) == <<n \div 10, n % 10>>
LatDeg == case.x.deg % 90
LatDigits == Digits2(LatDeg) \o Digits2(case.x.min) \o Digits2(case.x.hun)
Given(i) == i <= 6 - case.x.amb

MicEDestination ==
  [i \in 1..6 |->
     LET up == (i = 4 /\ ~case.x.neg) \/ (i = 5 /\ (case.x.deg < 10 \/ case.x.deg > 99)) \/ (i = 6 /\ case.x.neg)
     IN  IF Given(i) THEN LatDigits[i] + (IF up THEN 80 ELSE 48) ELSE IF up THEN 90 ELSE 76]

MicEInfo ==
  LET d == case.x.deg
  IN  <<IF d < 10 THEN d + 118 ELSE IF d < 100 THEN d + 28 ELSE IF d < 110 THEN d + 8 ELSE d - 72,
        IF case.x.min < 10 THEN case.x.min + 88 ELSE case.x.min + 28,
        case.x.hun + 28, 28, 28, 28, 62, Slash>>

TextInfo ==
  LET D(i) == IF Given(i) THEN LatDigits[i] + 48 ELSE Blank
      lng == <<case.x.deg \div 100>> \o Digits2(case.x.deg % 100)
  IN  <<LatDigits[1] + 48, LatDigits[2] + 48, D(3), D(4), 46, D(5), D(6), IF case.x.neg THEN 83 ELSE 78, Slash,
        lng[1] + 48, lng[2] + 48, lng[3] + 48, D(3), D(4), 46, D(5), D(6), IF case.x.neg THEN 87 ELSE 69, 62>>

(* The hundredths of a minute that agree with the digits given. *)
CellLow == LET step == CASE case.x.amb = 0 -> 1 [] case.x.amb = 1 -> 10 [] case.x.amb = 2 -> 100
                         [] case.x.amb = 3 -> 1000 [] case.x.amb = 4 -> 6000
               v == case.x.min * 100 + case.x.hun
           IN  [low |-> v - (v % step), size |-> step]

InCell(v, deg) == Within(AbsOf(v), deg * 6000 + CellLow.low, deg * 6000 + CellLow.low + CellLow.size - 1)

(* parse_aprs_mice and parse_aprs_uncompressed: the point decoded is one   *)
(* of those the sender may have meant, on the right side of the equator    *)
(* and the meridian, with digits left out or not; only the points broken   *)
(* trackers send are refused.  get_symbol_from_dstcall: every symbol of    *)
(* both tables is written by one pair of destination characters and by one *)
(* number.                                                                 *)
DecodedRight ==
  /\ Is("position") =>
       \A r \in {MicE(MicEDestination, MicEInfo), Uncompressed(TextInfo)} :
         IF r.ok THEN /\ InCell(r.lat, LatDeg) /\ InCell(r.lng, case.x.deg)
                      /\ (r.lat < 0) = (case.x.neg /\ r.lat # 0)
                      /\ (r.lng < 0) = (case.x.neg /\ r.lng # 0)
         ELSE LatDeg = 0 /\ case.x.deg \in {0, 90}
  /\ Is("symbol") =>
       /\ Cardinality({p \in Upper \X (Digit \cup Upper) : TwoChar(p[1], p[2]) = case.x}) = 1
       /\ Cardinality({p \in {67, 69} \X Digit \X Digit : SymbolFromDstcall(p) = case.x}) = 1
=============================================================================
