------------------------------ MODULE PosDecode ------------------------------
(***************************************************************************)
(* The position and symbol decoders of parse_aprs.c.  Characters are their *)
(* ASCII codes.  A coordinate is an exact integer in fractions of a degree *)
(* (1/6000 for the text and Mic-E formats, the base-91 step for compressed *)
(* ones) where the code computes the same value in floating point.         *)
(***************************************************************************)
EXTENDS Integers, Sequences

Digit == 48..57
Upper == 65..90
Slash == 47
Backslash == 92
Blank == 32

ValidSymTableCompressed(ch) == ch \in {Slash, Backslash} \cup Upper \cup 97..106
ValidSymTableUncompressed(ch) == ch \in {Slash, Backslash} \cup Upper \cup Digit

Within(x, lo, hi) == lo <= x /\ x <= hi
AbsOf(x) == IF x < 0 THEN -x ELSE x

(* A symbol table character makes the packet a weather report with _ or @. *)
IsWxSymbol(table, code) == code \in {95, 64} /\ ValidSymTableUncompressed(table)

NotDecoded == [ok |-> FALSE, wx |-> FALSE, lat |-> 0, lng |-> 0]

(* pbuf_fill_pos: lat is in 1/u and lng in 1/w degree.  The poles and the  *)
(* points (0,0), (0,90) and (0,-90) that broken trackers send are refused. *)
FillPos(lat, u, lng, w, table, code) ==
  LET zero(x, v) == AbsOf(x) <= v \div 10000
      bad == \/ AbsOf(10 * lat) > 899 * u /\ zero(lng, w)
             \/ zero(lat, u) /\ (zero(lng, w) \/ Within(AbsOf(lng), (8999 * w + 99) \div 100, (9001 * w) \div 100))
      ok == ~bad /\ AbsOf(lat) <= 90 * u /\ AbsOf(lng) <= 180 * w
  IN  [ok |-> ok, wx |-> IsWxSymbol(table, code), lat |-> lat, lng |-> lng]

-----------------------------------------------------------------------------
(* get_symbol_from_dstcall_twochar: for the first character the range of   *)
(* the second, the table, and what is added to the second.                 *)
SymbolRanges ==
  { <<66, 66, 80, Slash, 33 - 66>>, <<80, 48, 57, Slash, 0>>, <<80, 65, 90, Slash, 0>>,
    <<77, 82, 88, Slash, 58 - 82>>, <<72, 83, 88, Slash, 91 - 83>>, <<76, 65, 90, Slash, 97 - 65>>,
    <<74, 49, 52, Slash, 123 - 49>>,
    <<79, 66, 80, Backslash, 33 - 66>>, <<65, 48, 57, Backslash, 0>>, <<65, 65, 90, Backslash, 0>>,
    <<78, 82, 88, Backslash, 58 - 82>>, <<68, 83, 88, Backslash, 91 - 83>>, <<83, 65, 90, Backslash, 97 - 65>>,
    <<81, 49, 52, Backslash, 123 - 49>> }

NoSymbol == <<Blank, Blank>>

TwoChar(c1, c2) ==
  LET rs == {r \in SymbolRanges : r[1] = c1 /\ Within(c2, r[2], r[3])}
  IN  IF rs = {} THEN NoSymbol
      ELSE LET r == CHOOSE x \in rs : TRUE IN <<r[4], c2 + r[5]>>

AlNum == Digit \cup Upper \cup 97..122

(* get_symbol_from_dstcall for a call that starts with GPS, SPC or SYM: x  *)
(* is what follows these three characters.                                 *)
SymbolFromDstcall(x) ==
  IF Len(x) < 2 \/ \E i \in 1..Len(x) : i <= 3 /\ x[i] \notin AlNum THEN NoSymbol
  ELSE IF Len(x) = 2 THEN TwoChar(x[1], x[2])
  ELSE IF x[1] \in {67, 69}
  THEN IF x[2] \notin Digit \/ x[3] \notin Digit THEN NoSymbol
       ELSE <<IF x[1] = 67 THEN Slash ELSE Backslash, (x[2] - 48) * 10 + (x[3] - 48) + 32>>
  ELSE IF x[1] \in {79, 65, 78, 68, 83, 81} THEN TwoChar(x[1], x[2])
  ELSE NoSymbol

-----------------------------------------------------------------------------
(* Mic-E: d is the destination call (six characters), b the first eight    *)
(* characters of the body.                                                 *)
MicEDst(d) ==
  /\ Len(d) = 6
  /\ \A i \in 1..3 : d[i] \in Digit \cup 65..76 \cup 80..90
  /\ \A i \in 4..6 : d[i] \in Digit \cup {76} \cup 80..90

MicEBody(b) ==
  /\ Len(b) >= 8
  /\ b[1] \in 38..127 /\ b[2] \in 38..97 /\ b[3] \in 28..127 /\ b[4] \in 28..127
  /\ b[5] \in 28..125 /\ b[6] \in 28..127 /\ b[7] \in 33..123 \cup {125}
  /\ ValidSymTableUncompressed(b[8])

(* The latitude digit of a destination character; -1 stands for '_', a     *)
(* digit left out.                                                         *)
MicEDigit(ch) ==
  CASE ch \in 65..74 -> ch - 65
    [] ch \in 80..89 -> ch - 80
    [] ch \in {75, 76, 90} -> -1
    [] OTHER -> ch - 48

MicEAmbiguity(g) ==
  IF g[3] = -1 THEN 4 ELSE IF g[4] = -1 THEN 3 ELSE IF g[5] = -1 THEN 2
  ELSE IF g[6] = -1 THEN 1 ELSE 0

(* Mutant: the boundary between the two wrapped ranges is off by one. *)
MicELngDegEarly(b1, offset) ==
  LET n == b1 - 28 + (IF offset THEN 100 ELSE 0)
  IN  IF Within(n, 180, 188) THEN n - 80 ELSE IF Within(n, 189, 199) THEN n - 190 ELSE n

MicELngDeg(b1, offset) ==
  LET n == b1 - 28 + (IF offset THEN 100 ELSE 0)
  IN  IF Within(n, 180, 189) THEN n - 80 ELSE IF Within(n, 190, 199) THEN n - 190 ELSE n

MicELng(deg, min, frag, amb) ==
  deg * 6000 + (CASE amb = 0 -> min * 100 + frag
                  [] amb = 1 -> min * 100 + (frag - (frag % 10) + 5)
                  [] amb = 2 -> min * 100 + 50
                  [] amb = 3 -> (min - (min % 10) + 5) * 100
                  [] amb = 4 -> 3000)

(* parse_aprs_mice *)
MicE(d, b) ==
  LET g == [i \in 1..6 |-> MicEDigit(d[i])]
      fill == <<g[1], g[2], IF g[3] = -1 THEN 3 ELSE g[3]>> \o [i \in 1..3 |-> IF g[i + 3] = -1 THEN 5 ELSE g[i + 3]]
      lat == (fill[1] * 10 + fill[2]) * 6000 + (fill[3] * 10 + fill[4]) * 100 + fill[5] * 10 + fill[6]
      min == IF b[2] - 28 >= 60 THEN b[2] - 88 ELSE b[2] - 28
      lng == MicELng(MicELngDeg(b[1], d[5] >= 80), min, b[3] - 28, MicEAmbiguity(g))
  IN  IF ~MicEDst(d) \/ ~MicEBody(b) \/ g[1] = -1 \/ g[2] = -1 THEN NotDecoded
      ELSE FillPos(IF d[4] <= 76 THEN -lat ELSE lat, 6000,
                   IF d[6] >= 80 THEN -lng ELSE lng, 6000, b[8], b[7])

-----------------------------------------------------------------------------
(* parse_aprs_compressed: thirteen characters, the first the symbol table. *)
Base91(b, i) == (((b[i] - 33) * 91 + b[i + 1] - 33) * 91 + b[i + 2] - 33) * 91 + b[i + 3] - 33

Compressed(b) ==
  IF Len(b) < 13 \/ \E i \in 2..9 : b[i] \notin 33..123 THEN NotDecoded
  ELSE FillPos(90 * 380926 - Base91(b, 2), 380926, -180 * 190463 + Base91(b, 6), 190463, b[1], b[10])

(* parse_aprs_uncompressed: ddmm.hhN/dddmm.hhE# with blanks for the digits *)
(* left out by ambiguity.                                                  *)
Filled(b) ==
  [i \in 1..19 |-> IF b[i] # Blank THEN b[i]
                   ELSE IF i \in {3, 13} THEN 51
                   ELSE IF i \in {4, 6, 7, 14, 16, 17} THEN 53 ELSE Blank]

Number(p, i, n) ==
  LET v[k \in 0..n] == IF k = 0 THEN 0 ELSE v[k - 1] * 10 + p[i + k - 1] - 48 IN v[n]

Uncompressed(b) ==
  LET p == Filled(b)
      digits == {1, 2, 3, 4, 6, 7, 10, 11, 12, 13, 14, 16, 17}
      latd == Number(p, 1, 2)
      lngd == Number(p, 10, 3)
      lat == latd * 6000 + Number(p, 3, 2) * 100 + Number(p, 6, 2)
      lng == lngd * 6000 + Number(p, 13, 2) * 100 + Number(p, 16, 2)
      table == IF ValidSymTableUncompressed(p[9]) THEN p[9] ELSE 0
  IN  IF Len(b) < 19 THEN NotDecoded
      ELSE IF (\E i \in digits : p[i] \notin Digit) \/ p[5] # 46 \/ p[15] # 46 THEN NotDecoded
      ELSE IF p[8] \notin {78, 110, 83, 115} \/ p[18] \notin {69, 101, 87, 119} THEN NotDecoded
      ELSE IF latd > 89 \/ lngd > 179 THEN NotDecoded
      ELSE FillPos(IF p[8] \in {83, 115} THEN -lat ELSE lat, 6000,
                   IF p[18] \in {87, 119} THEN -lng ELSE lng, 6000, table, p[19])
=============================================================================
