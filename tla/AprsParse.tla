------------------------------ MODULE AprsParse ------------------------------
(***************************************************************************)
(* parse_aprs: what the information field of a packet says about it.       *)
(*                                                                         *)
(* An information field is a record                                        *)
(*   ty     its first character, "x" for one without a meaning and "mic-e" *)
(*          for the two that start Mic-E data                              *)
(*   room   it is as long as the code requires for its type                *)
(*   sub    the part of its format the code tells apart                    *)
(*   fix    what the decoders of PosDecode say: "none" when they give up,  *)
(*          "bad" when pbuf_fill_pos refuses the point, else "ok"          *)
(*   place  the decoded point, a number on a line; 0 is the point a zeroed *)
(*          buffer has                                                     *)
(*   sym    the symbol, a pair of table (or overlay) and code              *)
(*   wx     it is a weather symbol                                         *)
(*   name   object or item name, message recipient, third-party source     *)
(*   full   the object name fills its nine characters                      *)
(*   inner  the information field inside a third-party packet, in a        *)
(*          sequence of length 0 or 1                                      *)
(* pb is the part of struct pbuf_t the parser fills in.                    *)
(***************************************************************************)
EXTENDS PosDecode

(* disallow_msg_recipients *)
DisallowedRecipients == {"javaMSG", "JAVATITLE", "JAVATITL2", "USERLIST", "KIPSS"}

With(pb, ts) == [pb EXCEPT !.types = @ \cup ts]
Returns(pb, rc) == [pb EXCEPT !.rc = rc]

(* A decoder's result, written to the pbuf by pbuf_fill_pos. *)
Fixed(pb, info) ==
  LET seen == [With(pb, IF info.wx THEN {"WX"} ELSE {}) EXCEPT !.sym = info.sym]
  IN  IF info.fix = "none" THEN Returns(pb, "0")
      ELSE IF info.fix = "bad" THEN Returns(seen, "0")
      ELSE [seen EXCEPT !.pos = info.place, !.haspos = TRUE, !.rc = "1"]

Nmea(pb, info) ==
  CASE info.sub = "ULT" -> Returns(With(pb, {"WX"}), "1")
    [] info.sub = "ignored" -> Returns(pb, "1")
    [] info.sub = "position" -> Fixed(With(pb, {"POSITION"}), info)
    [] OTHER -> Returns(pb, "0")

(* preparse_aprs_message *)
Message(pb, info) ==
  LET ts == CASE info.sub = "nws" -> {"MESSAGE", "NWS"}
              [] info.sub = "telemetry" -> {"TELEMETRY"}
              [] OTHER -> {"MESSAGE"}
  IN  [With(pb, ts) EXCEPT !.dstname = info.name,
         !.rc = IF info.name \in DisallowedRecipients THEN "DIS_MSG_DST" ELSE "0"]

(* Objects and items: the name is taken only if the format is right. *)
Named(pb, info) ==
  IF info.sub = "malformed" THEN Returns(pb, "0")
  ELSE Fixed([pb EXCEPT !.srcname = info.name], info)

(* The last resort looks at the exclamation mark itself, which is neither  *)
(* a symbol table nor a digit.                                             *)
Embedded(pb, info) ==
  LET poschar == 33
  IN  IF info.sub = "embedded" /\ (ValidSymTableCompressed(poschar) \/ poschar \in Digit)
      THEN Fixed(pb, info)
      ELSE Returns(pb, "0")

RECURSIVE ParseBody( _, _ )

(* parse_aprs_3rdparty *)
ThirdParty(pb, info) ==
  CASE info.sub = "noheader" -> Returns(pb, "0")
    [] info.sub = "nopath" -> Returns(pb, "INV_3RD_PARTY")
    [] info.sub = "badsrc" -> Returns(pb, "INV_SRCCALL")
    [] info.sub = "baddst" -> Returns(pb, "INV_DSTCALL")
    [] info.sub = "badpath" -> Returns(pb, "INV_3RD_PARTY")
    [] OTHER -> ParseBody([pb EXCEPT !.srcname = info.name], info.inner[1])

(* parse_aprs_body *)
ParseBody(pb, info) ==
  CASE info.ty = "mic-e" -> IF info.room THEN Fixed(With(pb, {"POSITION"}), info) ELSE Returns(pb, "0")
    [] info.ty = "!" /\ info.sub = "!" -> Returns(With(pb, {"WX"}), "0")
    [] info.ty \in {"!", "=", "/", "@"} /\ info.sub # "!" ->
         IF info.room THEN Fixed(With(pb, {"POSITION"}), info) ELSE Returns(pb, "0")
    [] info.ty = "$" -> IF info.room THEN Nmea(pb, info) ELSE Returns(pb, "0")
    [] info.ty = ":" -> IF info.room THEN Message(pb, info) ELSE Returns(pb, "0")
    [] info.ty = ";" -> IF info.room THEN Named(With(pb, {"OBJECT"}), info) ELSE Returns(pb, "0")
    [] info.ty = ")" -> IF info.room THEN Named(With(pb, {"ITEM"}), info) ELSE Returns(pb, "0")
    [] info.ty = ">" -> Returns(With(pb, {"STATUS"}), "0")
    [] info.ty = "<" -> Returns(With(pb, {"STATCAPA"}), "0")
    [] info.ty = "?" -> Returns(With(pb, {"QUERY"}), "0")
    [] info.ty = "T" -> Returns(IF info.room THEN With(pb, {"TELEMETRY"}) ELSE pb, "0")
    [] info.ty \in {"_", "#", "*"} -> Returns(With(pb, {"WX"}), "0")
    [] info.ty = "{" -> Returns(With(pb, {"USERDEF"}), "0")
    [] info.ty = "}" -> ThirdParty(With(pb, {"3RDPARTY"}), info)
    [] info.ty = "D" /\ info.sub = "dx" -> Returns(pb, "DIS_DX")
    [] OTHER -> Embedded(pb, info)

(* parse_aprs: T_ALL is in every packet and left out; cwop says that the   *)
(* source looks like a CWOP station.                                       *)
Parse(pb, info, cwop) == ParseBody(With(pb, IF cwop THEN {"CWOP"} ELSE {}), info)
=============================================================================
