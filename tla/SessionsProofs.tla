---------------------------- MODULE SessionsProofs ----------------------------
(***************************************************************************)
(* The sessions of clients, for any number of clients, names, descriptors, *)
(* login lines and live upgrades: of the verified clients of one user only *)
(* the newest stands, the client list tells truly who is connected, and a  *)
(* live upgrade keeps the sessions.                                        *)
(***************************************************************************)
EXTENDS Sessions, WellFoundedInduction, TLAPS

(* The types of clients, of entries of the list and of what is dumped. *)
Phase == {"login", "connected"}
ClientRec == [st : {"free", "queued", "live", "close", "closing"}, phase : Phase,
              fd : SFd \cup {0}, user : Named, validated : BOOLEAN, fails : Nat,
              udp_port : Nat, tls : BOOLEAN, cert : Named, old_fd : SFd \cup {0}]
EntryRec == [id : SCell, user : Named, validated : BOOLEAN, fd : SFd]
DumpRec == [fd : SFd, phase : Phase, user : Named, validated : BOOLEAN, udp_port : Nat]

SessionTypes ==
    /\ cell \in [SCell -> ClientRec] /\ sock \in [SFd -> {"free", "open", "shut"}]
    /\ clientlist \in [Bucket -> Seq(EntryRec)]
    /\ dump \subseteq DumpRec /\ before \subseteq ClientRec /\ scenario \in Scenarios
    /\ \A c \in SCell : Present(c) => cell[c].fd \in SFd

(* An open or shut socket has at most one client that is not being freed,  *)
(* and such a client has its socket.                                       *)
Owns(c) == cell[c].st \notin {"free", "closing"}
FdsApart ==
    \A c \in SCell : Owns(c) =>
      /\ sock[cell[c].fd] # "free"
      /\ \A d \in SCell : Owns(d) /\ cell[d].fd = cell[c].fd => d = c

(* A client ends only after it has disconnected its older rival. *)
OldFds == \A c \in SCell : cell[c].st \in {"free", "closing"} => cell[c].old_fd = 0

(* Without TLS nothing verifies a client before its login. *)
PlainUnverified ==
    \A c \in SCell : ~cell[c].tls =>
      /\ cell[c].cert = NoUser
      /\ cell[c].phase = "login" /\ cell[c].st \in {"queued", "live"} => ~cell[c].validated

IsVerified(c) == Present(c) /\ cell[c].phase = "connected" /\ cell[c].validated

(* A validated entry of the list is true of the client it names, and is    *)
(* the first one that has its id.                                          *)
Stands(e, b) ==
    UserHash(e.user) = b /\ IsVerified(e.id) /\ cell[e.id].user = e.user /\ cell[e.id].fd = e.fd
EntryOwned(b, k) ==
    clientlist[b][k].validated =>
      /\ Stands(clientlist[b][k], b)
      /\ \A j \in DOMAIN clientlist[b] : j < k => clientlist[b][j].id # clientlist[b][k].id
EntriesOwned == \A b \in Bucket : \A k \in DOMAIN clientlist[b] : EntryOwned(b, k)

(* Every verified client has a validated entry. *)
HasEntry(c) ==
    \E k \in DOMAIN clientlist[UserHash(cell[c].user)] :
      LET e == clientlist[UserHash(cell[c].user)][k] IN e.id = c /\ e.validated
AllEntered == \A c \in SCell : IsVerified(c) => HasEntry(c)

(* The sockets that are still to be taken over belong to nobody else. *)
DumpApart ==
    \A d \in dump :
      /\ sock[d.fd] # "free" /\ (d.phase = "login" => ~d.validated)
      /\ \A c \in SCell : Owns(c) => cell[c].fd # d.fd
      /\ \A e \in dump : e.fd = d.fd => e = d

(* What is still to be taken over is what the old process had. *)
DumpTrue == \A d \in dump : \A r \in before : d.fd = r.fd => d = Dumped(r)

(* While the accept thread takes clients over, no descriptor is reused. *)
ClosedFree ==
    ~AcceptIdle => \A c \in SCell : cell[c].st = "closing" => sock[cell[c].fd] = "free"

(* What a client that is being taken over disconnects is closed by itself  *)
(* or still the socket of a verified client of the same name.              *)
RivalFound(c) ==
    \/ sock[cell[c].old_fd] = "free"
    \/ \E d \in SCell : /\ d # c /\ IsVerified(d) /\ Owns(d)
                        /\ cell[d].user = cell[c].user /\ cell[d].fd = cell[c].old_fd
RivalsFound == \A c \in SCell : Entering(c) => RivalFound(c)

(* The inductive invariant. *)
SessionIInv ==
    /\ SessionTypes /\ FdsApart /\ OldFds /\ PlainUnverified
    /\ EntriesOwned /\ AllEntered /\ OnlyNewestStands
    /\ DumpApart /\ DumpTrue /\ ClosedFree /\ RivalsFound
-----------------------------------------------------------------------------
(* Every set of numbers that is not empty has a least member. *)
LEMMA LeastNatural ==
    ASSUME NEW S \in SUBSET Nat, S # {}
    PROVE  \E n \in S : \A m \in S : n <= m
<1>1. PICK n \in S : \A m \in S : ~(<<m, n>> \in OpToRel(<, Nat))
  BY NatLessThanWellFounded, WFMin, ZenonT(30)
<1>2. ASSUME NEW m \in S PROVE n <= m
  <2>1. ~(m < n)
    BY <1>1 DEF OpToRel
  <2> QED
    BY <2>1, SMTT(30)
<1> QED
  BY <1>2, ZenonT(30)

(* First is the least member (the loops of clientlist.c stop at it). *)
LEMMA FirstIs ==
    ASSUME NEW S \in SUBSET Nat, S # {}
    PROVE  First(S) \in S /\ \A m \in S : First(S) <= m
  BY LeastNatural, ZenonT(30) DEF First

(* The length of two sequences together. *)
LEMMA Joined ==
    ASSUME NEW S, NEW p \in Seq(S), NEW q \in Seq(S)
    PROVE  p \o q \in Seq(S) /\ Len(p \o q) = Len(p) + Len(q)
  BY SMTT(30)

(* A sequence behind one of length 1. *)
LEMMA Behind ==
    ASSUME NEW S, NEW p \in Seq(S), NEW q \in Seq(S), Len(p) = 1,
           p \o q \in Seq(S), Len(p \o q) = Len(p) + Len(q)
    PROVE  (p \o q)[1] = p[1] /\ \A k \in 1..Len(q) : (p \o q)[k + 1] = q[k]
<1>1. (p \o q)[1] = p[1]
  BY SMTT(30)
<1>2. ASSUME NEW k \in 1..Len(q) PROVE (p \o q)[k + 1] = q[k]
  BY SMTT(30)
<1> QED
  BY <1>1, <1>2, ZenonT(30)

(* What clientlist_add does to a list: one entry more, in front. *)
LEMMA Prepended ==
    ASSUME NEW S, NEW q \in Seq(S), NEW e \in S
    PROVE  LET t == <<e>> \o q
           IN  /\ t \in Seq(S) /\ DOMAIN t = 1..Len(q) + 1 /\ t[1] = e
               /\ DOMAIN q = 1..Len(q) /\ Len(q) \in Nat
               /\ \A k \in 1..Len(q) : t[k + 1] = q[k]
<1> DEFINE p == <<e>>
           t == p \o q
<1>1. p \in Seq(S) /\ Len(p) = 1 /\ p[1] = e
  BY SMTT(30)
<1>2. DOMAIN q = 1..Len(q) /\ Len(q) \in Nat
  BY SMTT(30)
<1> HIDE DEF p
<1>3. t \in Seq(S) /\ Len(t) = Len(p) + Len(q)
  BY <1>1, Joined, ZenonT(30)
<1>4. t[1] = e /\ \A k \in 1..Len(q) : t[k + 1] = q[k]
  BY <1>1, <1>3, Behind, SMTT(30)
<1> HIDE DEF t
<1>5. DOMAIN t = 1..Len(q) + 1
  BY <1>1, <1>2, <1>3, SMTT(30)
<1> QED
  BY <1>2, <1>3, <1>4, <1>5, ZenonT(30) DEF t, p

(* The sequence t is q without its place n. *)
LessOne(S, q, n, t) ==
    LET at(k) == IF k < n THEN k ELSE k + 1
    IN  /\ t \in Seq(S) /\ DOMAIN t \subseteq Nat /\ DOMAIN q \subseteq Nat
        /\ \A k \in DOMAIN t : at(k) \in DOMAIN q /\ t[k] = q[at(k)]
        /\ \A j, k \in DOMAIN t : j < k => at(j) < at(k)
        /\ \A k \in DOMAIN q : k # n => \E j \in DOMAIN t : at(j) = k

(* What clientlist_remove does to a list: one entry less, the order kept. *)
LEMMA EntryWithout ==
    ASSUME NEW S, NEW q \in Seq(S), NEW n \in DOMAIN q
    PROVE  LessOne(S, q, n, Without(q, n))
<1> DEFINE t == Without(q, n)
           at(k) == IF k < n THEN k ELSE k + 1
<1>1. DOMAIN q = 1..Len(q) /\ Len(q) \in Nat \ {0} /\ n \in 1..Len(q)
  BY SMTT(30)
<1>2. \A k \in 1..Len(q) - 1 : at(k) \in 1..Len(q)
  BY <1>1, SMTT(30)
<1>3. \A k \in 1..Len(q) : q[k] \in S
  BY <1>1, SMTT(30)
<1>4. t \in [1..Len(q) - 1 -> S]
  BY <1>2, <1>3, ZenonT(30) DEF Without
<1>5. \A k \in 1..Len(q) - 1 : t[k] = q[at(k)]
  BY ZenonT(30) DEF Without
<1>6. t \in Seq(S) /\ DOMAIN t = 1..Len(q) - 1
  <2> HIDE DEF t
  <2>1. Len(q) - 1 \in Nat
    BY <1>1, SMTT(30)
  <2> QED
    BY <1>4, <2>1, SMTT(30)
<1>7. \A j, k \in 1..Len(q) - 1 : j < k => at(j) < at(k)
  BY <1>1, SMTT(30)
<1>8. \A k \in 1..Len(q) : k # n => \E j \in 1..Len(q) - 1 : at(j) = k
  <2> TAKE k \in 1..Len(q)
  <2>1. CASE k < n
    <3>1. k \in 1..Len(q) - 1 /\ at(k) = k
      BY <1>1, <2>1, SMTT(30)
    <3> QED
      BY <3>1, ZenonT(30)
  <2>2. CASE k > n
    <3>1. k - 1 \in 1..Len(q) - 1 /\ at(k - 1) = k
      BY <1>1, <2>2, SMTT(30)
    <3> QED
      BY <3>1, ZenonT(30)
  <2> QED
    BY <1>1, <2>1, <2>2, SMTT(30)
<1>9. 1..Len(q) \subseteq Nat /\ 1..Len(q) - 1 \subseteq Nat
  BY SMTT(30)
<1> HIDE DEF t
<1>10. /\ t \in Seq(S) /\ DOMAIN t \subseteq Nat /\ DOMAIN q \subseteq Nat
       /\ \A k \in DOMAIN t : at(k) \in DOMAIN q /\ t[k] = q[at(k)]
       /\ \A j, k \in DOMAIN t : j < k => at(j) < at(k)
       /\ \A k \in DOMAIN q : k # n => \E j \in DOMAIN t : at(j) = k
  BY <1>1, <1>2, <1>5, <1>6, <1>7, <1>8, <1>9, ZenonT(30)
<1> QED
  BY <1>10, ZenonT(30) DEF t, LessOne
-----------------------------------------------------------------------------
(* A lookup finds the first validated entry of the user, if there is one   *)
(* (check_if_validated_client).                                            *)
Hit(u, k) ==
    /\ k \in DOMAIN clientlist[UserHash(u)]
    /\ clientlist[UserHash(u)][k].user = u /\ clientlist[UserHash(u)][k].validated

(* The value of a lookup, in terms of the entries. *)
LEMMA LookupValue ==
    ASSUME SessionTypes, NEW u \in Named
    PROVE  \/ check_if_validated_client(clientlist, u) = 0 /\ \A k : ~Hit(u, k)
           \/ \E h : /\ Hit(u, h) /\ \A k : Hit(u, k) => h <= k
                     /\ check_if_validated_client(clientlist, u) = clientlist[UserHash(u)][h].fd
<1> DEFINE q == clientlist[UserHash(u)]
           hits == {k \in DOMAIN q : q[k].user = u /\ q[k].validated}
<1>1. UserHash(u) \in Bucket
  BY ZenonT(30) DEF Bucket
<1>2. q \in Seq(EntryRec)
  BY <1>1, ZenonT(30) DEF SessionTypes
<1>3. DOMAIN q \subseteq Nat
  <2> HIDE DEF q
  <2> QED
    BY <1>2, SMTT(30)
<1>4. \A k : Hit(u, k) <=> k \in hits
  BY ZenonT(30) DEF Hit
<1>5. CASE hits = {}
  <2>1. check_if_validated_client(clientlist, u) = 0
    BY <1>5, ZenonT(30) DEF check_if_validated_client
  <2> QED
    BY <1>4, <1>5, <2>1, ZenonT(30)
<1>6. CASE hits # {}
  <2>1. check_if_validated_client(clientlist, u) = q[First(hits)].fd
    BY <1>6, ZenonT(30) DEF check_if_validated_client
  <2>2. hits \in SUBSET Nat
    BY <1>3, ZenonT(30)
  <2>3. First(hits) \in hits /\ \A m \in hits : First(hits) <= m
    <3> HIDE DEF hits
    <3> QED
      BY <1>6, <2>2, FirstIs, ZenonT(30)
  <2> QED
    BY <1>4, <2>1, <2>3, ZenonT(30)
<1> QED
  BY <1>5, <1>6, ZenonT(30)

(* A validated entry is the one of a verified client of its user. *)
LEMMA EntryStands ==
    ASSUME SessionTypes, EntriesOwned, NEW b \in Bucket, NEW k \in DOMAIN clientlist[b],
           clientlist[b][k].validated
    PROVE  Stands(clientlist[b][k], b)
  BY ZenonT(30) DEF EntriesOwned, EntryOwned

(* The entries of the list are well-typed. *)
LEMMA EntryTyped ==
    ASSUME SessionTypes, NEW b \in Bucket, NEW k \in DOMAIN clientlist[b]
    PROVE  /\ clientlist[b] \in Seq(EntryRec) /\ clientlist[b][k] \in EntryRec
           /\ clientlist[b][k].id \in SCell /\ clientlist[b][k].user \in Named
           /\ clientlist[b][k].fd \in SFd /\ clientlist[b][k].validated \in BOOLEAN /\ k \in Nat
<1>1. clientlist[b] \in Seq(EntryRec)
  BY ZenonT(30) DEF SessionTypes
<1> DEFINE q == clientlist[b]
<1> HIDE DEF q
<1>2. q \in Seq(EntryRec) /\ k \in DOMAIN q
  BY <1>1 DEF q
<1>3. q[k] \in EntryRec /\ k \in Nat
  BY <1>2, SMTT(30)
<1>4. q[k].id \in SCell /\ q[k].user \in Named /\ q[k].fd \in SFd /\ q[k].validated \in BOOLEAN
  BY <1>3, SMTT(30) DEF EntryRec
<1> QED
  BY <1>1, <1>3, <1>4, ZenonT(30) DEF q

(* The lookup of the Q construct is right in every state of the invariant. *)
LEMMA InvLookup == SessionIInv => LookupTruthful
<1> SUFFICES ASSUME SessionIInv, NEW u \in User
             PROVE  check_if_validated_client(clientlist, u) # 0 <=> Verified(u) # {}
  BY ZenonT(30) DEF LookupTruthful
<1>1. u \in Named /\ UserHash(u) \in Bucket
  BY ZenonT(30) DEF Named, Bucket
<1>2. SessionTypes /\ EntriesOwned /\ AllEntered
  BY ZenonT(30) DEF SessionIInv
<1>3. ASSUME NEW h, Hit(u, h)
      PROVE  Verified(u) # {} /\ clientlist[UserHash(u)][h].fd \in SFd
  <2>1. h \in DOMAIN clientlist[UserHash(u)]
    BY <1>3, ZenonT(30) DEF Hit
  <2>2. Stands(clientlist[UserHash(u)][h], UserHash(u))
    BY <1>1, <1>2, <1>3, <2>1, EntryStands, ZenonT(30) DEF Hit
  <2>3. clientlist[UserHash(u)][h].fd \in SFd /\ clientlist[UserHash(u)][h].id \in SCell
    BY <1>1, <1>2, <2>1, EntryTyped, ZenonT(30)
  <2> QED
    BY <1>3, <2>2, <2>3, ZenonT(30) DEF Hit, Stands, IsVerified, Verified
<1>4. ASSUME NEW c \in Verified(u) PROVE \E k : Hit(u, k)
  <2>1. c \in SCell /\ IsVerified(c) /\ cell[c].user = u
    BY <1>4, ZenonT(30) DEF Verified, IsVerified
  <2>2. PICK k \in DOMAIN clientlist[UserHash(u)] :
          clientlist[UserHash(u)][k].id = c /\ clientlist[UserHash(u)][k].validated
    BY <1>2, <2>1, ZenonT(30) DEF AllEntered, HasEntry
  <2>3. Stands(clientlist[UserHash(u)][k], UserHash(u))
    BY <1>1, <1>2, <2>2, EntryStands, ZenonT(30)
  <2> QED
    BY <2>1, <2>2, <2>3, ZenonT(30) DEF Hit, Stands
<1>5. 0 \notin SFd
  BY SessionAssumption, SMTT(30)
<1> QED
  BY <1>1, <1>2, <1>3, <1>4, <1>5, LookupValue, ZenonT(30)
-----------------------------------------------------------------------------
(* One client changes. *)
SetCell(c, s) == cell' = [cell EXCEPT ![c] = s]

(* What the other clients are after that. *)
LEMMA OneCell ==
    ASSUME cell \in [SCell -> ClientRec], NEW c \in SCell, NEW s \in ClientRec, SetCell(c, s)
    PROVE  cell' \in [SCell -> ClientRec] /\ cell'[c] = s /\ \A d \in SCell : d # c => cell'[d] = cell[d]
  BY ZenonT(30) DEF SetCell

(* The fields of a client have their types. *)
LEMMA CellTyped ==
    ASSUME cell \in [SCell -> ClientRec], NEW c \in SCell
    PROVE  /\ cell[c] \in ClientRec /\ cell[c].user \in Named /\ cell[c].old_fd \in SFd \cup {0}
           /\ cell[c].validated \in BOOLEAN /\ cell[c].tls \in BOOLEAN /\ UserHash(cell[c].user) \in Bucket
<1>1. cell[c] \in ClientRec
  BY ZenonT(30)
<1>2. /\ cell[c].user \in Named /\ cell[c].old_fd \in SFd \cup {0}
      /\ cell[c].validated \in BOOLEAN /\ cell[c].tls \in BOOLEAN
  BY <1>1, SMTT(30) DEF ClientRec
<1> QED
  BY <1>1, <1>2, ZenonT(30) DEF Bucket

(* A step that changes neither the list nor the verified clients keeps     *)
(* what relates them.                                                      *)
LEMMA QuietList ==
    ASSUME SessionIInv, clientlist' = clientlist,
           \A c \in SCell : /\ IsVerified(c)' <=> IsVerified(c)
                            /\ IsVerified(c) => cell'[c].user = cell[c].user /\ cell'[c].fd = cell[c].fd
    PROVE  EntriesOwned' /\ AllEntered'
<1>1. SessionTypes /\ EntriesOwned /\ AllEntered
  BY ZenonT(30) DEF SessionIInv
<1>2. ASSUME NEW b \in Bucket, NEW k \in DOMAIN clientlist[b] PROVE EntryOwned(b, k)'
  <2>1. clientlist[b][k].id \in SCell
    BY <1>1, <1>2, EntryTyped, ZenonT(30)
  <2>2. EntryOwned(b, k)
    BY <1>1, <1>2, ZenonT(30) DEF EntriesOwned
  <2> QED
    BY <2>1, <2>2, ZenonT(30) DEF EntryOwned, Stands
<1>3. EntriesOwned'
  BY <1>2, ZenonT(30) DEF EntriesOwned
<1>4. ASSUME NEW c \in SCell, IsVerified(c)' PROVE HasEntry(c)'
  <2>1. HasEntry(c) /\ cell'[c].user = cell[c].user
    BY <1>1, <1>4, ZenonT(30) DEF AllEntered
  <2> QED
    BY <2>1, ZenonT(30) DEF HasEntry
<1>5. AllEntered'
  BY <1>4, ZenonT(30) DEF AllEntered
<1> QED
  BY <1>3, <1>5, ZenonT(30)

(* A step that changes the list of no bucket, and makes no client stay     *)
(* that was leaving, leaves the newest one alone.                          *)
LEMMA QuietNewest ==
    ASSUME SessionIInv, clientlist' = clientlist,
           \A b \in Bucket : \A e \in EntryRec : Stands(e, b) /\ Leaving(e) => Leaving(e)'
    PROVE  OnlyNewestStands'
<1>1. SessionTypes /\ EntriesOwned /\ OnlyNewestStands
  BY ZenonT(30) DEF SessionIInv
<1> SUFFICES ASSUME NEW b \in Bucket, NEW i \in DOMAIN clientlist[b], NEW j \in DOMAIN clientlist[b],
                    i < j, clientlist[b][i].user = clientlist[b][j].user,
                    clientlist[b][i].validated, clientlist[b][j].validated
             PROVE  Leaving(clientlist[b][j])'
  BY ZenonT(30) DEF OnlyNewestStands
<1>2. Leaving(clientlist[b][j])
  BY <1>1, ZenonT(30) DEF OnlyNewestStands
<1>3. Stands(clientlist[b][j], b)
  BY <1>1, EntryStands, ZenonT(30)
<1>4. clientlist[b][j] \in EntryRec
  BY <1>1, EntryTyped, ZenonT(30)
<1>5. Leaving(clientlist[b][j])' <=> \A e : e = clientlist[b][j] => Leaving(e)'
  BY ZenonT(30) DEF Leaving
<1> QED
  BY <1>2, <1>3, <1>4, <1>5, ZenonT(30)
-----------------------------------------------------------------------------
(* What a line of the login may make of a client r. *)
LoginShape(r, s) ==
    /\ s \in ClientRec /\ s.fd = r.fd /\ s.old_fd = r.old_fd /\ s.tls = r.tls /\ s.cert = r.cert
    /\ s.st \in {"live", "close"} /\ (s.phase = "connected" => s.st = "live")
    /\ s.phase = "login" /\ ~s.tls => ~s.validated

(* failed_login counts the failure and closes the client at the third. *)
LEMMA FailedShape ==
    ASSUME NEW r, NEW s \in ClientRec, NEW n \in Nat, s.st = "live", s.phase = "login",
           LoginShape(r, s)
    PROVE  LoginShape(r, Failed(s, n)) /\ Failed(s, n).phase = "login"
<1>1. s.fails \in Nat /\ s.fails + n \in Nat
  BY SMTT(30) DEF ClientRec
<1>2. Failed(s, n) \in ClientRec
  BY <1>1, ZenonT(30) DEF Failed, ClientRec
<1>3. /\ Failed(s, n).fd = s.fd /\ Failed(s, n).old_fd = s.old_fd /\ Failed(s, n).tls = s.tls
      /\ Failed(s, n).cert = s.cert /\ Failed(s, n).phase = s.phase
      /\ Failed(s, n).validated = s.validated /\ Failed(s, n).st \in {"live", "close"}
  BY SMTT(30) DEF Failed, ClientRec
<1> QED
  BY <1>2, <1>3, ZenonT(30) DEF LoginShape

(* A line of the login changes neither the socket nor the TLS state of the *)
(* client, and verifies none without a passcode or certificate             *)
(* (login_handler).                                                        *)
LEMMA LoginGives ==
    ASSUME NEW r \in ClientRec, r.st = "live", r.phase = "login",
           ~r.tls => r.cert = NoUser /\ ~r.validated, NEW line \in LoginLine
    PROVE  LoginShape(r, LoginResult(r, line).r)
<1> DEFINE named == [r EXCEPT !.user = line.user]
           a == Arguments(r, line)
           known == [named EXCEPT !.udp_port = a.udp_port, !.validated = r.cert # NoUser]
           done == [known EXCEPT !.phase = "connected", !.validated = @ \/ a.pass]
<1>1. line.user \in Named /\ line.port \in Nat /\ r.udp_port \in Nat
  BY SMTT(30) DEF LoginLine, ClientRec
<1>2. a.udp_port \in Nat /\ a.pass \in BOOLEAN
  BY <1>1, ZenonT(30) DEF Arguments
<1>3. LoginShape(r, r)
  BY ZenonT(30) DEF LoginShape
<1>4. LoginShape(r, named) /\ named \in ClientRec /\ named.st = "live" /\ named.phase = "login"
  <2>1. named \in ClientRec
    BY <1>1, ZenonT(30) DEF ClientRec
  <2>2. /\ named.st = "live" /\ named.phase = "login" /\ named.fd = r.fd /\ named.old_fd = r.old_fd
        /\ named.tls = r.tls /\ named.cert = r.cert /\ named.validated = r.validated
    BY SMTT(30) DEF ClientRec
  <2> QED
    BY <2>1, <2>2, ZenonT(30) DEF LoginShape
<1>5. (r.cert # NoUser) \in BOOLEAN
  BY ZenonT(30)
<1>6. LoginShape(r, known) /\ known \in ClientRec /\ known.st = "live" /\ known.phase = "login"
  <2> HIDE DEF a
  <2>1. known \in ClientRec
    BY <1>1, <1>2, <1>5, ZenonT(30) DEF ClientRec
  <2>2. /\ known.st = "live" /\ known.phase = "login" /\ known.fd = r.fd /\ known.old_fd = r.old_fd
        /\ known.tls = r.tls /\ known.cert = r.cert
    BY SMTT(30) DEF ClientRec
  <2>3. known.validated = (r.cert # NoUser)
    BY ZenonT(30) DEF ClientRec
  <2> HIDE DEF known
  <2>4. known.phase = "login" /\ ~known.tls => ~known.validated
    BY <2>2, <2>3, ZenonT(30)
  <2> QED
    BY <2>1, <2>2, <2>4, ZenonT(30) DEF LoginShape
<1>7. LoginShape(r, done)
  <2> HIDE DEF a, known
  <2>1. done \in ClientRec
    BY <1>2, <1>6, ZenonT(30) DEF ClientRec, Phase
  <2>2. /\ done.st = known.st /\ done.phase = "connected" /\ done.fd = known.fd
        /\ done.old_fd = known.old_fd /\ done.tls = known.tls /\ done.cert = known.cert
    BY <1>6, SMTT(30) DEF ClientRec
  <2> QED
    BY <1>6, <2>1, <2>2, ZenonT(30) DEF LoginShape
<1>8. LoginShape(r, Failed(r, 1)) /\ LoginShape(r, Failed(r, 2))
  BY <1>3, FailedShape, SMTT(30)
<1>9. LoginShape(r, Failed(named, 1)) /\ LoginShape(r, Failed(named, 11))
  <2> HIDE DEF named
  <2> QED
    BY <1>4, FailedShape, SMTT(30)
<1>10. LoginShape(r, Failed(known, 1))
  <2> HIDE DEF known
  <2> QED
    BY <1>6, FailedShape, SMTT(30)
<1>11. line.cmd \in {"comment", "short", "other", "denied", "user"}
  BY SMTT(30) DEF LoginLine
<1>12. LoginResult(r, line).r \in {r, Failed(r, 1), Failed(r, 2), Failed(named, 1), Failed(named, 11),
                                   Failed(known, 1), done}
  <2>1. CASE line.cmd = "comment"
    BY <2>1, SMTT(30) DEF LoginResult
  <2>2. CASE line.cmd = "short"
    BY <2>2, SMTT(30) DEF LoginResult
  <2>3. CASE line.cmd = "other"
    BY <2>3, SMTT(30) DEF LoginResult
  <2>4. CASE line.cmd = "denied"
    BY <2>4, SMTT(30) DEF LoginResult
  <2>5. CASE line.cmd = "user"
    BY <2>5, SMTT(30) DEF LoginResult
  <2> QED
    BY <1>11, <2>1, <2>2, <2>3, <2>4, <2>5, ZenonT(30)
<1> HIDE DEF named, known, done
<1> QED
  BY <1>3, <1>7, <1>8, <1>9, <1>10, <1>12, ZenonT(30)
-----------------------------------------------------------------------------
(* A client r may be entered into the list in cell c: it is not verified   *)
(* there already, and not verified before its login.                       *)
MayEnter(c, r) ==
    /\ r \in ClientRec /\ r.fd \in SFd /\ r.st \in {"live", "queued"}
    /\ r.validated => r.phase = "connected"
    /\ ~IsVerified(c) /\ cell[c].old_fd = 0

(* The client as it stands after LoginAdded. *)
AddedCell(c, r) ==
    [r EXCEPT !.old_fd = IF r.validated THEN check_if_validated_client(clientlist, r.user) ELSE 0]

(* Its fields. *)
LEMMA AddedFields ==
    ASSUME SessionIInv, NEW c \in SCell, NEW r, MayEnter(c, r), LoginAdded(c, r)
    PROVE  /\ AddedCell(c, r) \in ClientRec /\ SetCell(c, AddedCell(c, r))
           /\ AddedCell(c, r).st = r.st /\ AddedCell(c, r).phase = r.phase /\ AddedCell(c, r).fd = r.fd
           /\ AddedCell(c, r).user = r.user /\ AddedCell(c, r).validated = r.validated
           /\ AddedCell(c, r).tls = r.tls /\ AddedCell(c, r).cert = r.cert
           /\ r.validated => AddedCell(c, r).old_fd = check_if_validated_client(clientlist, r.user)
           /\ ~r.validated => AddedCell(c, r).old_fd = 0
           /\ UserHash(r.user) \in Bucket /\ r.user \in Named /\ r.validated \in BOOLEAN
<1>1. r \in ClientRec
  BY ZenonT(30) DEF MayEnter
<1>2. r.user \in Named /\ r.validated \in BOOLEAN
  BY <1>1, SMTT(30) DEF ClientRec
<1>3. UserHash(r.user) \in Bucket
  BY <1>2, ZenonT(30) DEF Bucket
<1>4. SessionTypes
  BY ZenonT(30) DEF SessionIInv
<1> DEFINE old == check_if_validated_client(clientlist, r.user)
<1>5. old \in SFd \cup {0}
  <2>1. CASE old = 0
    BY <2>1, ZenonT(30)
  <2>2. CASE old # 0
    <3>1. PICK h : Hit(r.user, h) /\ old = clientlist[UserHash(r.user)][h].fd
      BY <1>2, <1>4, <2>2, LookupValue, ZenonT(30)
    <3>2. h \in DOMAIN clientlist[UserHash(r.user)]
      BY <3>1, ZenonT(30) DEF Hit
    <3> QED
      BY <1>3, <1>4, <3>1, <3>2, EntryTyped, ZenonT(30)
  <2> QED
    BY <2>1, <2>2, ZenonT(30)
<1>6. SetCell(c, AddedCell(c, r))
  BY ZenonT(30) DEF LoginAdded, SetCell, AddedCell
<1> HIDE DEF old
<1> DEFINE x == IF r.validated THEN old ELSE 0
<1>7. x \in SFd \cup {0} /\ (r.validated => x = old) /\ (~r.validated => x = 0)
  BY <1>5, ZenonT(30)
<1>8. AddedCell(c, r) = [r EXCEPT !.old_fd = x]
  BY ZenonT(30) DEF AddedCell, old
<1> HIDE DEF x
<1>9. [r EXCEPT !.old_fd = x] \in ClientRec
  BY <1>1, <1>7, ZenonT(30) DEF ClientRec
<1>10. LET s == [r EXCEPT !.old_fd = x]
       IN  /\ s.st = r.st /\ s.phase = r.phase /\ s.fd = r.fd /\ s.user = r.user
           /\ s.validated = r.validated /\ s.tls = r.tls /\ s.cert = r.cert /\ s.old_fd = x
  BY <1>1, SMTT(30) DEF ClientRec
<1> QED
  BY <1>2, <1>3, <1>6, <1>7, <1>8, <1>9, <1>10, ZenonT(30) DEF old

(* The lists after LoginAdded: one more entry in front of one of them. *)
LEMMA AddedList ==
    ASSUME SessionTypes, NEW c \in SCell, NEW r \in ClientRec, r.fd \in SFd, LoginAdded(c, r)
    PROVE  LET h == UserHash(r.user)
               q == clientlist[h]
           IN  /\ clientlist' \in [Bucket -> Seq(EntryRec)]
               /\ \A b \in Bucket : b # h => clientlist'[b] = clientlist[b]
               /\ DOMAIN clientlist'[h] = 1..Len(q) + 1 /\ clientlist'[h][1] = Entry(c, r)
               /\ DOMAIN q = 1..Len(q) /\ Len(q) \in Nat
               /\ \A k \in 1..Len(q) : clientlist'[h][k + 1] = q[k]
<1> DEFINE h == UserHash(r.user)
           q == clientlist[h]
<1>1. r.user \in Named /\ r.validated \in BOOLEAN
  BY SMTT(30) DEF ClientRec
<1>2. h \in Bucket
  BY <1>1, ZenonT(30) DEF Bucket
<1>3. q \in Seq(EntryRec)
  BY <1>2, ZenonT(30) DEF SessionTypes
<1>4. Entry(c, r) \in EntryRec
  BY <1>1, ZenonT(30) DEF Entry, EntryRec
<1>5. clientlist' = [clientlist EXCEPT ![h] = <<Entry(c, r)>> \o q]
  BY <1>2, ZenonT(30) DEF LoginAdded, clientlist_add, SessionTypes
<1> DEFINE e == Entry(c, r)
           t == <<e>> \o q
<1>9. e \in EntryRec
  BY <1>4 DEF e
<1> HIDE DEF e, q, h
<1>6. /\ t \in Seq(EntryRec) /\ DOMAIN t = 1..Len(q) + 1 /\ t[1] = e
      /\ DOMAIN q = 1..Len(q) /\ Len(q) \in Nat /\ \A k \in 1..Len(q) : t[k + 1] = q[k]
  BY <1>3, <1>9, Prepended, SMTT(30)
<1>7. clientlist' = [clientlist EXCEPT ![h] = t]
  BY <1>5, ZenonT(30) DEF e
<1> HIDE DEF t
<1>8. /\ clientlist'[h] = t /\ clientlist' \in [Bucket -> Seq(EntryRec)]
      /\ \A b \in Bucket : b # h => clientlist'[b] = clientlist[b]
  BY <1>2, <1>6, <1>7, ZenonT(30) DEF SessionTypes
<1> QED
  BY <1>6, <1>8, ZenonT(30) DEF e, q, h

(* Places of a list with one entry more in front. *)
LEMMA PlaceBehind ==
    ASSUME NEW n \in Nat, NEW k \in 1..n + 1
    PROVE  k = 1 \/ \E p \in 1..n : k = p + 1
<1>1. CASE k # 1
  <2>1. k - 1 \in 1..n /\ k = (k - 1) + 1
    BY <1>1, SMTT(30)
  <2> QED
    BY <2>1, ZenonT(30)
<1> QED
  BY <1>1, ZenonT(30)

(* Entering a client keeps the entries true and in order, gives the client *)
(* an entry, and makes the older rivals leave (clientlist_add).            *)
LEMMA AddEntry ==
    ASSUME SessionIInv, NEW c \in SCell, NEW r, MayEnter(c, r), LoginAdded(c, r), sock' = sock
    PROVE  EntriesOwned' /\ AllEntered' /\ OnlyNewestStands'
<1> DEFINE h == UserHash(r.user)
           q == clientlist[h]
           n == Len(q)
<1>1. SessionTypes /\ EntriesOwned /\ AllEntered /\ OnlyNewestStands
  BY ZenonT(30) DEF SessionIInv
<1>2. r \in ClientRec /\ r.fd \in SFd /\ r.st # "free" /\ (r.validated => r.phase = "connected") /\ ~IsVerified(c)
      /\ cell[c].old_fd = 0
  BY ZenonT(30) DEF MayEnter
<1>3. /\ \A b \in Bucket : b # h => clientlist'[b] = clientlist[b]
      /\ DOMAIN clientlist'[h] = 1..n + 1 /\ clientlist'[h][1] = Entry(c, r)
      /\ DOMAIN q = 1..n /\ n \in Nat
      /\ \A k \in 1..n : clientlist'[h][k + 1] = q[k]
  BY <1>1, <1>2, AddedList, ZenonT(30)
<1>4. h \in Bucket /\ r.user \in Named /\ r.validated \in BOOLEAN
  BY AddedFields, ZenonT(30)
<1>5. /\ cell'[c].st = r.st /\ cell'[c].phase = r.phase /\ cell'[c].fd = r.fd
      /\ cell'[c].user = r.user /\ cell'[c].validated = r.validated
      /\ r.validated => cell'[c].old_fd = check_if_validated_client(clientlist, r.user)
      /\ \A d \in SCell : d # c => cell'[d] = cell[d]
  <2>1. cell'[c] = AddedCell(c, r) /\ \A d \in SCell : d # c => cell'[d] = cell[d]
    BY <1>1, AddedFields, OneCell, ZenonT(30) DEF SessionTypes
  <2> DEFINE s == AddedCell(c, r)
  <2>2. /\ s.st = r.st /\ s.phase = r.phase /\ s.fd = r.fd
        /\ s.user = r.user /\ s.validated = r.validated
        /\ r.validated => s.old_fd = check_if_validated_client(clientlist, r.user)
    BY AddedFields, ZenonT(30)
  <2>3. cell'[c] = s
    BY <2>1
  <2> HIDE DEF s
  <2> QED
    BY <2>1, <2>2, <2>3, ZenonT(30)
<1>6. Entry(c, r).id = c /\ Entry(c, r).user = r.user /\ Entry(c, r).validated = r.validated
      /\ Entry(c, r).fd = r.fd
  BY SMTT(30) DEF Entry
<1> HIDE DEF h, q, n
<1>7. ASSUME NEW b \in Bucket, NEW k \in DOMAIN clientlist[b], clientlist[b][k].validated
      PROVE  /\ clientlist[b][k].id \in SCell /\ clientlist[b][k].id # c
             /\ \A e : e = clientlist[b][k] => Stands(e, b)'
  <2>1. Stands(clientlist[b][k], b) /\ clientlist[b][k].id \in SCell
    BY <1>1, <1>7, EntryStands, EntryTyped, ZenonT(30)
  <2>2. clientlist[b][k].id # c
    BY <1>2, <2>1, ZenonT(30) DEF Stands
  <2>3. cell'[clientlist[b][k].id] = cell[clientlist[b][k].id]
    BY <1>5, <2>1, <2>2, ZenonT(30)
  <2> QED
    BY <2>1, <2>2, <2>3, ZenonT(30) DEF Stands, IsVerified, Present
<1>8. \A e : e = Entry(c, r) /\ r.validated => Stands(e, h)'
  BY <1>2, <1>5, <1>6, ZenonT(30) DEF Stands, IsVerified, Present, h
<1>9. ASSUME NEW b \in Bucket, NEW k \in DOMAIN clientlist'[b], clientlist'[b][k].validated
      PROVE  /\ \A e : e = clientlist'[b][k] => Stands(e, b)'
             /\ \A j \in DOMAIN clientlist'[b] : j < k => clientlist'[b][j].id # clientlist'[b][k].id
  <2>1. CASE b # h
    <3>1. clientlist'[b] = clientlist[b]
      BY <1>3, <2>1, ZenonT(30)
    <3>2. EntryOwned(b, k)
      BY <1>1, <3>1, ZenonT(30) DEF EntriesOwned
    <3> QED
      BY <1>7, <1>9, <3>1, <3>2, ZenonT(30) DEF EntryOwned
  <2>2. CASE b = h /\ k = 1
    <3>1. \A j \in 1..n + 1 : ~(j < 1)
      BY <1>3, SMTT(30)
    <3> QED
      BY <1>3, <1>6, <1>8, <1>9, <2>2, <3>1, ZenonT(30)
  <2>3. ASSUME b = h, NEW p \in 1..n, k = p + 1
        PROVE  /\ \A e : e = clientlist'[b][k] => Stands(e, b)'
               /\ \A j \in DOMAIN clientlist'[b] : j < k => clientlist'[b][j].id # clientlist'[b][k].id
    <3>1. clientlist'[b][k] = clientlist[b][p] /\ p \in DOMAIN clientlist[b]
      BY <1>3, <2>3, ZenonT(30) DEF q
    <3>2. clientlist[b][p].validated
      BY <1>9, <3>1, ZenonT(30)
    <3>3. \A e : e = clientlist'[b][k] => Stands(e, b)'
      BY <1>7, <3>1, <3>2, ZenonT(30)
    <3>4. ASSUME NEW j \in 1..n + 1, j < k PROVE clientlist'[b][j].id # clientlist'[b][k].id
      <4>1. CASE j = 1
        <5>1. clientlist'[b][j].id = c
          BY <1>3, <1>6, <2>3, <4>1, ZenonT(30)
        <5>2. clientlist[b][p].id # c
          BY <1>7, <3>1, <3>2, ZenonT(30)
        <5> QED
          BY <3>1, <5>1, <5>2, ZenonT(30)
      <4>2. ASSUME NEW m \in 1..n, j = m + 1 PROVE clientlist'[b][j].id # clientlist'[b][k].id
        <5>1. m < p
          BY <1>3, <2>3, <3>4, <4>2, SMTT(30)
        <5>2. clientlist'[b][j] = clientlist[b][m] /\ m \in DOMAIN clientlist[b]
          BY <1>3, <2>3, <4>2, ZenonT(30) DEF q
        <5>3. EntryOwned(b, p)
          BY <1>1, <3>1, ZenonT(30) DEF EntriesOwned
        <5> QED
          BY <3>1, <3>2, <5>1, <5>2, <5>3, ZenonT(30) DEF EntryOwned
      <4> QED
        BY <1>3, <4>1, <4>2, PlaceBehind, ZenonT(30)
    <3> QED
      BY <1>3, <2>3, <3>3, <3>4, ZenonT(30)
  <2> QED
    BY <1>3, <1>9, <2>1, <2>2, <2>3, PlaceBehind, ZenonT(30)
<1>10. EntriesOwned'
  <2> SUFFICES ASSUME NEW b \in Bucket, NEW k \in DOMAIN clientlist'[b], clientlist'[b][k].validated
               PROVE  /\ Stands(clientlist[b][k], b)'
                      /\ \A j \in DOMAIN clientlist'[b] : j < k => clientlist'[b][j].id # clientlist'[b][k].id
    BY ZenonT(30) DEF EntriesOwned, EntryOwned
  <2> DEFINE e == clientlist'[b][k]
  <2>1. /\ \A x : x = e => Stands(x, b)'
        /\ \A j \in DOMAIN clientlist'[b] : j < k => clientlist'[b][j].id # e.id
    BY <1>9, ZenonT(30)
  <2>2. Stands(clientlist[b][k], b)' <=> \A x : x = e => Stands(x, b)'
    BY ZenonT(30) DEF Stands
  <2> QED
    BY <2>1, <2>2, ZenonT(30)
<1>11. AllEntered'
  <2> SUFFICES ASSUME NEW d \in SCell, IsVerified(d)' PROVE HasEntry(d)'
    BY ZenonT(30) DEF AllEntered
  <2>1. CASE d = c
    <3>1. 1 \in 1..n + 1
      BY <1>3, SMTT(30)
    <3>2. cell'[c].user = r.user /\ r.validated
      BY <1>5, <2>1, ZenonT(30) DEF IsVerified
    <3>3. UserHash(cell'[d].user) = h
      BY <2>1, <3>2, ZenonT(30) DEF h
    <3>4. clientlist'[h][1].id = d /\ clientlist'[h][1].validated
      BY <1>3, <1>6, <2>1, <3>2, ZenonT(30)
    <3> QED
      BY <1>3, <3>1, <3>3, <3>4, ZenonT(30) DEF HasEntry
  <2>2. CASE d # c
    <3>1. IsVerified(d) /\ cell'[d] = cell[d]
      BY <1>5, <2>2, ZenonT(30) DEF IsVerified, Present
    <3>2. PICK k \in DOMAIN clientlist[UserHash(cell[d].user)] :
            /\ clientlist[UserHash(cell[d].user)][k].id = d
            /\ clientlist[UserHash(cell[d].user)][k].validated
      BY <1>1, <3>1, ZenonT(30) DEF AllEntered, HasEntry
    <3>3. UserHash(cell[d].user) \in Bucket
      BY <1>1, CellTyped, ZenonT(30) DEF SessionTypes
    <3>4. CASE UserHash(cell[d].user) # h
      BY <1>3, <3>1, <3>2, <3>3, <3>4, ZenonT(30) DEF HasEntry
    <3>5. CASE UserHash(cell[d].user) = h
      <4>1. k \in 1..n /\ k + 1 \in 1..n + 1
        BY <1>3, <3>2, <3>5, SMTT(30) DEF q
      <4>2. clientlist'[h][k + 1].id = d /\ clientlist'[h][k + 1].validated
        BY <1>3, <3>2, <3>5, <4>1, ZenonT(30) DEF q
      <4>3. UserHash(cell'[d].user) = h
        BY <3>1, <3>5, ZenonT(30)
      <4> QED
        BY <1>3, <4>1, <4>2, <4>3, ZenonT(30) DEF HasEntry
    <3> QED
      BY <3>4, <3>5, ZenonT(30)
  <2> QED
    BY <2>1, <2>2, ZenonT(30)
<1>12. 0 \notin SFd
  BY SessionAssumption, SMTT(30)
<1>13. ASSUME NEW b \in Bucket, NEW k \in DOMAIN clientlist[b], clientlist[b][k].validated,
              Leaving(clientlist[b][k])
       PROVE  \A e : e = clientlist[b][k] => Leaving(e)'
  <2>1. cell'[clientlist[b][k].id] = cell[clientlist[b][k].id]
    BY <1>5, <1>7, <1>13, ZenonT(30)
  <2>2. clientlist[b][k].fd # 0
    BY <1>1, <1>12, <1>13, EntryTyped, ZenonT(30)
  <2>3. \A d \in SCell : cell[d].old_fd = clientlist[b][k].fd => cell'[d].old_fd = clientlist[b][k].fd
    BY <1>2, <1>5, <2>2, ZenonT(30)
  <2> QED
    BY <1>13, <2>1, <2>3, ZenonT(30) DEF Leaving
<1>14. ASSUME NEW b \in Bucket, NEW i \in DOMAIN clientlist'[b], NEW j \in DOMAIN clientlist'[b],
              i < j, clientlist'[b][i].user = clientlist'[b][j].user,
              clientlist'[b][i].validated, clientlist'[b][j].validated
       PROVE  \A e : e = clientlist'[b][j] => Leaving(e)'
  <2>1. CASE b # h
    <3>1. clientlist'[b] = clientlist[b]
      BY <1>3, <2>1, ZenonT(30)
    <3>2. Leaving(clientlist[b][j])
      BY <1>1, <1>14, <3>1, ZenonT(30) DEF OnlyNewestStands
    <3> QED
      BY <1>13, <1>14, <3>1, <3>2, ZenonT(30)
  <2>2. CASE b = h
    <3>1. PICK p \in 1..n : j = p + 1
      <4>1. i \in 1..n + 1 /\ j \in 1..n + 1
        BY <1>3, <2>2, ZenonT(30)
      <4>2. j # 1
        BY <1>3, <1>14, <4>1, SMTT(30)
      <4> QED
        BY <1>3, <4>1, <4>2, PlaceBehind, ZenonT(30)
    <3>2. clientlist'[b][j] = clientlist[b][p] /\ p \in DOMAIN clientlist[b]
      BY <1>3, <2>2, <3>1, ZenonT(30) DEF q
    <3>3. CASE i = 1
      <4>1. r.validated /\ clientlist[b][p].user = r.user /\ clientlist[b][p].validated
        BY <1>3, <1>6, <1>14, <2>2, <3>2, <3>3, ZenonT(30)
      <4>2. Hit(r.user, p)
        BY <2>2, <3>2, <4>1, ZenonT(30) DEF Hit, h
      <4>3. PICK m : /\ Hit(r.user, m) /\ m <= p
                     /\ check_if_validated_client(clientlist, r.user) = clientlist[h][m].fd
        BY <1>1, <1>4, <4>2, LookupValue, ZenonT(30) DEF h
      <4>4. CASE m = p
        <5>1. cell'[c].old_fd = clientlist[b][p].fd
          BY <1>5, <2>2, <4>1, <4>3, <4>4, ZenonT(30)
        <5> QED
          BY <3>2, <5>1, ZenonT(30) DEF Leaving
      <4>5. CASE m # p
        <5>1. m \in DOMAIN clientlist[b] /\ clientlist[b][m].user = r.user /\ clientlist[b][m].validated
          BY <2>2, <4>3, ZenonT(30) DEF Hit, h
        <5>2. m \in Nat
          BY <1>1, <5>1, EntryTyped, ZenonT(30)
        <5>3. m < p
          BY <4>3, <4>5, <5>2, SMTT(30)
        <5>4. Leaving(clientlist[b][p])
          BY <1>1, <3>2, <4>1, <5>1, <5>3, ZenonT(30) DEF OnlyNewestStands
        <5> QED
          BY <1>13, <3>2, <4>1, <5>4, ZenonT(30)
      <4> QED
        BY <4>4, <4>5, ZenonT(30)
    <3>4. CASE i # 1
      <4>1. PICK m \in 1..n : i = m + 1
        BY <1>3, <2>2, <3>4, PlaceBehind, ZenonT(30)
      <4>2. clientlist'[b][i] = clientlist[b][m] /\ m \in DOMAIN clientlist[b]
        BY <1>3, <2>2, <4>1, ZenonT(30) DEF q
      <4>3. m < p
        BY <1>14, <3>1, <4>1, SMTT(30)
      <4>4. Leaving(clientlist[b][p]) /\ clientlist[b][p].validated
        BY <1>1, <1>14, <3>2, <4>2, <4>3, ZenonT(30) DEF OnlyNewestStands
      <4> QED
        BY <1>13, <3>2, <4>4, ZenonT(30)
    <3> QED
      BY <3>3, <3>4, ZenonT(30)
  <2> QED
    BY <2>1, <2>2, ZenonT(30)
<1>15. OnlyNewestStands'
  <2> SUFFICES ASSUME NEW b \in Bucket, NEW i \in DOMAIN clientlist'[b], NEW j \in DOMAIN clientlist'[b],
                      i < j, clientlist'[b][i].user = clientlist'[b][j].user,
                      clientlist'[b][i].validated, clientlist'[b][j].validated
               PROVE  Leaving(clientlist[b][j])'
    BY ZenonT(30) DEF OnlyNewestStands
  <2> QED
    BY <1>14, ZenonT(30) DEF Leaving
<1> QED
  BY <1>10, <1>11, <1>15, ZenonT(30)

(* The lists without the entry of a client: what is left of them is in the *)
(* old order, and only entries of the client are gone (clientlist_remove). *)
LessAt(c, at) ==
    \A b \in Bucket :
      /\ \A k \in DOMAIN clientlist'[b] :
           /\ at[b][k] \in DOMAIN clientlist[b] /\ clientlist'[b][k] = clientlist[b][at[b][k]]
           /\ clientlist'[b][k].validated => clientlist'[b][k].id # c
      /\ \A j, k \in DOMAIN clientlist'[b] : j < k => at[b][j] < at[b][k]
      /\ \A k \in DOMAIN clientlist[b] :
           clientlist[b][k].id # c => \E j \in DOMAIN clientlist'[b] : at[b][j] = k
ListsLess(c) == \E at \in [Bucket -> [Nat -> Nat]] : LessAt(c, at)

(* That is what removing the first entry with the client's id achieves. *)
LEMMA RemovedLess ==
    ASSUME SessionTypes, EntriesOwned, NEW c \in SCell,
           clientlist' = clientlist_remove(clientlist, c, cell[c])
    PROVE  ListsLess(c) /\ clientlist' \in [Bucket -> Seq(EntryRec)]
<1> DEFINE h == UserHash(cell[c].user)
           q == clientlist[h]
           own == {k \in DOMAIN q : q[k].id = c}
           n == First(own)
           id == [b \in Bucket |-> [k \in Nat |-> k]]
<1>1. h \in Bucket
  BY CellTyped, ZenonT(30) DEF SessionTypes
<1>2. q \in Seq(EntryRec) /\ clientlist \in [Bucket -> Seq(EntryRec)]
  BY <1>1, ZenonT(30) DEF SessionTypes
<1>3. ASSUME NEW b \in Bucket, NEW k \in DOMAIN clientlist[b], clientlist[b][k].validated,
             clientlist[b][k].id = c
      PROVE  b = h /\ k \in own /\ \A j \in own : ~(j < k)
  <2>1. EntryOwned(b, k)
    BY <1>3, ZenonT(30) DEF EntriesOwned
  <2> QED
    BY <1>3, <2>1, ZenonT(30) DEF EntryOwned, Stands
<1>4. \A b \in Bucket : DOMAIN clientlist[b] \subseteq Nat
  BY EntryTyped, ZenonT(30)
<1>5. CASE own = {}
  <2>1. clientlist' = clientlist
    BY <1>5, ZenonT(30) DEF clientlist_remove
  <2>2. \A b \in Bucket : \A k \in DOMAIN clientlist[b] :
          clientlist[b][k].validated => clientlist[b][k].id # c
    BY <1>3, <1>5, ZenonT(30)
  <2>3. id \in [Bucket -> [Nat -> Nat]]
    BY ZenonT(30)
  <2>4. \A b \in Bucket : \A k \in DOMAIN clientlist[b] : id[b][k] = k
    BY <1>4, ZenonT(30)
  <2> HIDE DEF id
  <2>5. ListsLess(c)
    <3>1. LessAt(c, id)
      BY <2>1, <2>2, <2>4, ZenonT(30) DEF LessAt
    <3> QED
      BY <2>3, <3>1, ZenonT(30) DEF ListsLess
  <2> QED
    BY <1>2, <2>1, <2>5, ZenonT(30)
<1>6. CASE own # {}
  <2>1. clientlist' = [clientlist EXCEPT ![h] = Without(q, n)]
    BY <1>1, <1>2, <1>6, ZenonT(30) DEF clientlist_remove
  <2>2. own \in SUBSET Nat
    BY <1>1, <1>4, ZenonT(30)
  <2>3. n \in own /\ \A m \in own : n <= m
    <3> HIDE DEF own
    <3> QED
      BY <1>6, <2>2, FirstIs, ZenonT(30)
  <2> DEFINE t == Without(q, n)
             f == [k \in Nat |-> IF k < n THEN k ELSE k + 1]
             at == [id EXCEPT ![h] = f]
  <2>4. n \in DOMAIN q /\ q[n].id = c /\ n \in Nat
    BY <2>2, <2>3, ZenonT(30)
  <2>5. f \in [Nat -> Nat] /\ \A k \in Nat : f[k] = IF k < n THEN k ELSE k + 1
    <3> HIDE DEF n
    <3>1. \A k \in Nat : (IF k < n THEN k ELSE k + 1) \in Nat
      BY <2>4, SMTT(30)
    <3> QED
      BY <3>1, ZenonT(30)
  <2>6. /\ t \in Seq(EntryRec) /\ DOMAIN t \subseteq Nat /\ DOMAIN q \subseteq Nat
        /\ \A k \in DOMAIN t : f[k] \in DOMAIN q /\ t[k] = q[f[k]]
        /\ \A j, k \in DOMAIN t : j < k => f[j] < f[k]
        /\ \A k \in DOMAIN q : k # n => \E j \in DOMAIN t : f[j] = k
    <3> HIDE DEF q, n
    <3>1. LessOne(EntryRec, q, n, t)
      BY <1>2, <2>4, EntryWithout, ZenonT(30)
    <3> HIDE DEF t, f
    <3>2. \A k \in DOMAIN t : f[k] = IF k < n THEN k ELSE k + 1
      BY <2>5, <3>1, ZenonT(30) DEF LessOne
    <3>3. t \in Seq(EntryRec) /\ DOMAIN t \subseteq Nat /\ DOMAIN q \subseteq Nat
      BY <3>1, ZenonT(30) DEF LessOne
    <3>4. \A k \in DOMAIN t : f[k] \in DOMAIN q /\ t[k] = q[f[k]]
      BY <3>1, <3>2, ZenonT(30) DEF LessOne
    <3>5. ASSUME NEW j \in DOMAIN t, NEW k \in DOMAIN t, j < k PROVE f[j] < f[k]
      <4>1. (IF j < n THEN j ELSE j + 1) < (IF k < n THEN k ELSE k + 1)
        BY <3>1, <3>5, ZenonT(30) DEF LessOne
      <4> QED
        BY <3>2, <4>1, ZenonT(30)
    <3>6. ASSUME NEW k \in DOMAIN q, k # n PROVE \E j \in DOMAIN t : f[j] = k
      <4>1. PICK j \in DOMAIN t : (IF j < n THEN j ELSE j + 1) = k
        BY <3>1, <3>6, ZenonT(30) DEF LessOne
      <4>2. f[j] = k
        BY <3>2, <4>1, ZenonT(30)
      <4> QED
        BY <4>2, ZenonT(30)
    <3> QED
      BY <3>3, <3>4, <3>5, <3>6, ZenonT(30)
  <2>7. at \in [Bucket -> [Nat -> Nat]] /\ at[h] = f /\ \A b \in Bucket : b # h => at[b] = id[b]
    BY <1>1, <2>5, ZenonT(30)
  <2>8. clientlist'[h] = t /\ (\A b \in Bucket : b # h => clientlist'[b] = clientlist[b])
        /\ clientlist' \in [Bucket -> Seq(EntryRec)]
    BY <1>1, <1>2, <2>1, <2>6, ZenonT(30)
  <2>9. \A b \in Bucket : \A k \in DOMAIN clientlist[b] : id[b][k] = k
    BY <1>4, ZenonT(30)
  <2>10. \A k \in DOMAIN t : f[k] # n
    <3> HIDE DEF t
    <3>1. \A k \in DOMAIN t : k \in Nat /\ f[k] = IF k < n THEN k ELSE k + 1
      BY <2>5, <2>6, ZenonT(30)
    <3> HIDE DEF f, n
    <3> QED
      BY <2>4, <3>1, SMTT(30)
  <2>11. \A k \in DOMAIN t : t[k].validated => t[k].id # c
    <3> SUFFICES ASSUME NEW k \in DOMAIN t, t[k].validated, t[k].id = c PROVE FALSE
      BY ZenonT(30)
    <3>1. f[k] \in DOMAIN clientlist[h] /\ clientlist[h][f[k]].validated /\ clientlist[h][f[k]].id = c
      BY <2>6, ZenonT(30)
    <3>2. f[k] \in own /\ ~(n < f[k])
      BY <1>1, <1>3, <2>3, <3>1, ZenonT(30)
    <3>3. n <= f[k] /\ f[k] \in Nat
      BY <2>2, <2>3, <3>2, ZenonT(30)
    <3>4. f[k] = n
      <4> HIDE DEF f, n
      <4> QED
        BY <2>4, <3>2, <3>3, SMTT(30)
    <3> QED
      BY <2>10, <3>4, ZenonT(30)
  <2> HIDE DEF at, f, t, id
  <2>12. ASSUME NEW b \in Bucket
         PROVE  /\ \A k \in DOMAIN clientlist'[b] :
                     /\ at[b][k] \in DOMAIN clientlist[b] /\ clientlist'[b][k] = clientlist[b][at[b][k]]
                     /\ clientlist'[b][k].validated => clientlist'[b][k].id # c
                /\ \A j, k \in DOMAIN clientlist'[b] : j < k => at[b][j] < at[b][k]
                /\ \A k \in DOMAIN clientlist[b] :
                     clientlist[b][k].id # c => \E j \in DOMAIN clientlist'[b] : at[b][j] = k
    <3>1. CASE b = h
      BY <2>4, <2>6, <2>7, <2>8, <2>11, <3>1, ZenonT(30)
    <3>2. CASE b # h
      <4>1. clientlist'[b] = clientlist[b] /\ \A k \in DOMAIN clientlist[b] : at[b][k] = k
        BY <2>7, <2>8, <2>9, <3>2, ZenonT(30)
      <4> QED
        BY <1>3, <3>2, <4>1, ZenonT(30)
    <3> QED
      BY <3>1, <3>2, ZenonT(30)
  <2>13. ListsLess(c)
    BY <2>7, <2>12, ZenonT(30) DEF ListsLess, LessAt
  <2> QED
    BY <2>8, <2>13, ZenonT(30)
<1> QED
  BY <1>5, <1>6, ZenonT(30)

(* Freeing a client keeps the entries of the others true and in order, and *)
(* leaves no validated one of its own (client_close, clientlist_remove).   *)
LEMMA RemoveEntry ==
    ASSUME SessionIInv, NEW c \in SCell, FreeClient(c)
    PROVE  EntriesOwned' /\ AllEntered' /\ OnlyNewestStands'
<1>1. SessionTypes /\ EntriesOwned /\ AllEntered /\ OnlyNewestStands
  BY ZenonT(30) DEF SessionIInv
<1>2. clientlist' = clientlist_remove(clientlist, c, cell[c]) /\ sock' = sock
  BY ZenonT(30) DEF FreeClient
<1>3. cell'[c] = NoClient /\ \A d \in SCell : d # c => cell'[d] = cell[d]
  BY <1>1, ZenonT(30) DEF FreeClient, SessionTypes
<1>4. cell[c].old_fd = 0
  BY ZenonT(30) DEF SessionIInv, OldFds, FreeClient
<1>5. PICK at \in [Bucket -> [Nat -> Nat]] : \A b \in Bucket :
        /\ \A k \in DOMAIN clientlist'[b] :
             /\ at[b][k] \in DOMAIN clientlist[b] /\ clientlist'[b][k] = clientlist[b][at[b][k]]
             /\ clientlist'[b][k].validated => clientlist'[b][k].id # c
        /\ \A j, k \in DOMAIN clientlist'[b] : j < k => at[b][j] < at[b][k]
        /\ \A k \in DOMAIN clientlist[b] :
             clientlist[b][k].id # c => \E j \in DOMAIN clientlist'[b] : at[b][j] = k
  BY <1>1, <1>2, RemovedLess, ZenonT(30) DEF ListsLess, LessAt
<1>6. ASSUME NEW b \in Bucket, NEW k \in DOMAIN clientlist'[b], clientlist'[b][k].validated
      PROVE  /\ \A e : e = clientlist'[b][k] => Stands(e, b)'
             /\ \A j \in DOMAIN clientlist'[b] : j < k => clientlist'[b][j].id # clientlist'[b][k].id
  <2> DEFINE p == at[b][k]
  <2>1. p \in DOMAIN clientlist[b] /\ clientlist'[b][k] = clientlist[b][p] /\ clientlist[b][p].id # c
        /\ clientlist[b][p].validated
    <3>1. /\ p \in DOMAIN clientlist[b] /\ clientlist'[b][k] = clientlist[b][p]
          /\ clientlist'[b][k].validated => clientlist'[b][k].id # c
      BY <1>5, ZenonT(30)
    <3> QED
      BY <1>6, <3>1, ZenonT(30)
  <2> HIDE DEF p
  <2>2. EntryOwned(b, p) /\ clientlist[b][p].id \in SCell
    BY <1>1, <2>1, EntryTyped, ZenonT(30) DEF EntriesOwned
  <2>3. Stands(clientlist[b][p], b) /\ cell'[clientlist[b][p].id] = cell[clientlist[b][p].id]
    BY <1>3, <2>1, <2>2, ZenonT(30) DEF EntryOwned
  <2>4. \A e : e = clientlist'[b][k] => Stands(e, b)'
    BY <2>1, <2>3, ZenonT(30) DEF Stands, IsVerified, Present
  <2>5. \A j \in DOMAIN clientlist'[b] : j < k => clientlist'[b][j].id # clientlist'[b][k].id
    <3> SUFFICES ASSUME NEW j \in DOMAIN clientlist'[b], j < k
                 PROVE  clientlist'[b][j].id # clientlist'[b][k].id
      BY ZenonT(30)
    <3>1. at[b][j] < p /\ at[b][j] \in DOMAIN clientlist[b] /\ clientlist'[b][j] = clientlist[b][at[b][j]]
      BY <1>5, ZenonT(30) DEF p
    <3>2. clientlist[b][at[b][j]].id # clientlist[b][p].id
      BY <2>1, <2>2, <3>1, ZenonT(30) DEF EntryOwned
    <3> QED
      BY <2>1, <3>1, <3>2, ZenonT(30)
  <2> QED
    BY <2>4, <2>5, ZenonT(30)
<1>7. EntriesOwned'
  <2> SUFFICES ASSUME NEW b \in Bucket, NEW k \in DOMAIN clientlist'[b], clientlist'[b][k].validated
               PROVE  /\ Stands(clientlist[b][k], b)'
                      /\ \A j \in DOMAIN clientlist'[b] : j < k => clientlist'[b][j].id # clientlist'[b][k].id
    BY ZenonT(30) DEF EntriesOwned, EntryOwned
  <2> DEFINE e == clientlist'[b][k]
  <2>1. /\ \A x : x = e => Stands(x, b)'
        /\ \A j \in DOMAIN clientlist'[b] : j < k => clientlist'[b][j].id # e.id
    BY <1>6, ZenonT(30)
  <2>2. Stands(clientlist[b][k], b)' <=> \A x : x = e => Stands(x, b)'
    BY ZenonT(30) DEF Stands
  <2> QED
    BY <2>1, <2>2, ZenonT(30)
<1>8. AllEntered'
  <2> SUFFICES ASSUME NEW d \in SCell, IsVerified(d)' PROVE HasEntry(d)'
    BY ZenonT(30) DEF AllEntered
  <2>1. d # c
    <3>1. NoClient.st = "free"
      BY SMTT(30) DEF NoClient
    <3> QED
      BY <1>3, <3>1, ZenonT(30) DEF IsVerified, Present
  <2>2. IsVerified(d) /\ cell'[d] = cell[d]
    BY <1>3, <2>1, ZenonT(30) DEF IsVerified, Present
  <2> DEFINE b == UserHash(cell[d].user)
  <2>3. PICK k \in DOMAIN clientlist[b] : clientlist[b][k].id = d /\ clientlist[b][k].validated
    BY <1>1, <2>2, ZenonT(30) DEF AllEntered, HasEntry
  <2>4. b \in Bucket
    BY <1>1, CellTyped, ZenonT(30) DEF SessionTypes
  <2> HIDE DEF b
  <2>5. PICK j \in DOMAIN clientlist'[b] : at[b][j] = k
    BY <1>5, <2>1, <2>3, <2>4, ZenonT(30)
  <2>6. clientlist'[b][j] = clientlist[b][k]
    BY <1>5, <2>4, <2>5, ZenonT(30)
  <2> QED
    BY <2>2, <2>3, <2>6, ZenonT(30) DEF HasEntry, b
<1>9. 0 \notin SFd
  BY SessionAssumption, SMTT(30)
<1>10. OnlyNewestStands'
  <2> SUFFICES ASSUME NEW b \in Bucket, NEW i \in DOMAIN clientlist'[b], NEW j \in DOMAIN clientlist'[b],
                      i < j, clientlist'[b][i].user = clientlist'[b][j].user,
                      clientlist'[b][i].validated, clientlist'[b][j].validated
               PROVE  Leaving(clientlist[b][j])'
    BY ZenonT(30) DEF OnlyNewestStands
  <2> DEFINE m == at[b][i]
             p == at[b][j]
  <2>1. /\ m \in DOMAIN clientlist[b] /\ clientlist'[b][i] = clientlist[b][m]
        /\ p \in DOMAIN clientlist[b] /\ clientlist'[b][j] = clientlist[b][p]
        /\ m < p /\ clientlist[b][p].id # c
    BY <1>5, ZenonT(30)
  <2> HIDE DEF m, p
  <2>2. Leaving(clientlist[b][p])
    BY <1>1, <2>1, ZenonT(30) DEF OnlyNewestStands
  <2>3. clientlist[b][p].id \in SCell /\ clientlist[b][p].fd # 0
    BY <1>1, <1>9, <2>1, EntryTyped, ZenonT(30)
  <2>4. cell'[clientlist[b][p].id] = cell[clientlist[b][p].id]
    BY <1>3, <2>1, <2>3, ZenonT(30)
  <2>5. \A d \in SCell : cell[d].old_fd = clientlist[b][p].fd => cell'[d].old_fd = clientlist[b][p].fd
    BY <1>3, <1>4, <2>3, ZenonT(30)
  <2> QED
    BY <1>2, <2>1, <2>2, <2>4, <2>5, ZenonT(30) DEF Leaving
<1> QED
  BY <1>7, <1>8, <1>10, ZenonT(30)
-----------------------------------------------------------------------------
(* The part of the invariant that does not speak of the client list. *)
OwnersInv ==
    /\ SessionTypes /\ FdsApart /\ OldFds /\ PlainUnverified
    /\ DumpApart /\ DumpTrue /\ ClosedFree /\ RivalsFound

(* A client that keeps its socket changes to s, by a step of its worker. *)
SameSocket(c, s) ==
    /\ s \in ClientRec /\ s.st \in {"queued", "live", "close"} /\ s.fd = cell[c].fd
    /\ s.st = "queued" => s.old_fd = 0
    /\ ~s.tls => s.cert = NoUser /\ (s.phase = "login" => s.st = "close" \/ ~s.validated)
    /\ IsVerified(c) => s.phase = "connected" /\ s.validated /\ s.user = cell[c].user

(* Sockets may be shut down meanwhile but are neither opened nor closed. *)
NoSocketTaken ==
    /\ sock' \in [SFd -> {"free", "open", "shut"}]
    /\ \A f \in SFd : sock'[f] = "free" <=> sock[f] = "free"

(* Such a step keeps descriptors apart (login, shutdown, collection). *)
LEMMA SameOwner ==
    ASSUME SessionIInv, NEW c \in SCell, NEW s, Owns(c), SameSocket(c, s), SetCell(c, s), NoSocketTaken,
           clientlist' \in [Bucket -> Seq(EntryRec)], UNCHANGED <<dump, before, scenario>>
    PROVE  OwnersInv'
<1>1. SessionTypes /\ FdsApart /\ OldFds /\ PlainUnverified /\ DumpApart /\ DumpTrue /\ ClosedFree /\ RivalsFound
  BY ZenonT(30) DEF SessionIInv
<1>2. cell' \in [SCell -> ClientRec] /\ cell'[c] = s /\ \A d \in SCell : d # c => cell'[d] = cell[d]
  BY <1>1, OneCell, ZenonT(30) DEF SessionTypes, SameSocket
<1>3. \A d \in SCell : cell'[d].fd = cell[d].fd /\ (Owns(d)' <=> Owns(d)) /\ (Present(d)' <=> Present(d))
                       /\ (cell'[d].st = "closing" <=> cell[d].st = "closing")
  BY <1>2, ZenonT(30) DEF SameSocket, Owns, Present
<1>4. \A d \in SCell : Owns(d) => cell[d].fd \in SFd
  BY <1>1, ZenonT(30) DEF SessionTypes, Owns, Present
<1>5. SessionTypes'
  BY <1>1, <1>2, <1>3, ZenonT(30) DEF SessionTypes, NoSocketTaken
<1>6. FdsApart'
  <2> SUFFICES ASSUME NEW d \in SCell, Owns(d)'
               PROVE  /\ sock'[cell'[d].fd] # "free"
                      /\ \A e \in SCell : Owns(e)' /\ cell'[e].fd = cell'[d].fd => e = d
    BY ZenonT(30) DEF FdsApart
  <2>1. Owns(d) /\ cell'[d].fd = cell[d].fd /\ cell[d].fd \in SFd
    BY <1>3, <1>4, ZenonT(30)
  <2>2. sock[cell[d].fd] # "free" /\ \A e \in SCell : Owns(e) /\ cell[e].fd = cell[d].fd => e = d
    BY <1>1, <2>1, ZenonT(30) DEF FdsApart
  <2>3. sock'[cell[d].fd] # "free"
    BY <2>1, <2>2, ZenonT(30) DEF NoSocketTaken
  <2> QED
    BY <1>3, <2>1, <2>2, <2>3, ZenonT(30)
<1>7. OldFds'
  BY <1>1, <1>2, ZenonT(30) DEF OldFds, SameSocket
<1>8. PlainUnverified'
  BY <1>1, <1>2, ZenonT(30) DEF PlainUnverified, SameSocket
<1>9. \A d \in dump : d.fd \in SFd
  BY <1>1, SMTT(30) DEF SessionTypes, DumpRec
<1>10. DumpApart'
  <2> SUFFICES ASSUME NEW d \in dump
               PROVE  /\ sock'[d.fd] # "free" /\ (d.phase = "login" => ~d.validated)
                      /\ \A x \in SCell : Owns(x)' => cell'[x].fd # d.fd
                      /\ \A e \in dump : e.fd = d.fd => e = d
    BY ZenonT(30) DEF DumpApart
  <2>1. /\ sock[d.fd] # "free" /\ (d.phase = "login" => ~d.validated)
        /\ \A x \in SCell : Owns(x) => cell[x].fd # d.fd
        /\ \A e \in dump : e.fd = d.fd => e = d
    BY <1>1, ZenonT(30) DEF DumpApart
  <2>2. sock'[d.fd] # "free"
    BY <1>9, <2>1, ZenonT(30) DEF NoSocketTaken
  <2> QED
    BY <1>3, <2>1, <2>2, ZenonT(30)
<1>11. DumpTrue'
  BY <1>1, ZenonT(30) DEF DumpTrue
<1>12. \A d \in SCell : Entering(d)' => d # c /\ cell'[d] = cell[d] /\ Entering(d)
  BY <1>2, ZenonT(30) DEF Entering, SameSocket
<1>13. ClosedFree'
  <2>1. ~AcceptIdle' => ~AcceptIdle
    BY <1>12, ZenonT(30) DEF AcceptIdle
  <2>2. \A d \in SCell : cell[d].st = "closing" => cell[d].fd \in SFd
    BY <1>1, ZenonT(30) DEF SessionTypes, Present
  <2> QED
    BY <1>1, <1>3, <2>1, <2>2, ZenonT(30) DEF ClosedFree, NoSocketTaken
<1>14. RivalsFound'
  <2> SUFFICES ASSUME NEW d \in SCell, Entering(d)' PROVE RivalFound(d)'
    BY ZenonT(30) DEF RivalsFound
  <2>1. d # c /\ cell'[d] = cell[d] /\ Entering(d)
    BY <1>12, ZenonT(30)
  <2>2. cell[d].old_fd \in SFd
    BY <1>1, <2>1, CellTyped, ZenonT(30) DEF Entering, SessionTypes
  <2>3. CASE sock[cell[d].old_fd] = "free"
    BY <2>1, <2>2, <2>3, ZenonT(30) DEF RivalFound, NoSocketTaken
  <2>4. ASSUME NEW e \in SCell, e # d, IsVerified(e), Owns(e), cell[e].user = cell[d].user,
               cell[e].fd = cell[d].old_fd
        PROVE  RivalFound(d)'
    <3>1. IsVerified(e)' /\ cell'[e].user = cell[e].user
      <4>1. CASE e = c
        BY <1>2, <2>4, <4>1, ZenonT(30) DEF SameSocket, IsVerified, Present
      <4>2. CASE e # c
        BY <1>2, <2>4, <4>2, ZenonT(30) DEF IsVerified, Present
      <4> QED
        BY <4>1, <4>2, ZenonT(30)
    <3> QED
      BY <1>3, <2>1, <2>4, <3>1, ZenonT(30) DEF RivalFound
  <2>5. RivalFound(d)
    BY <1>1, <2>1, ZenonT(30) DEF RivalsFound
  <2> QED
    BY <2>3, <2>4, <2>5, ZenonT(30) DEF RivalFound
<1> QED
  BY <1>5, <1>6, <1>7, <1>8, <1>10, <1>11, <1>13, <1>14, ZenonT(30) DEF OwnersInv

(* Login lines, whether they log in or not (login_handler). *)
LEMMA LoginKeeps ==
    ASSUME SessionIInv, NEW c \in SCell, Login(c)
    PROVE  SessionIInv'
<1>1. SessionTypes /\ PlainUnverified
  BY ZenonT(30) DEF SessionIInv
<1> DEFINE r == cell[c]
<1>2. r \in ClientRec /\ r.st = "live" /\ r.phase = "login" /\ r.old_fd = 0
  BY <1>1, CellTyped, ZenonT(30) DEF SessionTypes, Login
<1>3. ~r.tls => r.cert = NoUser /\ ~r.validated
  BY <1>1, <1>2, ZenonT(30) DEF PlainUnverified
<1>4. PICK line \in scenario.lines :
        LET s == LoginResult(r, line).r
        IN  \/ s.phase = "connected" /\ LoginAdded(c, s)
            \/ SetCell(c, [s EXCEPT !.phase = "login", !.st = "close"]) /\ clientlist' = clientlist
               /\ s.phase = "connected"
            \/ SetCell(c, s) /\ clientlist' = clientlist /\ s.phase = "login"
  BY ZenonT(30) DEF Login, SetCell
<1>5. line \in LoginLine
  BY <1>1, SessionAssumption, ZenonT(30) DEF SessionTypes
<1> DEFINE s == LoginResult(r, line).r
<1>6. LoginShape(r, s)
  BY <1>2, <1>3, <1>5, LoginGives, ZenonT(30)
<1> HIDE DEF s
<1>7. sock' = sock /\ UNCHANGED <<dump, before, scenario>>
  BY ZenonT(30) DEF Login, upgradeVars
<1>8. NoSocketTaken
  BY <1>1, <1>7, ZenonT(30) DEF NoSocketTaken, SessionTypes
<1>9. Owns(c) /\ ~IsVerified(c) /\ r.fd \in SFd
  BY <1>1, <1>2, ZenonT(30) DEF Owns, IsVerified, SessionTypes, Present
<1>10. s \in ClientRec /\ s.fd = r.fd /\ s.old_fd = 0 /\ s.tls = r.tls /\ s.cert = r.cert
       /\ s.st \in {"live", "close"} /\ (s.phase = "connected" => s.st = "live")
       /\ (s.phase = "login" /\ ~s.tls => ~s.validated)
  BY <1>2, <1>6, ZenonT(30) DEF LoginShape
<1>11. CASE s.phase = "connected" /\ LoginAdded(c, s)
  <2>1. MayEnter(c, s)
    BY <1>2, <1>9, <1>10, <1>11, ZenonT(30) DEF MayEnter
  <2>2. EntriesOwned' /\ AllEntered' /\ OnlyNewestStands'
    BY <1>7, <1>11, <2>1, AddEntry, ZenonT(30)
  <2> DEFINE a == AddedCell(c, s)
  <2>3. a \in ClientRec /\ SetCell(c, a) /\ a.st = s.st /\ a.phase = s.phase /\ a.fd = s.fd /\ a.tls = s.tls
        /\ a.cert = s.cert
    BY <1>11, <2>1, AddedFields, ZenonT(30)
  <2> HIDE DEF a
  <2>4. SameSocket(c, a)
    BY <1>3, <1>9, <1>10, <1>11, <2>3, ZenonT(30) DEF SameSocket
  <2>5. clientlist' \in [Bucket -> Seq(EntryRec)]
    BY <1>1, <1>9, <1>10, <1>11, AddedList, ZenonT(30)
  <2>6. OwnersInv'
    BY <1>7, <1>8, <1>9, <2>3, <2>4, <2>5, SameOwner, ZenonT(30)
  <2> QED
    BY <2>2, <2>6, ZenonT(30) DEF SessionIInv, OwnersInv
<1>12. ASSUME NEW t, SameSocket(c, t), t.phase = "login", t.old_fd = 0, SetCell(c, t), clientlist' = clientlist
       PROVE  SessionIInv'
  <2>1. cell'[c] = t /\ \A d \in SCell : d # c => cell'[d] = cell[d]
    BY <1>1, <1>12, OneCell, ZenonT(30) DEF SessionTypes, SameSocket
  <2>2. ~IsVerified(c)'
    BY <1>12, <2>1, ZenonT(30) DEF IsVerified
  <2>3. \A d \in SCell : /\ IsVerified(d)' <=> IsVerified(d)
                         /\ IsVerified(d) => cell'[d].user = cell[d].user /\ cell'[d].fd = cell[d].fd
    BY <1>9, <2>1, <2>2, ZenonT(30) DEF IsVerified, Present
  <2>4. EntriesOwned' /\ AllEntered'
    BY <1>12, <2>3, QuietList, ZenonT(30)
  <2>5. \A b \in Bucket : \A e \in EntryRec : Stands(e, b) /\ Leaving(e) => Leaving(e)'
    <3> SUFFICES ASSUME NEW b \in Bucket, NEW e \in EntryRec, Stands(e, b), Leaving(e) PROVE Leaving(e)'
      BY ZenonT(30)
    <3>1. e.id \in SCell /\ e.id # c
      <4>1. e.id \in SCell
        BY SMTT(30) DEF EntryRec
      <4> QED
        BY <1>9, <4>1, ZenonT(30) DEF Stands
    <3>2. \A d \in SCell : cell'[d].old_fd = cell[d].old_fd
      BY <1>2, <1>12, <2>1, ZenonT(30)
    <3> QED
      BY <1>7, <2>1, <3>1, <3>2, ZenonT(30) DEF Leaving
  <2>6. OnlyNewestStands'
    BY <1>12, <2>5, QuietNewest, ZenonT(30)
  <2>7. clientlist' \in [Bucket -> Seq(EntryRec)]
    BY <1>1, <1>12, ZenonT(30) DEF SessionTypes
  <2>8. OwnersInv'
    BY <1>7, <1>8, <1>9, <1>12, <2>7, SameOwner, ZenonT(30)
  <2> QED
    BY <2>4, <2>6, <2>8, ZenonT(30) DEF SessionIInv, OwnersInv
<1>13. CASE SetCell(c, s) /\ clientlist' = clientlist /\ s.phase = "login"
  <2>1. SameSocket(c, s)
    BY <1>3, <1>9, <1>10, <1>13, ZenonT(30) DEF SameSocket
  <2> QED
    BY <1>10, <1>12, <1>13, <2>1, ZenonT(30)
<1> DEFINE t == [s EXCEPT !.phase = "login", !.st = "close"]
<1>14. CASE SetCell(c, t) /\ clientlist' = clientlist /\ s.phase = "connected"
  <2>1. t \in ClientRec
    BY <1>10, ZenonT(30) DEF ClientRec, Phase
  <2>2. /\ t.phase = "login" /\ t.st = "close" /\ t.fd = s.fd /\ t.old_fd = s.old_fd /\ t.tls = s.tls
        /\ t.cert = s.cert /\ t.validated = s.validated
    BY <1>10, SMTT(30) DEF ClientRec
  <2> HIDE DEF t
  <2>3. SameSocket(c, t)
    BY <1>3, <1>9, <1>10, <2>1, <2>2, ZenonT(30) DEF SameSocket
  <2> QED
    BY <1>10, <1>12, <1>14, <2>2, <2>3, ZenonT(30)
<1> QED
  BY <1>4, <1>11, <1>13, <1>14, ZenonT(30) DEF s

(* A step of a client that changes neither its entry nor what it shows to  *)
(* others but lets go of an older rival only when that one is shut down.   *)
LEMMA QuietSessions ==
    ASSUME SessionIInv, NEW c \in SCell, NEW s, Owns(c), SameSocket(c, s), SetCell(c, s), NoSocketTaken,
           s.phase = cell[c].phase, s.validated = cell[c].validated, s.user = cell[c].user,
           clientlist' = clientlist, UNCHANGED <<dump, before, scenario>>,
           \A f \in SFd : sock[f] = "shut" => sock'[f] = "shut",
           s.old_fd = cell[c].old_fd \/ sock[cell[c].old_fd] = "free" \/ sock'[cell[c].old_fd] = "shut"
    PROVE  SessionIInv'
<1>1. SessionTypes /\ FdsApart
  BY ZenonT(30) DEF SessionIInv
<1>2. cell'[c] = s /\ \A d \in SCell : d # c => cell'[d] = cell[d]
  BY <1>1, OneCell, ZenonT(30) DEF SessionTypes, SameSocket
<1>3. \A d \in SCell : /\ IsVerified(d)' <=> IsVerified(d)
                       /\ IsVerified(d) => cell'[d].user = cell[d].user /\ cell'[d].fd = cell[d].fd
  BY <1>2, ZenonT(30) DEF IsVerified, Present, SameSocket, Owns
<1>4. EntriesOwned' /\ AllEntered'
  BY <1>3, QuietList, ZenonT(30)
<1>5. \A b \in Bucket : \A e \in EntryRec : Stands(e, b) /\ Leaving(e) => Leaving(e)'
  <2> SUFFICES ASSUME NEW b \in Bucket, NEW e \in EntryRec, Stands(e, b), Leaving(e) PROVE Leaving(e)'
    BY ZenonT(30)
  <2>1. e.id \in SCell /\ e.fd \in SFd
    BY SMTT(30) DEF EntryRec
  <2>2. CASE cell[e.id].st = "closing"
    <3>1. e.id # c
      BY <2>2, ZenonT(30) DEF Owns
    <3> QED
      BY <1>2, <2>1, <2>2, <3>1, ZenonT(30) DEF Leaving
  <2>3. CASE sock[e.fd] = "shut"
    BY <2>1, <2>3, ZenonT(30) DEF Leaving
  <2>4. ASSUME NEW d \in SCell, cell[d].old_fd = e.fd, cell[e.id].st # "closing" PROVE Leaving(e)'
    <3>1. sock[e.fd] # "free"
      <4>1. Owns(e.id) /\ cell[e.id].fd = e.fd
        BY <2>4, ZenonT(30) DEF Stands, IsVerified, Present, Owns
      <4> QED
        BY <1>1, <2>1, <4>1, ZenonT(30) DEF FdsApart
    <3>2. CASE d # c
      BY <1>2, <2>4, <3>2, ZenonT(30) DEF Leaving
    <3>3. CASE d = c
      BY <1>2, <2>4, <3>1, <3>3, ZenonT(30) DEF Leaving
    <3> QED
      BY <3>2, <3>3, ZenonT(30)
  <2> QED
    BY <2>2, <2>3, <2>4, ZenonT(30) DEF Leaving
<1>6. OnlyNewestStands'
  BY <1>5, QuietNewest, ZenonT(30)
<1>7. clientlist' \in [Bucket -> Seq(EntryRec)]
  BY <1>1, ZenonT(30) DEF SessionTypes
<1>8. OwnersInv'
  BY <1>7, SameOwner, ZenonT(30)
<1> QED
  BY <1>4, <1>6, <1>8, ZenonT(30) DEF SessionIInv, OwnersInv

(* The shutdown of the older client's socket (login_handler). *)
LEMMA DisconnectKeeps ==
    ASSUME SessionIInv, NEW c \in SCell, Disconnect(c)
    PROVE  SessionIInv'
<1> DEFINE s == [cell[c] EXCEPT !.old_fd = 0]
           f == cell[c].old_fd
<1>1. SessionTypes /\ OldFds /\ PlainUnverified
  BY ZenonT(30) DEF SessionIInv
<1>2. cell[c] \in ClientRec /\ f \in SFd
  BY <1>1, CellTyped, ZenonT(30) DEF SessionTypes, Disconnect
<1>3. s \in ClientRec
  BY <1>2, ZenonT(30) DEF ClientRec
<1>4. /\ s.st = cell[c].st /\ s.phase = cell[c].phase /\ s.fd = cell[c].fd /\ s.user = cell[c].user
      /\ s.validated = cell[c].validated /\ s.tls = cell[c].tls /\ s.cert = cell[c].cert /\ s.old_fd = 0
  BY <1>2, SMTT(30) DEF ClientRec
<1>5. SetCell(c, s)
  BY ZenonT(30) DEF Disconnect, SetCell
<1>6. cell[c].st \in {"queued", "live", "close"}
  <2>1. cell[c].st \notin {"free", "closing"}
    BY <1>1, ZenonT(30) DEF OldFds, Disconnect
  <2>2. cell[c].st \in {"free", "queued", "live", "close", "closing"}
    BY <1>2, SMTT(30) DEF ClientRec
  <2> QED
    BY <2>1, <2>2, ZenonT(30)
<1> HIDE DEF s
<1>7. SameSocket(c, s) /\ Owns(c)
  BY <1>1, <1>3, <1>4, <1>6, ZenonT(30) DEF SameSocket, Owns, PlainUnverified, IsVerified
<1>8. /\ sock' \in [SFd -> {"free", "open", "shut"}] /\ (sock'[f] = IF sock[f] = "open" THEN "shut" ELSE sock[f])
      /\ \A g \in SFd : g # f => sock'[g] = sock[g]
  BY <1>1, <1>2, ZenonT(30) DEF Disconnect, SessionTypes
<1>9. sock[f] \in {"free", "open", "shut"}
  BY <1>1, <1>2, ZenonT(30) DEF SessionTypes
<1>10. NoSocketTaken /\ (\A g \in SFd : sock[g] = "shut" => sock'[g] = "shut")
       /\ (sock[f] = "free" \/ sock'[f] = "shut")
  <2>1. sock'[f] = "free" <=> sock[f] = "free"
    BY <1>8, <1>9, ZenonT(30)
  <2>2. sock[f] = "free" \/ sock'[f] = "shut"
    BY <1>8, <1>9, ZenonT(30)
  <2> QED
    BY <1>8, <2>1, <2>2, ZenonT(30) DEF NoSocketTaken
<1>11. clientlist' = clientlist /\ UNCHANGED <<dump, before, scenario>>
  BY ZenonT(30) DEF Disconnect, upgradeVars
<1> QED
  BY <1>4, <1>5, <1>7, <1>10, <1>11, QuietSessions, ZenonT(30)

(* A worker collects a client that was passed to it (collect_new_clients). *)
LEMMA CollectKeeps ==
    ASSUME SessionIInv, NEW c \in SCell, Collect(c)
    PROVE  SessionIInv'
<1> DEFINE s == [cell[c] EXCEPT !.st = "live"]
<1>1. SessionTypes /\ PlainUnverified
  BY ZenonT(30) DEF SessionIInv
<1>2. cell[c] \in ClientRec
  BY <1>1, CellTyped, ZenonT(30) DEF SessionTypes
<1>3. s \in ClientRec
  BY <1>2, ZenonT(30) DEF ClientRec
<1>4. /\ s.st = "live" /\ s.phase = cell[c].phase /\ s.fd = cell[c].fd /\ s.user = cell[c].user
      /\ s.validated = cell[c].validated /\ s.tls = cell[c].tls /\ s.cert = cell[c].cert
      /\ s.old_fd = cell[c].old_fd
  BY <1>2, SMTT(30) DEF ClientRec
<1>5. SetCell(c, s)
  BY ZenonT(30) DEF Collect, SetCell
<1>6. cell[c].st = "queued"
  BY ZenonT(30) DEF Collect
<1> HIDE DEF s
<1>7. SameSocket(c, s) /\ Owns(c)
  BY <1>1, <1>3, <1>4, <1>6, ZenonT(30) DEF SameSocket, Owns, PlainUnverified, IsVerified
<1>8. sock' = sock /\ clientlist' = clientlist /\ UNCHANGED <<dump, before, scenario>>
  BY ZenonT(30) DEF Collect, upgradeVars
<1>9. NoSocketTaken
  BY <1>1, <1>8, ZenonT(30) DEF NoSocketTaken, SessionTypes
<1> QED
  BY <1>4, <1>5, <1>7, <1>8, <1>9, QuietSessions, ZenonT(30)

(* client_close closes the socket first. *)
LEMMA CloseSocketKeeps ==
    ASSUME SessionIInv, NEW c \in SCell, CloseSocket(c)
    PROVE  SessionIInv'
<1> DEFINE s == [cell[c] EXCEPT !.st = "closing"]
           f == cell[c].fd
<1>1. SessionTypes /\ FdsApart /\ OldFds /\ PlainUnverified /\ DumpApart /\ DumpTrue /\ ClosedFree /\ RivalsFound
  BY ZenonT(30) DEF SessionIInv
<1>2. cell[c] \in ClientRec /\ cell[c].st \in {"live", "close"} /\ cell[c].old_fd = 0
  BY <1>1, CellTyped, ZenonT(30) DEF SessionTypes, CloseSocket
<1>3. Owns(c) /\ f \in SFd
  BY <1>1, <1>2, ZenonT(30) DEF SessionTypes, Owns, Present
<1>4. s \in ClientRec
  BY <1>2, ZenonT(30) DEF ClientRec
<1>5. /\ s.st = "closing" /\ s.phase = cell[c].phase /\ s.fd = f /\ s.user = cell[c].user
      /\ s.validated = cell[c].validated /\ s.tls = cell[c].tls /\ s.cert = cell[c].cert /\ s.old_fd = 0
  BY <1>2, SMTT(30) DEF ClientRec
<1>6. cell' \in [SCell -> ClientRec] /\ cell'[c] = s /\ \A d \in SCell : d # c => cell'[d] = cell[d]
  BY <1>1, <1>4, OneCell, ZenonT(30) DEF SessionTypes, SetCell, CloseSocket
<1> HIDE DEF s
<1>7. /\ sock' \in [SFd -> {"free", "open", "shut"}] /\ sock'[f] = "free"
      /\ \A g \in SFd : g # f => sock'[g] = sock[g]
  BY <1>1, <1>3, ZenonT(30) DEF CloseSocket, SessionTypes
<1>8. clientlist' = clientlist /\ UNCHANGED <<dump, before, scenario>>
  BY ZenonT(30) DEF CloseSocket, upgradeVars
<1>9. \A d \in SCell : /\ cell'[d].fd = cell[d].fd /\ (Present(d)' <=> Present(d))
                       /\ cell'[d].old_fd = cell[d].old_fd /\ cell'[d].user = cell[d].user
                       /\ (Owns(d)' => Owns(d) /\ d # c) /\ (Owns(d) /\ d # c => Owns(d)')
                       /\ (IsVerified(d)' <=> IsVerified(d))
  BY <1>2, <1>5, <1>6, ZenonT(30) DEF Present, Owns, IsVerified
<1>10. \A d \in SCell : Owns(d) => cell[d].fd \in SFd
  BY <1>1, ZenonT(30) DEF SessionTypes, Owns, Present
<1>11. \A d \in SCell : Owns(d) /\ d # c => cell[d].fd # f
  BY <1>1, <1>3, ZenonT(30) DEF FdsApart
<1>12. SessionTypes'
  BY <1>1, <1>6, <1>7, <1>8, <1>9, ZenonT(30) DEF SessionTypes
<1>13. FdsApart'
  <2> SUFFICES ASSUME NEW d \in SCell, Owns(d)'
               PROVE  /\ sock'[cell'[d].fd] # "free"
                      /\ \A e \in SCell : Owns(e)' /\ cell'[e].fd = cell'[d].fd => e = d
    BY ZenonT(30) DEF FdsApart
  <2>1. Owns(d) /\ cell'[d].fd = cell[d].fd /\ cell[d].fd \in SFd /\ cell[d].fd # f
    BY <1>9, <1>10, <1>11, ZenonT(30)
  <2>2. sock[cell[d].fd] # "free" /\ \A e \in SCell : Owns(e) /\ cell[e].fd = cell[d].fd => e = d
    BY <1>1, <2>1, ZenonT(30) DEF FdsApart
  <2>3. sock'[cell[d].fd] # "free"
    BY <1>7, <2>1, <2>2, ZenonT(30)
  <2> QED
    BY <1>9, <2>1, <2>2, <2>3, ZenonT(30)
<1>14. OldFds'
  BY <1>1, <1>5, <1>6, ZenonT(30) DEF OldFds
<1>15. PlainUnverified'
  BY <1>1, <1>5, <1>6, ZenonT(30) DEF PlainUnverified
<1>16. \A d \in dump : d.fd \in SFd /\ d.fd # f
  <2>1. \A d \in dump : d.fd \in SFd
    BY <1>1, SMTT(30) DEF SessionTypes, DumpRec
  <2> QED
    BY <1>1, <1>3, <2>1, ZenonT(30) DEF DumpApart
<1>17. DumpApart' /\ DumpTrue'
  <2>1. DumpApart'
    <3> SUFFICES ASSUME NEW d \in dump
                 PROVE  /\ sock'[d.fd] # "free" /\ (d.phase = "login" => ~d.validated)
                        /\ \A x \in SCell : Owns(x)' => cell'[x].fd # d.fd
                        /\ \A e \in dump : e.fd = d.fd => e = d
      BY <1>8, ZenonT(30) DEF DumpApart
    <3>1. /\ sock[d.fd] # "free" /\ (d.phase = "login" => ~d.validated)
          /\ \A x \in SCell : Owns(x) => cell[x].fd # d.fd
          /\ \A e \in dump : e.fd = d.fd => e = d
      BY <1>1, ZenonT(30) DEF DumpApart
    <3>2. sock'[d.fd] # "free"
      BY <1>7, <1>16, <3>1, ZenonT(30)
    <3> QED
      BY <1>9, <3>1, <3>2, ZenonT(30)
  <2>2. DumpTrue'
    BY <1>1, <1>8, ZenonT(30) DEF DumpTrue
  <2> QED
    BY <2>1, <2>2, ZenonT(30)
<1>18. \A d \in SCell : Entering(d)' => d # c /\ cell'[d] = cell[d] /\ Entering(d)
  BY <1>5, <1>6, ZenonT(30) DEF Entering
<1>19. \A g \in SFd : sock[g] = "free" => sock'[g] = "free"
  BY <1>7, ZenonT(30)
<1>20. ClosedFree'
  <2>1. ~AcceptIdle' => ~AcceptIdle
    BY <1>8, <1>18, ZenonT(30) DEF AcceptIdle
  <2>2. \A d \in SCell : cell[d].st = "closing" => cell[d].fd \in SFd
    BY <1>1, ZenonT(30) DEF SessionTypes, Present
  <2>3. \A d \in SCell : cell'[d].st = "closing" => d = c \/ cell[d].st = "closing"
    BY <1>6, ZenonT(30)
  <2> QED
    BY <1>1, <1>7, <1>9, <1>19, <2>1, <2>2, <2>3, ZenonT(30) DEF ClosedFree
<1>21. RivalsFound'
  <2> SUFFICES ASSUME NEW d \in SCell, Entering(d)' PROVE RivalFound(d)'
    BY ZenonT(30) DEF RivalsFound
  <2>1. d # c /\ cell'[d] = cell[d] /\ Entering(d)
    BY <1>18, ZenonT(30)
  <2>2. cell[d].old_fd \in SFd
    BY <1>1, <2>1, CellTyped, ZenonT(30) DEF Entering, SessionTypes
  <2>3. CASE sock[cell[d].old_fd] = "free"
    BY <1>19, <2>1, <2>2, <2>3, ZenonT(30) DEF RivalFound
  <2>4. ASSUME NEW e \in SCell, e # d, IsVerified(e), Owns(e), cell[e].user = cell[d].user,
               cell[e].fd = cell[d].old_fd
        PROVE  RivalFound(d)'
    <3>1. CASE e = c
      BY <1>7, <2>1, <2>4, <3>1, ZenonT(30) DEF RivalFound
    <3>2. CASE e # c
      BY <1>9, <2>1, <2>4, <3>2, ZenonT(30) DEF RivalFound
    <3> QED
      BY <3>1, <3>2, ZenonT(30)
  <2>5. RivalFound(d)
    BY <1>1, <2>1, ZenonT(30) DEF RivalsFound
  <2> QED
    BY <2>3, <2>4, <2>5, ZenonT(30) DEF RivalFound
<1>22. EntriesOwned' /\ AllEntered'
  BY <1>8, <1>9, QuietList, ZenonT(30)
<1>23. \A b \in Bucket : \A e \in EntryRec : Stands(e, b) /\ Leaving(e) => Leaving(e)'
  <2> SUFFICES ASSUME NEW b \in Bucket, NEW e \in EntryRec, Stands(e, b), Leaving(e) PROVE Leaving(e)'
    BY ZenonT(30)
  <2>1. e.id \in SCell /\ e.fd \in SFd
    BY SMTT(30) DEF EntryRec
  <2>2. CASE e.id = c
    BY <1>5, <1>6, <2>2, ZenonT(30) DEF Leaving
  <2>3. CASE e.id # c /\ cell[e.id].st = "closing"
    BY <1>6, <2>1, <2>3, ZenonT(30) DEF Leaving
  <2>4. CASE e.id # c /\ cell[e.id].st # "closing"
    <3>1. Owns(e.id) /\ cell[e.id].fd = e.fd
      BY <2>4, ZenonT(30) DEF Stands, IsVerified, Present, Owns
    <3>2. sock'[e.fd] = sock[e.fd]
      BY <1>7, <1>11, <2>1, <2>4, <3>1, ZenonT(30)
    <3> QED
      BY <1>9, <2>4, <3>2, ZenonT(30) DEF Leaving
  <2> QED
    BY <2>2, <2>3, <2>4, ZenonT(30)
<1>24. OnlyNewestStands'
  BY <1>8, <1>23, QuietNewest, ZenonT(30)
<1> QED
  BY <1>12, <1>13, <1>14, <1>15, <1>17, <1>20, <1>21, <1>22, <1>24, ZenonT(30) DEF SessionIInv

(* Then it takes the client off the list and frees it. *)
LEMMA FreeClientKeeps ==
    ASSUME SessionIInv, NEW c \in SCell, FreeClient(c)
    PROVE  SessionIInv'
<1>1. SessionTypes /\ EntriesOwned /\ FdsApart /\ OldFds /\ PlainUnverified /\ DumpApart /\ DumpTrue
      /\ ClosedFree /\ RivalsFound
  BY ZenonT(30) DEF SessionIInv
<1>2. NoClient \in ClientRec
  BY SessionAssumption, SMTT(30) DEF NoClient, ClientRec, Phase, Named
<1>3. /\ NoClient.st = "free" /\ NoClient.old_fd = 0 /\ NoClient.cert = NoUser /\ ~NoClient.validated
  BY SMTT(30) DEF NoClient
<1>4. cell' \in [SCell -> ClientRec] /\ cell'[c] = NoClient /\ \A d \in SCell : d # c => cell'[d] = cell[d]
  BY <1>1, <1>2, OneCell, ZenonT(30) DEF SessionTypes, SetCell, FreeClient
<1>5. cell[c].st = "closing" /\ sock' = sock /\ UNCHANGED <<dump, before, scenario>>
      /\ clientlist' = clientlist_remove(clientlist, c, cell[c])
  BY ZenonT(30) DEF FreeClient, upgradeVars
<1>6. clientlist' \in [Bucket -> Seq(EntryRec)]
  BY <1>1, <1>5, RemovedLess, ZenonT(30)
<1>7. EntriesOwned' /\ AllEntered' /\ OnlyNewestStands'
  BY RemoveEntry, ZenonT(30)
<1>8. \A d \in SCell : /\ (Owns(d)' <=> Owns(d)) /\ (Owns(d) => d # c /\ cell'[d] = cell[d])
                       /\ (Present(d)' => d # c /\ cell'[d] = cell[d])
                       /\ (Entering(d)' => d # c /\ cell'[d] = cell[d] /\ Entering(d))
  BY <1>3, <1>4, <1>5, ZenonT(30) DEF Owns, Present, Entering
<1>9. SessionTypes'
  BY <1>1, <1>4, <1>5, <1>6, <1>8, ZenonT(30) DEF SessionTypes, Present
<1>10. FdsApart'
  BY <1>1, <1>5, <1>8, ZenonT(30) DEF FdsApart
<1>11. OldFds'
  BY <1>1, <1>3, <1>4, ZenonT(30) DEF OldFds
<1>12. PlainUnverified'
  BY <1>1, <1>3, <1>4, ZenonT(30) DEF PlainUnverified
<1>13. DumpApart' /\ DumpTrue'
  BY <1>1, <1>5, <1>8, ZenonT(30) DEF DumpApart, DumpTrue
<1>14. ClosedFree'
  <2>1. ~AcceptIdle' => ~AcceptIdle
    BY <1>5, <1>8, ZenonT(30) DEF AcceptIdle
  <2>2. \A d \in SCell : cell'[d].st = "closing" => cell'[d] = cell[d]
    BY <1>3, <1>4, ZenonT(30)
  <2> QED
    BY <1>1, <1>5, <2>1, <2>2, ZenonT(30) DEF ClosedFree
<1>15. RivalsFound'
  <2> SUFFICES ASSUME NEW d \in SCell, Entering(d)' PROVE RivalFound(d)'
    BY ZenonT(30) DEF RivalsFound
  <2>1. d # c /\ cell'[d] = cell[d] /\ RivalFound(d)
    BY <1>1, <1>8, ZenonT(30) DEF RivalsFound
  <2> QED
    BY <1>5, <1>8, <2>1, ZenonT(30) DEF RivalFound, IsVerified, Present
<1> QED
  BY <1>7, <1>9, <1>10, <1>11, <1>12, <1>13, <1>14, <1>15, ZenonT(30) DEF SessionIInv
-----------------------------------------------------------------------------
(* A free cell gets a client whose socket f nobody has. *)
NewClient(c, s, f) ==
    /\ cell[c].st = "free" /\ s \in ClientRec /\ s.st = "queued" /\ s.fd = f /\ f \in SFd
    /\ ~s.tls => s.cert = NoUser /\ (s.phase = "login" => ~s.validated)
    /\ \A d \in SCell : Owns(d) => cell[d].fd # f
    /\ sock' \in [SFd -> {"free", "open", "shut"}] /\ sock'[f] # "free"
    /\ \A g \in SFd : g # f => sock'[g] = sock[g]
    /\ dump' \subseteq dump /\ before' \subseteq before /\ \A d \in dump' : d.fd # f

(* Then descriptors stay apart (accept, accept_liveupgrade_single). *)
LEMMA NewOwner ==
    ASSUME SessionIInv, NEW c \in SCell, NEW s, NEW f, NewClient(c, s, f), SetCell(c, s),
           clientlist' \in [Bucket -> Seq(EntryRec)], UNCHANGED scenario
    PROVE  SessionTypes' /\ FdsApart' /\ OldFds' /\ PlainUnverified' /\ DumpApart' /\ DumpTrue'
<1>1. SessionTypes /\ FdsApart /\ OldFds /\ PlainUnverified /\ DumpApart /\ DumpTrue
  BY ZenonT(30) DEF SessionIInv
<1>2. cell' \in [SCell -> ClientRec] /\ cell'[c] = s /\ \A d \in SCell : d # c => cell'[d] = cell[d]
  BY <1>1, OneCell, ZenonT(30) DEF SessionTypes, NewClient
<1>3. \A d \in SCell : /\ d # c /\ Owns(d)' => Owns(d) /\ cell'[d].fd = cell[d].fd /\ cell[d].fd # f
                       /\ d # c /\ Present(d)' => Present(d) /\ cell'[d].fd = cell[d].fd
  BY <1>2, ZenonT(30) DEF Owns, Present, NewClient
<1>4. \A d \in SCell : Owns(d) => cell[d].fd \in SFd
  BY <1>1, ZenonT(30) DEF SessionTypes, Owns, Present
<1>5. cell'[c].fd = f /\ f \in SFd
  BY <1>2, ZenonT(30) DEF NewClient
<1>6. SessionTypes'
  BY <1>1, <1>2, <1>3, <1>5, ZenonT(30) DEF SessionTypes, NewClient
<1>7. FdsApart'
  <2> SUFFICES ASSUME NEW d \in SCell, Owns(d)'
               PROVE  /\ sock'[cell'[d].fd] # "free"
                      /\ \A e \in SCell : Owns(e)' /\ cell'[e].fd = cell'[d].fd => e = d
    BY ZenonT(30) DEF FdsApart
  <2>1. CASE d = c
    BY <1>3, <1>5, <2>1, ZenonT(30) DEF NewClient
  <2>2. CASE d # c
    <3>1. Owns(d) /\ cell'[d].fd = cell[d].fd /\ cell[d].fd # f /\ cell[d].fd \in SFd
      BY <1>3, <1>4, <2>2, ZenonT(30)
    <3>2. sock'[cell[d].fd] # "free"
      BY <1>1, <3>1, ZenonT(30) DEF FdsApart, NewClient
    <3>3. ASSUME NEW e \in SCell, Owns(e)', cell'[e].fd = cell'[d].fd PROVE e = d
      BY <1>1, <1>3, <1>5, <3>1, <3>3, ZenonT(30) DEF FdsApart
    <3> QED
      BY <3>1, <3>2, <3>3, ZenonT(30)
  <2> QED
    BY <2>1, <2>2, ZenonT(30)
<1>8. OldFds'
  BY <1>1, <1>2, ZenonT(30) DEF OldFds, NewClient
<1>9. PlainUnverified'
  BY <1>1, <1>2, ZenonT(30) DEF PlainUnverified, NewClient
<1>10. \A d \in dump' : d \in dump /\ d.fd \in SFd /\ d.fd # f
  <2>1. \A d \in dump : d.fd \in SFd
    BY <1>1, SMTT(30) DEF SessionTypes, DumpRec
  <2> QED
    BY <2>1, ZenonT(30) DEF NewClient
<1>11. DumpApart'
  <2> SUFFICES ASSUME NEW d \in dump'
               PROVE  /\ sock'[d.fd] # "free" /\ (d.phase = "login" => ~d.validated)
                      /\ \A e \in SCell : Owns(e)' => cell'[e].fd # d.fd
                      /\ \A e \in dump' : e.fd = d.fd => e = d
    BY ZenonT(30) DEF DumpApart
  <2>1. d \in dump /\ sock'[d.fd] = sock[d.fd] /\ d.fd # f
    BY <1>10, ZenonT(30) DEF NewClient
  <2>2. ASSUME NEW e \in SCell, Owns(e)' PROVE cell'[e].fd # d.fd
    BY <1>1, <1>3, <1>5, <2>1, <2>2, ZenonT(30) DEF DumpApart
  <2> QED
    BY <1>1, <1>10, <2>1, <2>2, ZenonT(30) DEF DumpApart
<1>12. DumpTrue'
  BY <1>1, <1>10, ZenonT(30) DEF DumpTrue, NewClient
<1> QED
  BY <1>6, <1>7, <1>8, <1>9, <1>11, <1>12, ZenonT(30)

(* The client that a new connection is. *)
Accepted(f, tls, u) == [NoClient EXCEPT !.st = "queued", !.fd = f, !.tls = tls, !.cert = u]

Unverified(s, f) ==
    /\ s \in ClientRec /\ s.st = "queued" /\ s.fd = f /\ s.old_fd = 0 /\ s.phase = "login"
    /\ ~s.validated /\ (~s.tls => s.cert = NoUser)

(* It is not verified, whatever its certificate says. *)
LEMMA AcceptedClient ==
    ASSUME NEW f \in SFd, NEW tls \in BOOLEAN, NEW u \in Named, tls \/ u = NoUser
    PROVE  Unverified(Accepted(f, tls, u), f)
<1> DEFINE s == [NoClient EXCEPT !.st = "queued", !.fd = f, !.tls = tls, !.cert = u]
<1>1. NoClient \in ClientRec
  BY SMTT(30) DEF NoClient, ClientRec, Phase, Named
<1>2. NoClient.old_fd = 0 /\ NoClient.phase = "login" /\ NoClient.validated = FALSE
  BY ZenonT(30) DEF NoClient
<1>3. s \in ClientRec
  BY <1>1, ZenonT(30) DEF ClientRec
<1>4. s.st = "queued" /\ s.fd = f /\ s.old_fd = NoClient.old_fd /\ s.phase = NoClient.phase /\ s.cert = u
  BY <1>1, SMTT(30) DEF ClientRec
<1>5. s.validated = NoClient.validated /\ s.tls = tls
  BY <1>1, ZenonT(30) DEF ClientRec
<1> QED
  BY <1>2, <1>3, <1>4, <1>5, ZenonT(30) DEF Accepted, Unverified

(* A new connection (do_accept). *)
LEMMA AcceptKeeps ==
    ASSUME SessionIInv, Accept
    PROVE  SessionIInv'
<1>1. SessionTypes /\ FdsApart /\ DumpApart /\ RivalsFound
  BY ZenonT(30) DEF SessionIInv
<1>2. AcceptIdle
  BY ZenonT(30) DEF Accept
<1>3. PICK c \in FreeIn(cell), f \in Lowest({g \in SFd : sock[g] = "free"}), tls \in {scenario.certs # {}, FALSE} :
        /\ \E u \in IF tls THEN scenario.certs ELSE {NoUser} :
             cell' = [cell EXCEPT ![c] = [NoClient EXCEPT !.st = "queued", !.fd = f, !.tls = tls, !.cert = u]]
        /\ sock' = [sock EXCEPT ![f] = "open"]
  BY ZenonT(30) DEF Accept
<1>4. PICK u \in IF tls THEN scenario.certs ELSE {NoUser} :
        cell' = [cell EXCEPT ![c] = [NoClient EXCEPT !.st = "queued", !.fd = f, !.tls = tls, !.cert = u]]
  BY <1>3, ZenonT(30)
<1>5. c \in SCell /\ cell[c].st = "free" /\ f \in SFd /\ sock[f] = "free"
  BY ZenonT(30) DEF FreeIn, Lowest
<1>6. tls \in BOOLEAN
  BY ZenonT(30)
<1>7. u \in Named /\ (tls \/ u = NoUser)
  <2>1. scenario.certs \subseteq Named /\ NoUser \in Named
    BY <1>1, SessionAssumption, ZenonT(30) DEF SessionTypes, Named
  <2> QED
    BY <1>4, <2>1, ZenonT(30)
<1> DEFINE s == Accepted(f, tls, u)
<1>8. /\ s \in ClientRec /\ s.st = "queued" /\ s.fd = f /\ s.old_fd = 0 /\ s.phase = "login"
      /\ ~s.validated /\ (~s.tls => s.cert = NoUser)
  <2>1. Unverified(s, f)
    BY <1>5, <1>6, <1>7, AcceptedClient, ZenonT(30)
  <2> HIDE DEF s
  <2> QED
    BY <2>1, ZenonT(30) DEF Unverified
<1>9. SetCell(c, s)
  BY <1>4, ZenonT(30) DEF SetCell, Accepted
<1> HIDE DEF s
<1>10. clientlist' = clientlist /\ UNCHANGED <<dump, before, scenario>>
  BY ZenonT(30) DEF Accept, upgradeVars
<1>11. /\ sock' \in [SFd -> {"free", "open", "shut"}] /\ sock'[f] = "open"
       /\ \A g \in SFd : g # f => sock'[g] = sock[g]
  BY <1>1, <1>3, <1>5, ZenonT(30) DEF SessionTypes
<1>12. dump = {} /\ \A d \in SCell : ~Entering(d)
  BY <1>2, ZenonT(30) DEF AcceptIdle
<1>13. \A d \in SCell : Owns(d) => cell[d].fd # f
  BY <1>1, <1>5, ZenonT(30) DEF FdsApart
<1>14. NewClient(c, s, f)
  BY <1>5, <1>8, <1>10, <1>11, <1>12, <1>13, ZenonT(30) DEF NewClient
<1>15. clientlist' \in [Bucket -> Seq(EntryRec)]
  BY <1>1, <1>10, ZenonT(30) DEF SessionTypes
<1>16. SessionTypes' /\ FdsApart' /\ OldFds' /\ PlainUnverified' /\ DumpApart' /\ DumpTrue'
  BY <1>5, <1>9, <1>10, <1>14, <1>15, NewOwner, ZenonT(30)
<1>17. cell'[c] = s /\ \A d \in SCell : d # c => cell'[d] = cell[d]
  BY <1>1, <1>5, <1>8, <1>9, OneCell, ZenonT(30) DEF SessionTypes
<1>18. \A d \in SCell : ~Entering(d)'
  BY <1>8, <1>12, <1>17, ZenonT(30) DEF Entering
<1>19. ClosedFree' /\ RivalsFound'
  BY <1>10, <1>12, <1>18, ZenonT(30) DEF ClosedFree, AcceptIdle, RivalsFound
<1>20. \A d \in SCell : /\ IsVerified(d)' <=> IsVerified(d)
                        /\ IsVerified(d) => cell'[d].user = cell[d].user /\ cell'[d].fd = cell[d].fd
  BY <1>5, <1>8, <1>17, ZenonT(30) DEF IsVerified, Present
<1>21. EntriesOwned' /\ AllEntered'
  BY <1>10, <1>20, QuietList, ZenonT(30)
<1>22. 0 \notin SFd
  BY SessionAssumption, SMTT(30)
<1>23. cell[c].old_fd = 0
  BY <1>5, ZenonT(30) DEF SessionIInv, OldFds
<1>24. \A b \in Bucket : \A e \in EntryRec : Stands(e, b) /\ Leaving(e) => Leaving(e)'
  <2> SUFFICES ASSUME NEW b \in Bucket, NEW e \in EntryRec, Stands(e, b), Leaving(e) PROVE Leaving(e)'
    BY ZenonT(30)
  <2>1. e.id \in SCell /\ e.fd \in SFd
    BY SMTT(30) DEF EntryRec
  <2>2. e.id # c
    BY <1>5, ZenonT(30) DEF Stands, IsVerified, Present
  <2>3. CASE sock[e.fd] = "shut"
    <3>1. e.fd # f
      BY <1>5, <2>3, ZenonT(30)
    <3> QED
      BY <1>11, <2>1, <2>3, <3>1, ZenonT(30) DEF Leaving
  <2>4. CASE cell[e.id].st = "closing"
    BY <1>17, <2>1, <2>2, <2>4, ZenonT(30) DEF Leaving
  <2>5. ASSUME NEW d \in SCell, cell[d].old_fd = e.fd PROVE Leaving(e)'
    <3>1. d # c
      BY <1>22, <1>23, <2>1, <2>5, ZenonT(30)
    <3> QED
      BY <1>17, <2>5, <3>1, ZenonT(30) DEF Leaving
  <2> QED
    BY <2>3, <2>4, <2>5, ZenonT(30) DEF Leaving
<1>25. OnlyNewestStands'
  BY <1>10, <1>24, QuietNewest, ZenonT(30)
<1> QED
  BY <1>16, <1>19, <1>21, <1>25, ZenonT(30) DEF SessionIInv
-----------------------------------------------------------------------------
(* What a client is after it was written down and read again. *)
LEMMA TakenOverIs ==
    ASSUME NEW d \in DumpRec
    PROVE  /\ TakenOver(d) \in ClientRec /\ TakenOver(d).st = "queued" /\ TakenOver(d).fd = d.fd
           /\ TakenOver(d).phase = d.phase /\ TakenOver(d).validated = d.validated
           /\ d.phase = "connected" => TakenOver(d).user = d.user
           /\ TakenOver(d).cert = NoUser /\ d.fd \in SFd
<1> DEFINE u == IF d.phase = "connected" THEN d.user ELSE NoUser
           p == IF d.udp_port > 1024 THEN d.udp_port ELSE 0
<1>1. /\ d.fd \in SFd /\ d.phase \in Phase /\ d.user \in Named /\ d.udp_port \in Nat
  BY SMTT(30) DEF DumpRec
<1>2. d.validated \in BOOLEAN
  BY ZenonT(30) DEF DumpRec
<1>3. NoUser \in Named /\ 0 \in Nat
  BY SMTT(30) DEF Named
<1>4. u \in Named /\ (d.phase = "connected" => u = d.user)
  BY <1>1, <1>3, ZenonT(30)
<1>5. p \in Nat
  BY <1>1, <1>3, ZenonT(30)
<1>6. TakenOver(d) = [NoClient EXCEPT !.st = "queued", !.fd = d.fd, !.phase = d.phase,
                                      !.validated = d.validated, !.user = u, !.udp_port = p]
  BY ZenonT(30) DEF TakenOver
<1> HIDE DEF u, p
<1> DEFINE s == [NoClient EXCEPT !.st = "queued", !.fd = d.fd, !.phase = d.phase,
                                 !.validated = d.validated, !.user = u, !.udp_port = p]
<1>7. NoClient \in ClientRec
  BY SMTT(30) DEF NoClient, ClientRec, Phase, Named
<1>8. s \in ClientRec
  BY <1>1, <1>2, <1>4, <1>5, <1>7, ZenonT(30) DEF ClientRec
<1>9. NoClient.cert = NoUser
  BY ZenonT(30) DEF NoClient
<1>10. s.st = "queued" /\ s.fd = d.fd /\ s.phase = d.phase /\ s.user = u /\ s.cert = NoClient.cert
  BY <1>7, SMTT(30) DEF ClientRec
<1>11. s.validated = d.validated
  BY <1>7, ZenonT(30) DEF ClientRec
<1> QED
  BY <1>1, <1>4, <1>6, <1>8, <1>9, <1>10, <1>11, ZenonT(30)

(* The socket of a client that is not taken over is closed. *)
GoneAway(d) ==
    /\ \A c \in SCell : ~Entering(c)
    /\ dump' = dump \ {d} /\ sock' = [sock EXCEPT ![d.fd] = "free"]
    /\ before' \subseteq before
    /\ UNCHANGED <<cell, clientlist, scenario>>

(* That disturbs none of the clients of the new process. *)
LEMMA GoneAwayKeeps ==
    ASSUME SessionIInv, NEW d \in dump, GoneAway(d)
    PROVE  SessionIInv'
<1>1. SessionTypes /\ FdsApart /\ OldFds /\ PlainUnverified /\ EntriesOwned /\ AllEntered /\ OnlyNewestStands
      /\ DumpApart /\ DumpTrue /\ ClosedFree
  BY ZenonT(30) DEF SessionIInv
<1> DEFINE f == d.fd
<1>2. \A e \in dump : e.fd \in SFd
  BY <1>1, SMTT(30) DEF SessionTypes, DumpRec
<1>3. f \in SFd
  BY <1>2, ZenonT(30)
<1>4. /\ sock' \in [SFd -> {"free", "open", "shut"}] /\ sock'[f] = "free"
      /\ \A g \in SFd : g # f => sock'[g] = sock[g]
  BY <1>1, <1>3, ZenonT(30) DEF GoneAway, SessionTypes
<1>5. cell' = cell /\ clientlist' = clientlist /\ before' \subseteq before /\ scenario' = scenario /\ dump' = dump \ {d}
  BY ZenonT(30) DEF GoneAway
<1>6. \A c \in SCell : Owns(c) => cell[c].fd \in SFd /\ cell[c].fd # f
  BY <1>1, ZenonT(30) DEF DumpApart, SessionTypes, Owns, Present
<1>7. \A e \in dump' : e \in dump /\ e.fd # f
  BY <1>1, <1>5, ZenonT(30) DEF DumpApart
<1>8. SessionTypes'
  BY <1>1, <1>4, <1>5, ZenonT(30) DEF SessionTypes, Present
<1>9. FdsApart'
  BY <1>1, <1>4, <1>5, <1>6, ZenonT(30) DEF FdsApart, Owns
<1>10. OldFds' /\ PlainUnverified'
  BY <1>1, <1>5, ZenonT(30) DEF OldFds, PlainUnverified
<1>11. DumpApart'
  BY <1>1, <1>2, <1>4, <1>5, <1>7, ZenonT(30) DEF DumpApart, Owns
<1>12. DumpTrue'
  BY <1>1, <1>5, ZenonT(30) DEF DumpTrue
<1>13. ClosedFree'
  <2>1. ~AcceptIdle
    BY ZenonT(30) DEF AcceptIdle
  <2>2. \A c \in SCell : cell[c].st = "closing" => cell[c].fd \in SFd /\ sock[cell[c].fd] = "free"
    BY <1>1, <2>1, ZenonT(30) DEF ClosedFree, SessionTypes, Present
  <2> QED
    BY <1>4, <1>5, <2>2, ZenonT(30) DEF ClosedFree
<1>14. RivalsFound'
  BY <1>5, ZenonT(30) DEF RivalsFound, GoneAway, Entering
<1>15. \A c \in SCell : /\ IsVerified(c)' <=> IsVerified(c)
                        /\ IsVerified(c) => cell'[c].user = cell[c].user /\ cell'[c].fd = cell[c].fd
  BY <1>5, ZenonT(30) DEF IsVerified, Present
<1>16. EntriesOwned' /\ AllEntered'
  BY <1>5, <1>15, QuietList, ZenonT(30)
<1>17. \A b \in Bucket : \A e \in EntryRec : Stands(e, b) /\ Leaving(e) => Leaving(e)'
  <2> SUFFICES ASSUME NEW b \in Bucket, NEW e \in EntryRec, Stands(e, b), Leaving(e) PROVE Leaving(e)'
    BY ZenonT(30)
  <2>1. e.id \in SCell /\ e.fd \in SFd
    BY SMTT(30) DEF EntryRec
  <2>2. CASE cell[e.id].st = "closing"
    BY <1>5, <2>2, ZenonT(30) DEF Leaving
  <2>3. CASE cell[e.id].st # "closing"
    <3>1. Owns(e.id) /\ cell[e.id].fd = e.fd
      BY <2>3, ZenonT(30) DEF Stands, IsVerified, Present, Owns
    <3>2. sock'[e.fd] = sock[e.fd]
      BY <1>4, <1>6, <2>1, <3>1, ZenonT(30)
    <3> QED
      BY <1>5, <3>2, ZenonT(30) DEF Leaving
  <2> QED
    BY <2>2, <2>3, ZenonT(30)
<1>18. OnlyNewestStands'
  BY <1>5, <1>17, QuietNewest, ZenonT(30)
<1> QED
  BY <1>8, <1>9, <1>10, <1>11, <1>12, <1>13, <1>14, <1>16, <1>18, ZenonT(30) DEF SessionIInv

(* A client is taken over into cell c. *)
Taken(d, c) ==
    /\ \A e \in SCell : ~Entering(e)
    /\ dump' = dump \ {d} /\ cell[c].st = "free" /\ LoginAdded(c, TakenOver(d))
    /\ before' \subseteq before
    /\ UNCHANGED <<sock, scenario>>

(* That keeps the list true, whatever the workers have done meanwhile with *)
(* the clients that were taken over before.                                *)
LEMMA TakenKeeps ==
    ASSUME SessionIInv, NEW d \in dump, NEW c \in SCell, Taken(d, c)
    PROVE  SessionIInv'
<1>1. SessionTypes /\ OldFds /\ EntriesOwned /\ DumpApart /\ ClosedFree
  BY ZenonT(30) DEF SessionIInv
<1> DEFINE r == TakenOver(d)
           s == AddedCell(c, r)
<1>2. d \in DumpRec
  BY <1>1, ZenonT(30) DEF SessionTypes
<1>3. /\ r \in ClientRec /\ r.st = "queued" /\ r.fd = d.fd /\ r.phase = d.phase
      /\ r.validated = d.validated /\ r.cert = NoUser /\ d.fd \in SFd
  BY <1>2, TakenOverIs, ZenonT(30)
<1>4. r.phase \in Phase
  <2> HIDE DEF r
  <2> QED
    BY <1>3, SMTT(30) DEF ClientRec
<1> HIDE DEF r
<1>5. r.phase = "login" => ~r.validated
  BY <1>1, <1>3, ZenonT(30) DEF DumpApart
<1>6. cell[c].st = "free" /\ LoginAdded(c, r) /\ sock' = sock /\ dump' = dump \ {d}
      /\ before' \subseteq before /\ scenario' = scenario
  BY ZenonT(30) DEF Taken, r
<1>7. cell[c].old_fd = 0 /\ ~IsVerified(c)
  BY <1>1, <1>6, ZenonT(30) DEF OldFds, IsVerified, Present
<1>8. MayEnter(c, r)
  BY <1>3, <1>4, <1>5, <1>7, ZenonT(30) DEF MayEnter, Phase
<1>9. EntriesOwned' /\ AllEntered' /\ OnlyNewestStands'
  BY <1>6, <1>8, AddEntry, ZenonT(30)
<1>10. /\ s \in ClientRec /\ SetCell(c, s) /\ s.st = r.st /\ s.phase = r.phase /\ s.fd = r.fd
       /\ s.user = r.user /\ s.validated = r.validated /\ s.cert = r.cert
       /\ (r.validated => s.old_fd = check_if_validated_client(clientlist, r.user))
       /\ (~r.validated => s.old_fd = 0) /\ r.user \in Named /\ UserHash(r.user) \in Bucket
  BY <1>6, <1>8, AddedFields, ZenonT(30)
<1> HIDE DEF s
<1>11. clientlist' \in [Bucket -> Seq(EntryRec)]
  BY <1>1, <1>3, <1>6, AddedList, ZenonT(30)
<1>12. sock' \in [SFd -> {"free", "open", "shut"}] /\ sock'[d.fd] # "free"
       /\ (\A e \in SCell : Owns(e) => cell[e].fd # d.fd) /\ (\A e \in dump' : e.fd # d.fd)
  BY <1>1, <1>6, ZenonT(30) DEF SessionTypes, DumpApart
<1>13. NewClient(c, s, d.fd)
  BY <1>3, <1>5, <1>6, <1>10, <1>12, ZenonT(30) DEF NewClient
<1>14. SessionTypes' /\ FdsApart' /\ OldFds' /\ PlainUnverified' /\ DumpApart' /\ DumpTrue'
  BY <1>6, <1>10, <1>11, <1>13, NewOwner, ZenonT(30)
<1>15. cell'[c] = s /\ \A e \in SCell : e # c => cell'[e] = cell[e]
  BY <1>1, <1>10, OneCell, ZenonT(30) DEF SessionTypes
<1>16. \A e \in SCell : cell[e].st = "closing" => sock[cell[e].fd] = "free"
  BY <1>1, ZenonT(30) DEF ClosedFree, AcceptIdle
<1>17. ClosedFree'
  <2>1. \A e \in SCell : cell'[e].st = "closing" => e # c /\ cell'[e] = cell[e]
    BY <1>3, <1>10, <1>15, ZenonT(30)
  <2> QED
    BY <1>6, <1>16, <2>1, ZenonT(30) DEF ClosedFree
<1>18. RivalsFound'
  <2> SUFFICES ASSUME NEW e \in SCell, Entering(e)' PROVE RivalFound(e)'
    BY ZenonT(30) DEF RivalsFound
  <2>1. e = c
    BY <1>15, ZenonT(30) DEF Entering, Taken
  <2>2. s.old_fd # 0 /\ r.validated /\ s.old_fd = check_if_validated_client(clientlist, r.user)
    BY <1>10, <1>15, <2>1, ZenonT(30) DEF Entering
  <2> DEFINE b == UserHash(r.user)
  <2>3. PICK h : Hit(r.user, h) /\ s.old_fd = clientlist[b][h].fd
    BY <1>1, <1>10, <2>2, LookupValue, ZenonT(30)
  <2> HIDE DEF b
  <2>4. h \in DOMAIN clientlist[b] /\ clientlist[b][h].user = r.user /\ clientlist[b][h].validated
    BY <2>3, ZenonT(30) DEF Hit, b
  <2>5. Stands(clientlist[b][h], b) /\ clientlist[b][h].id \in SCell
    BY <1>1, <1>10, <2>4, EntryStands, EntryTyped, ZenonT(30) DEF b
  <2>6. PICK x \in SCell : IsVerified(x) /\ cell[x].user = r.user /\ cell[x].fd = s.old_fd
    BY <2>3, <2>4, <2>5, ZenonT(30) DEF Stands
  <2>7. x # c /\ cell'[x] = cell[x]
    BY <1>7, <1>15, <2>6, ZenonT(30)
  <2>8. CASE cell[x].st = "closing"
    BY <1>6, <1>15, <1>16, <2>1, <2>6, <2>8, ZenonT(30) DEF RivalFound
  <2>9. CASE cell[x].st # "closing"
    <3>1. IsVerified(x)' /\ Owns(x)'
      BY <2>6, <2>7, <2>9, ZenonT(30) DEF IsVerified, Present, Owns
    <3> QED
      BY <1>10, <1>15, <2>1, <2>6, <2>7, <3>1, ZenonT(30) DEF RivalFound
  <2> QED
    BY <2>8, <2>9, ZenonT(30)
<1> QED
  BY <1>9, <1>14, <1>17, <1>18, ZenonT(30) DEF SessionIInv

(* The accept thread takes over one client of the old process              *)
(* (accept_liveupgrade_single).                                            *)
LEMMA TakeOverKeeps ==
    ASSUME SessionIInv, NEW d \in dump, TakeOver(d)
    PROVE  SessionIInv'
<1>1. GoneAway(d) \/ \E c \in SCell : Taken(d, c)
  BY ZenonT(30) DEF TakeOver, GoneAway, Taken, FreeIn, Lowest
<1> QED
  BY <1>1, GoneAwayKeeps, TakenKeeps, ZenonT(30)

(* What is written down of a client (worker_client_json). *)
LEMMA DumpedIs ==
    ASSUME NEW r \in ClientRec, r.fd \in SFd
    PROVE  /\ Dumped(r) \in DumpRec /\ Dumped(r).fd = r.fd /\ Dumped(r).phase = r.phase
           /\ Dumped(r).validated = r.validated /\ Dumped(r).user = r.user
<1>1. r.phase \in Phase /\ r.user \in Named /\ r.udp_port \in Nat
  BY SMTT(30) DEF ClientRec
<1>2. r.validated \in BOOLEAN
  BY ZenonT(30) DEF ClientRec
<1>3. Dumped(r) \in DumpRec
  BY <1>1, <1>2, ZenonT(30) DEF Dumped, DumpRec
<1> QED
  BY <1>3, ZenonT(30) DEF Dumped

(* A process that has just begun knows no clients. *)
FreshProcess ==
    cell = [c \in SCell |-> NoClient] /\ clientlist = [b \in Bucket |-> <<>>]

Quiet ==
    /\ cell \in [SCell -> ClientRec] /\ clientlist \in [Bucket -> Seq(EntryRec)]
    /\ \A c \in SCell : ~Present(c) /\ ~Owns(c)
    /\ FdsApart /\ OldFds /\ PlainUnverified /\ EntriesOwned /\ AllEntered /\ OnlyNewestStands
    /\ ClosedFree /\ RivalsFound

(* So it satisfies what is said of clients and of the list. *)
LEMMA FreshIsQuiet == FreshProcess => Quiet
<1> SUFFICES ASSUME FreshProcess PROVE Quiet
  BY ZenonT(30)
<1>1. NoUser \in Named
  BY ZenonT(30) DEF Named
<1>2. NoClient \in ClientRec
  BY <1>1, SMTT(30) DEF NoClient, ClientRec, Phase
<1>3. NoClient.st = "free" /\ NoClient.old_fd = 0 /\ NoClient.cert = NoUser /\ ~NoClient.validated
  BY SMTT(30) DEF NoClient
<1>4. \A c \in SCell : cell[c] = NoClient
  BY ZenonT(30) DEF FreshProcess
<1>5. cell \in [SCell -> ClientRec]
  BY <1>2, ZenonT(30) DEF FreshProcess
<1>6. <<>> \in Seq(EntryRec) /\ DOMAIN <<>> = {}
  BY SMTT(30)
<1>7. clientlist \in [Bucket -> Seq(EntryRec)] /\ \A b \in Bucket : DOMAIN clientlist[b] = {}
  BY <1>6, ZenonT(30) DEF FreshProcess
<1>8. \A c \in SCell : ~Present(c) /\ ~Owns(c) /\ ~Entering(c) /\ cell[c].st # "closing" /\ ~IsVerified(c)
  BY <1>3, <1>4, ZenonT(30) DEF Present, Owns, Entering, IsVerified
<1>9. FdsApart /\ AllEntered /\ ClosedFree /\ RivalsFound
  BY <1>8, ZenonT(30) DEF FdsApart, AllEntered, ClosedFree, RivalsFound
<1>10. OldFds /\ PlainUnverified
  BY <1>3, <1>4, ZenonT(30) DEF OldFds, PlainUnverified
<1>11. EntriesOwned /\ OnlyNewestStands
  BY <1>7, ZenonT(30) DEF EntriesOwned, OnlyNewestStands
<1> QED
  BY <1>5, <1>7, <1>8, <1>9, <1>10, <1>11, ZenonT(30) DEF Quiet

(* The same of the new process of a live upgrade. *)
LEMMA FreshAgain == FreshProcess' => Quiet'
  BY FreshIsQuiet, PTL

(* The server starts without clients. *)
LEMMA SessionInitIInv == SessionInit => SessionIInv
<1> SUFFICES ASSUME SessionInit PROVE SessionIInv
  BY ZenonT(30)
<1>1. FreshProcess
  BY ZenonT(30) DEF SessionInit, FreshProcess
<1>2. sock \in [SFd -> {"free", "open", "shut"}] /\ dump = {} /\ before = {} /\ scenario \in Scenarios
  BY ZenonT(30) DEF SessionInit
<1>3. SessionTypes
  BY <1>1, <1>2, FreshIsQuiet, ZenonT(30) DEF SessionTypes, Quiet
<1>4. DumpApart /\ DumpTrue
  BY <1>2, ZenonT(30) DEF DumpApart, DumpTrue
<1> QED
  BY <1>1, <1>3, <1>4, FreshIsQuiet, ZenonT(30) DEF SessionIInv, Quiet

(* A live upgrade: the new process begins with what was written down       *)
(* (liveupgrade_dump_status, worker_client_list).                          *)
LEMMA LiveUpgradeKeeps ==
    ASSUME SessionIInv, LiveUpgrade
    PROVE  SessionIInv'
<1>1. SessionTypes /\ FdsApart /\ PlainUnverified
  BY ZenonT(30) DEF SessionIInv
<1> DEFINE P == {c \in Live : ~cell[c].tls}
<1>2. before' = {cell[c] : c \in P} /\ dump' = {Dumped(r) : r \in before'}
  BY ZenonT(30) DEF LiveUpgrade
<1>3. \A c \in P : /\ c \in SCell /\ cell[c].st = "live" /\ ~cell[c].tls /\ Owns(c)
                   /\ cell[c] \in ClientRec /\ cell[c].fd \in SFd
  BY <1>1, ZenonT(30) DEF Live, SessionTypes, Owns, Present
<1> HIDE DEF P
<1>4. FreshProcess'
  BY ZenonT(30) DEF LiveUpgrade, FreshProcess
<1>5. /\ cell' \in [SCell -> ClientRec] /\ clientlist' \in [Bucket -> Seq(EntryRec)]
      /\ \A c \in SCell : ~Present(c)' /\ ~Owns(c)'
      /\ FdsApart' /\ OldFds' /\ PlainUnverified' /\ EntriesOwned' /\ AllEntered' /\ OnlyNewestStands'
      /\ ClosedFree' /\ RivalsFound'
  BY <1>4, FreshAgain, ZenonT(30) DEF Quiet
<1>6. /\ sock' \in [SFd -> {"free", "open", "shut"}] /\ scenario' = scenario
      /\ \A f \in SFd : sock'[f] = IF \E c \in Live : cell[c].tls /\ cell[c].fd = f THEN "free" ELSE sock[f]
  <2>1. sock' = [f \in SFd |-> IF \E c \in Live : cell[c].tls /\ cell[c].fd = f THEN "free" ELSE sock[f]]
        /\ scenario' = scenario
    BY ZenonT(30) DEF LiveUpgrade
  <2>2. \A f \in SFd : sock[f] \in {"free", "open", "shut"}
    BY <1>1, ZenonT(30) DEF SessionTypes
  <2> QED
    BY <2>1, <2>2, ZenonT(30)
<1>7. \A c, e \in P : cell[c].fd = cell[e].fd => c = e
  BY <1>1, <1>3, ZenonT(30) DEF FdsApart
<1>8. ASSUME NEW c \in P
      PROVE  sock'[cell[c].fd] # "free" /\ (cell[c].phase = "login" => ~cell[c].validated)
             /\ Dumped(cell[c]) \in DumpRec /\ Dumped(cell[c]).fd = cell[c].fd
             /\ Dumped(cell[c]).phase = cell[c].phase /\ Dumped(cell[c]).validated = cell[c].validated
  <2>1. c \in SCell /\ cell[c].st = "live" /\ ~cell[c].tls /\ Owns(c) /\ cell[c] \in ClientRec /\ cell[c].fd \in SFd
    BY <1>3, <1>8, ZenonT(30)
  <2>2. ~ \E e \in Live : cell[e].tls /\ cell[e].fd = cell[c].fd
    <3>1. \A e \in Live : e \in SCell /\ Owns(e)
      BY ZenonT(30) DEF Live, Owns
    <3> QED
      BY <1>1, <2>1, <3>1, ZenonT(30) DEF FdsApart
  <2>3. sock'[cell[c].fd] # "free"
    BY <1>1, <1>6, <2>1, <2>2, ZenonT(30) DEF FdsApart
  <2>4. cell[c].phase = "login" => ~cell[c].validated
    BY <1>1, <2>1, ZenonT(30) DEF PlainUnverified
  <2> QED
    BY <2>1, <2>3, <2>4, DumpedIs, ZenonT(30)
<1>9. \A d \in dump' : \E c \in P : d = Dumped(cell[c])
  BY <1>2, ZenonT(30)
<1>10. SessionTypes'
  <2>1. dump' \subseteq DumpRec
    BY <1>8, <1>9, ZenonT(30)
  <2>2. before' \subseteq ClientRec
    BY <1>2, <1>3, ZenonT(30)
  <2> QED
    BY <1>1, <1>5, <1>6, <2>1, <2>2, ZenonT(30) DEF SessionTypes
<1>11. DumpApart'
  <2> SUFFICES ASSUME NEW d \in dump'
               PROVE  /\ sock'[d.fd] # "free" /\ (d.phase = "login" => ~d.validated)
                      /\ \A e \in dump' : e.fd = d.fd => e = d
    BY <1>5, ZenonT(30) DEF DumpApart
  <2>1. PICK c \in P : d = Dumped(cell[c])
    BY <1>9, ZenonT(30)
  <2>2. ASSUME NEW e \in dump', e.fd = d.fd PROVE e = d
    <3>1. PICK x \in P : e = Dumped(cell[x])
      BY <1>9, <2>2, ZenonT(30)
    <3> QED
      BY <1>7, <1>8, <2>1, <2>2, <3>1, ZenonT(30)
  <2> QED
    BY <1>8, <2>1, <2>2, ZenonT(30)
<1>12. DumpTrue'
  <2> SUFFICES ASSUME NEW d \in dump', NEW r \in before', d.fd = r.fd PROVE d = Dumped(r)
    BY ZenonT(30) DEF DumpTrue
  <2>1. PICK c \in P : d = Dumped(cell[c])
    BY <1>9, ZenonT(30)
  <2>2. PICK x \in P : r = cell[x]
    BY <1>2, ZenonT(30)
  <2> QED
    BY <1>7, <1>8, <2>1, <2>2, ZenonT(30)
<1> QED
  BY <1>5, <1>10, <1>11, <1>12, ZenonT(30) DEF SessionIInv

(* Every step keeps the invariant. *)
LEMMA SessionStep == SessionIInv /\ [SessionNext]_sessionVars => SessionIInv'
<1> SUFFICES ASSUME SessionIInv, [SessionNext]_sessionVars PROVE SessionIInv'
  BY ZenonT(30)
<1>1. CASE UNCHANGED sessionVars
  <2>1. UNCHANGED <<cell, sock, clientlist, dump, before, scenario>>
    BY <1>1, ZenonT(30) DEF sessionVars, upgradeVars
  <2>2. SessionTypes' /\ FdsApart' /\ OldFds' /\ PlainUnverified'
    <3>1. SessionTypes'
      BY <2>1, ZenonT(30) DEF SessionIInv, SessionTypes, Present
    <3>2. FdsApart' /\ OldFds'
      BY <2>1, ZenonT(30) DEF SessionIInv, FdsApart, Owns, OldFds
    <3>3. PlainUnverified'
      BY <2>1, ZenonT(30) DEF SessionIInv, PlainUnverified
    <3> QED
      BY <3>1, <3>2, <3>3, ZenonT(30)
  <2>3. EntriesOwned' /\ AllEntered'
    BY <2>1, QuietList, ZenonT(30) DEF IsVerified, Present
  <2>4. OnlyNewestStands'
    BY <2>1, QuietNewest, ZenonT(30) DEF Leaving
  <2>5. DumpApart' /\ DumpTrue'
    BY <2>1, ZenonT(30) DEF SessionIInv, DumpApart, DumpTrue, Owns
  <2>6. ClosedFree' /\ RivalsFound'
    <3>1. ClosedFree'
      BY <2>1, ZenonT(30) DEF SessionIInv, ClosedFree, AcceptIdle, Entering
    <3>2. RivalsFound'
      BY <2>1, ZenonT(30) DEF SessionIInv, RivalsFound, RivalFound, Entering, IsVerified, Present, Owns
    <3> QED
      BY <3>1, <3>2, ZenonT(30)
  <2> QED
    BY <2>2, <2>3, <2>4, <2>5, <2>6, ZenonT(30) DEF SessionIInv
<1>2. CASE Accept
  BY <1>2, AcceptKeeps, ZenonT(30)
<1>3. CASE LiveUpgrade
  BY <1>3, LiveUpgradeKeeps, ZenonT(30)
<1>4. ASSUME NEW d \in dump, TakeOver(d) PROVE SessionIInv'
  BY <1>4, TakeOverKeeps, ZenonT(30)
<1>5. ASSUME NEW c \in SCell, Collect(c) \/ Login(c) \/ Disconnect(c) \/ CloseSocket(c) \/ FreeClient(c)
      PROVE  SessionIInv'
  BY <1>5, CollectKeeps, LoginKeeps, DisconnectKeeps, CloseSocketKeeps, FreeClientKeeps, ZenonT(30)
<1> QED
  BY <1>1, <1>2, <1>3, <1>4, <1>5, ZenonT(30) DEF SessionNext

(* The invariant holds always. *)
THEOREM SessionInvariant == SessionSpec => []SessionIInv
  BY SessionInitIInv, SessionStep, PTL DEF SessionSpec

(* Of the verified clients of one user only the newest one is not on its   *)
(* way out, with any number of clients, names, descriptors and upgrades    *)
(* (clientlist_add, login_handler, accept_liveupgrade_single).             *)
THEOREM NewestAlwaysStands == SessionSpec => []OnlyNewestStands
<1>1. SessionIInv => OnlyNewestStands
  BY ZenonT(30) DEF SessionIInv
<1> QED
  BY <1>1, SessionInvariant, PTL

(* The list tells truly whether a verified client of a name is connected   *)
(* (clientlist_check_if_validated_client, as the Q construct asks it).     *)
THEOREM LookupAlwaysTruthful == SessionSpec => []LookupTruthful
  BY InvLookup, SessionInvariant, PTL

(* A step from a state of the invariant keeps the sessions. *)
LEMMA StepKeeps == SessionIInv /\ [SessionNext]_sessionVars => [SessionsKept]_sessionVars
<1> SUFFICES ASSUME SessionIInv, SessionNext PROVE SessionsKept
  BY ZenonT(30)
<1>1. SessionTypes /\ DumpTrue /\ RivalsFound /\ DumpApart
  BY ZenonT(30) DEF SessionIInv
<1>2. ASSUME NEW r \in before, NEW d \in dump \ dump', d.fd = r.fd, sock'[r.fd] # "free"
      PROVE  \E c \in SCell :
               /\ cell'[c].fd = r.fd /\ cell'[c].st = "queued"
               /\ cell'[c].phase = r.phase /\ cell'[c].validated = r.validated
               /\ r.phase = "connected" => cell'[c].user = r.user
  <2>1. PICK x \in dump : TakeOver(x)
    <3>1. CASE Accept
      BY <1>2, <3>1, ZenonT(30) DEF Accept, upgradeVars
    <3>2. CASE LiveUpgrade
      BY <1>2, <3>2, ZenonT(30) DEF LiveUpgrade, AcceptIdle
    <3>3. ASSUME NEW c \in SCell, Collect(c) \/ Login(c) \/ Disconnect(c) \/ CloseSocket(c) \/ FreeClient(c)
          PROVE  FALSE
      BY <1>2, <3>3, ZenonT(30) DEF Collect, Login, Disconnect, CloseSocket, FreeClient, upgradeVars
    <3> QED
      BY <3>1, <3>2, <3>3, ZenonT(30) DEF SessionNext
  <2>2. x = d
    BY <1>2, <2>1, ZenonT(30) DEF TakeOver
  <2>3. d \in DumpRec /\ d = Dumped(r) /\ r \in ClientRec /\ d.fd \in SFd
    <3>1. d \in DumpRec /\ d = Dumped(r) /\ r \in ClientRec
      BY <1>1, <1>2, ZenonT(30) DEF SessionTypes, DumpTrue
    <3> QED
      BY <3>1, SMTT(30) DEF DumpRec
  <2>4. d.phase = r.phase /\ d.validated = r.validated /\ d.user = r.user
    BY <1>2, <2>3, DumpedIs, ZenonT(30)
  <2>5. PICK c \in SCell : Taken(d, c)
    <3>1. GoneAway(d) \/ \E c \in SCell : Taken(d, c)
      BY <2>1, <2>2, ZenonT(30) DEF TakeOver, GoneAway, Taken, FreeIn, Lowest
    <3>2. ~GoneAway(d)
      BY <1>1, <1>2, <2>3, ZenonT(30) DEF GoneAway, SessionTypes
    <3> QED
      BY <3>1, <3>2, ZenonT(30)
  <2> DEFINE s == TakenOver(d)
  <2>6. /\ s \in ClientRec /\ s.st = "queued" /\ s.fd = d.fd /\ s.phase = d.phase
        /\ s.validated = d.validated /\ (d.phase = "connected" => s.user = d.user)
    BY <2>3, TakenOverIs, ZenonT(30)
  <2> HIDE DEF s
  <2>7. MayEnter(c, s)
    <3>1. d.phase \in Phase
      BY <2>3, SMTT(30) DEF DumpRec
    <3>2. d.phase = "login" => ~d.validated
      BY <1>1, <1>2, ZenonT(30) DEF DumpApart
    <3>3. cell[c].old_fd = 0 /\ ~IsVerified(c)
      BY <2>5, ZenonT(30) DEF Taken, SessionIInv, OldFds, IsVerified, Present
    <3> QED
      BY <2>3, <2>6, <3>1, <3>2, <3>3, ZenonT(30) DEF MayEnter, Phase
  <2>8. LoginAdded(c, s)
    BY <2>5, ZenonT(30) DEF Taken, s
  <2>9. cell'[c] = AddedCell(c, s)
    BY <1>1, <2>7, <2>8, AddedFields, OneCell, ZenonT(30) DEF SessionTypes
  <2> DEFINE a == AddedCell(c, s)
  <2>10. /\ a.st = s.st /\ a.phase = s.phase /\ a.fd = s.fd /\ a.user = s.user
         /\ a.validated = s.validated
    BY <2>7, <2>8, AddedFields, ZenonT(30)
  <2>11. cell'[c] = a
    BY <2>9
  <2> HIDE DEF a
  <2> QED
    BY <1>2, <2>4, <2>6, <2>10, <2>11, ZenonT(30)
<1>3. ASSUME NEW c \in SCell, Entering(c), sock[cell[c].old_fd] = "open"
      PROVE  \E d \in Verified(cell[c].user) : d # c /\ cell[d].fd = cell[c].old_fd
  BY <1>1, <1>3, ZenonT(30) DEF RivalsFound, RivalFound, Verified, IsVerified
<1> QED
  BY <1>2, <1>3, ZenonT(30) DEF SessionsKept

(* A live upgrade keeps the sessions of the clients it takes over, and     *)
(* disconnects nobody but the older one of two clients of one name         *)
(* (accept_liveupgrade_single).                                            *)
THEOREM UpgradeAlwaysKeeps == SessionSpec => UpgradeKeeps
  BY SessionInvariant, StepKeeps, PTL DEF SessionSpec, UpgradeKeeps
=============================================================================
