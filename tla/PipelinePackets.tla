--------------------------- MODULE PipelinePackets ---------------------------
(***************************************************************************)
(* The packets of Pipeline, for any number of workers, submitters, packets *)
(* and contents.  Where they are: none is lost or queued twice and those   *)
(* of one producer stay in order.  And the dupe check: copies are kept     *)
(* apart and duplicates have originals.                                    *)
(***************************************************************************)
EXTENDS PipelineTypes

(* What every holder holds. *)
Items == [Holder -> Seq(Pbuf)]
AllHeld == [h \in Holder |-> Held(h)]

(***************************************************************************)
(* Of the packets 1..n, those not in gone are each in exactly one place.   *)
(***************************************************************************)
Accounted(H, n, gone) ==
    /\ gone \subseteq 1..n
    /\ \A h \in Holder : \A i \in 1..Len(H[h]) : H[h][i].id \in (1..n) \ gone
    /\ \A h, g \in Holder : \A i \in 1..Len(H[h]), j \in 1..Len(H[g]) :
         H[h][i].id = H[g][j].id => h = g /\ i = j
    /\ \A id \in (1..n) \ gone :
         \E h \in Holder : \E i \in 1..Len(H[h]) : H[h][i].id = id

(* How far a holder is from the global queues. *)
Rank(h) ==
    CASE h[1] = "global" -> 0
      [] h[1] = "out" -> 1
      [] h[1] = "list" -> 2
      [] h[1] = "incoming" -> 3
      [] h[1] = "local" -> 4

(* A packet in h is ahead of one in g on the way to the same queue. *)
Ahead(h, g) ==
    /\ Rank(h) < Rank(g)
    /\ h[1] \in {"out", "global"} /\ g[1] \in {"out", "global"} => h[2] = g[2]

(* Packets of one producer are in order, also from holder to holder. *)
InOrder(H) ==
    \A h, g \in Holder : \A i \in 1..Len(H[h]), j \in 1..Len(H[g]) :
        /\ H[h][i].src = H[g][j].src
        /\ Ahead(h, g) \/ (h = g /\ i < j)
        => H[h][i].id < H[g][j].id

-----------------------------------------------------------------------------
(***************************************************************************)
(* The first k packets of a go to the end of b; numbers and marks may      *)
(* change, identities and producers do not.                                *)
(***************************************************************************)
Same(p, r) == p.id = r.id /\ p.src = r.src

Moves(H, G, a, b, k) ==
    /\ Len(G[a]) = Len(H[a]) - k
    /\ Len(G[b]) = Len(H[b]) + k
    /\ \A i \in 1..(Len(H[a]) - k) : Same(G[a][i], H[a][i + k])
    /\ \A i \in 1..Len(H[b]) : Same(G[b][i], H[b][i])
    /\ \A i \in 1..k : Same(G[b][Len(H[b]) + i], H[a][i])
    /\ \A h \in Holder \ {a, b} : G[h] = H[h]

(* Where the packet that is now the i-th of h was before. *)
FromHolder(H, a, b, h, i) == IF h = b /\ i > Len(H[b]) THEN a ELSE h
FromIndex(H, a, b, k, h, i) ==
    IF h = a THEN i + k ELSE IF h = b /\ i > Len(H[b]) THEN i - Len(H[b]) ELSE i

(* Every packet was somewhere before, as itself. *)
LEMMA MoveOrigin ==
    ASSUME NEW H \in Items, NEW G \in Items, NEW a \in Holder, NEW b \in Holder,
           a # b, NEW k \in 0..Len(H[a]), Moves(H, G, a, b, k),
           NEW h \in Holder, NEW i \in 1..Len(G[h])
    PROVE  /\ FromHolder(H, a, b, h, i) \in Holder
           /\ FromIndex(H, a, b, k, h, i) \in 1..Len(H[FromHolder(H, a, b, h, i)])
           /\ Same(G[h][i], H[FromHolder(H, a, b, h, i)][FromIndex(H, a, b, k, h, i)])
<1>1. Len(H[a]) \in Nat /\ Len(H[b]) \in Nat
  BY SMTT(30) DEF Items
<1>2. k \in Nat /\ k <= Len(H[a])
  BY SMTT(30), <1>1
<1>3. CASE h = a
  <2>1. i \in 1..(Len(H[a]) - k)
    BY ZenonT(30), <1>3 DEF Moves
  <2>2. i + k \in 1..Len(H[a])
    BY SMTT(30), <1>1, <1>2, <2>1
  <2>3. QED
    BY ZenonT(30), <1>3, <2>1, <2>2 DEF Moves, FromHolder, FromIndex
<1>4. CASE h = b /\ i > Len(H[b])
  <2>1. i \in 1..(Len(H[b]) + k)
    BY ZenonT(30), <1>4 DEF Moves
  <2>2. /\ i - Len(H[b]) \in 1..k /\ i - Len(H[b]) \in 1..Len(H[a])
        /\ Len(H[b]) + (i - Len(H[b])) = i
    BY SMTT(30), <1>1, <1>2, <1>4, <2>1
  <2>3. Same(G[b][Len(H[b]) + (i - Len(H[b]))], H[a][i - Len(H[b])])
    BY ZenonT(30), <2>2 DEF Moves
  <2>4. FromHolder(H, a, b, h, i) = a /\ FromIndex(H, a, b, k, h, i) = i - Len(H[b])
    BY ZenonT(30), <1>4 DEF FromHolder, FromIndex
  <2>5. QED
    BY ZenonT(30), <1>4, <2>2, <2>3, <2>4
<1>5. CASE h = b /\ ~(i > Len(H[b]))
  <2>1. i \in 1..Len(H[b])
    BY SMTT(30), <1>1, <1>2, <1>5 DEF Moves
  <2>2. FromHolder(H, a, b, h, i) = b /\ FromIndex(H, a, b, k, h, i) = i
    BY ZenonT(30), <1>5 DEF FromHolder, FromIndex
  <2>3. QED
    BY ZenonT(30), <1>5, <2>1, <2>2 DEF Moves
<1>6. CASE h # a /\ h # b
  <2>1. G[h] = H[h]
    BY ZenonT(30), <1>6 DEF Moves
  <2>2. QED
    BY ZenonT(30), <1>6, <2>1 DEF FromHolder, FromIndex, Same
<1>7. QED
  BY ZenonT(30), <1>3, <1>4, <1>5, <1>6

(* Different packets were in different places. *)
LEMMA MoveInjective ==
    ASSUME NEW H \in Items, NEW G \in Items, NEW a \in Holder, NEW b \in Holder,
           a # b, NEW k \in 0..Len(H[a]), Moves(H, G, a, b, k),
           NEW h \in Holder, NEW i \in 1..Len(G[h]),
           NEW g \in Holder, NEW j \in 1..Len(G[g]),
           FromHolder(H, a, b, h, i) = FromHolder(H, a, b, g, j),
           FromIndex(H, a, b, k, h, i) = FromIndex(H, a, b, k, g, j)
    PROVE  h = g /\ i = j
<1>1. /\ Len(H[a]) \in Nat /\ Len(H[b]) \in Nat /\ i \in Nat /\ j \in Nat
      /\ i >= 1 /\ j >= 1
  BY SMTT(30) DEF Items
<1>2. k \in Nat /\ k <= Len(H[a])
  BY SMTT(30), <1>1
<1>3. (h = b => i <= Len(H[b]) + k) /\ (g = b => j <= Len(H[b]) + k)
  BY SMTT(30) DEF Moves
<1>4. QED
  BY SMTT(30), <1>1, <1>2, <1>3 DEF FromHolder, FromIndex

(* Every packet is still somewhere. *)
LEMMA MoveKept ==
    ASSUME NEW H \in Items, NEW G \in Items, NEW a \in Holder, NEW b \in Holder,
           a # b, NEW k \in 0..Len(H[a]), Moves(H, G, a, b, k),
           NEW h \in Holder, NEW i \in 1..Len(H[h])
    PROVE  \E g \in Holder : \E j \in 1..Len(G[g]) : Same(G[g][j], H[h][i])
<1>1. Len(H[a]) \in Nat /\ Len(H[b]) \in Nat
  BY SMTT(30) DEF Items
<1>2. k \in Nat /\ k <= Len(H[a])
  BY SMTT(30), <1>1
<1>3. CASE h = a /\ i > k
  <2>1. i - k \in 1..(Len(H[a]) - k) /\ (i - k) + k = i
    BY SMTT(30), <1>1, <1>2, <1>3
  <2>2. Same(G[a][i - k], H[a][(i - k) + k]) /\ i - k \in 1..Len(G[a])
    BY ZenonT(30), <2>1 DEF Moves
  <2>3. QED
    BY ZenonT(30), <1>3, <2>1, <2>2
<1>4. CASE h = a /\ ~(i > k)
  <2>1. i \in 1..k /\ Len(H[b]) + i \in 1..(Len(H[b]) + k)
    BY SMTT(30), <1>1, <1>2, <1>4
  <2>2. Same(G[b][Len(H[b]) + i], H[a][i]) /\ Len(H[b]) + i \in 1..Len(G[b])
    BY ZenonT(30), <2>1 DEF Moves
  <2>3. QED
    BY ZenonT(30), <1>4, <2>2
<1>5. CASE h = b
  <2>1. i \in 1..Len(H[b]) /\ i \in 1..(Len(H[b]) + k)
    BY SMTT(30), <1>1, <1>2, <1>5
  <2>2. Same(G[b][i], H[b][i]) /\ i \in 1..Len(G[b])
    BY ZenonT(30), <2>1 DEF Moves
  <2>3. QED
    BY ZenonT(30), <1>5, <2>2
<1>6. CASE h # a /\ h # b
  <2>1. G[h] = H[h]
    BY ZenonT(30), <1>6 DEF Moves
  <2>2. QED
    BY ZenonT(30), <2>1 DEF Same
<1>7. QED
  BY ZenonT(30), <1>3, <1>4, <1>5, <1>6

(* A move keeps the account. *)
LEMMA MoveAccounted ==
    ASSUME NEW H \in Items, NEW G \in Items, NEW a \in Holder, NEW b \in Holder,
           a # b, NEW k \in 0..Len(H[a]), Moves(H, G, a, b, k),
           NEW n \in Nat, NEW gone, Accounted(H, n, gone)
    PROVE  Accounted(G, n, gone)
<1>1. ASSUME NEW h \in Holder, NEW i \in 1..Len(G[h])
      PROVE  G[h][i].id \in (1..n) \ gone
  <2>1. /\ FromHolder(H, a, b, h, i) \in Holder
        /\ FromIndex(H, a, b, k, h, i) \in 1..Len(H[FromHolder(H, a, b, h, i)])
        /\ G[h][i].id = H[FromHolder(H, a, b, h, i)][FromIndex(H, a, b, k, h, i)].id
    BY SMTT(30), MoveOrigin DEF Same
  <2>2. QED
    BY SMTT(30), <2>1 DEF Accounted
<1>2. ASSUME NEW h \in Holder, NEW g \in Holder,
             NEW i \in 1..Len(G[h]), NEW j \in 1..Len(G[g]),
             G[h][i].id = G[g][j].id
      PROVE  h = g /\ i = j
  <2> DEFINE h0 == FromHolder(H, a, b, h, i)
             i0 == FromIndex(H, a, b, k, h, i)
             g0 == FromHolder(H, a, b, g, j)
             j0 == FromIndex(H, a, b, k, g, j)
  <2>1. h0 \in Holder /\ i0 \in 1..Len(H[h0]) /\ G[h][i].id = H[h0][i0].id
    BY SMTT(30), MoveOrigin DEF Same
  <2>2. g0 \in Holder /\ j0 \in 1..Len(H[g0]) /\ G[g][j].id = H[g0][j0].id
    BY SMTT(30), MoveOrigin DEF Same
  <2>3. h0 = g0 /\ i0 = j0
    <3> HIDE DEF h0, i0, g0, j0
    <3>1. H[h0][i0].id = H[g0][j0].id
      BY ZenonT(30), <1>2, <2>1, <2>2
    <3>2. QED
      BY SMTT(30), <2>1, <2>2, <3>1 DEF Accounted
  <2>4. QED
    BY SMTT(30), <2>3, MoveInjective
<1>3. ASSUME NEW id \in (1..n) \ gone
      PROVE  \E g \in Holder : \E j \in 1..Len(G[g]) : G[g][j].id = id
  <2>1. PICK h \in Holder : \E i \in 1..Len(H[h]) : H[h][i].id = id
    BY ZenonT(30) DEF Accounted
  <2>2. PICK i \in 1..Len(H[h]) : H[h][i].id = id
    BY ZenonT(30), <2>1
  <2>3. \E g \in Holder : \E j \in 1..Len(G[g]) : Same(G[g][j], H[h][i])
    BY ZenonT(30), MoveKept
  <2>4. QED
    BY ZenonT(30), <2>2, <2>3 DEF Same
<1>4. QED
  BY ZenonT(30), <1>1, <1>2, <1>3 DEF Accounted

(* No packet of g comes from a producer that a packet of a comes from. *)
Foreign(H, g, a) ==
    \A i \in 1..Len(H[g]), j \in 1..Len(H[a]) : H[g][i].src # H[a][j].src

(***************************************************************************)
(* A move to the next holder keeps the order, when what lies between is    *)
(* of other producers.                                                     *)
(***************************************************************************)
LEMMA MoveInOrder ==
    ASSUME NEW H \in Items, NEW G \in Items, NEW a \in Holder, NEW b \in Holder,
           a # b, NEW k \in 0..Len(H[a]), Moves(H, G, a, b, k), InOrder(H),
           Ahead(b, a), ~Ahead(a, b), ~Ahead(a, a), ~Ahead(b, b),
           \A g \in Holder : Ahead(g, b) => Ahead(g, a),
           \A g \in Holder \ {a} : Ahead(b, g) => Ahead(a, g) \/ Foreign(H, g, a)
    PROVE  InOrder(G)
<1> SUFFICES ASSUME NEW h \in Holder, NEW g \in Holder,
                    NEW i \in 1..Len(G[h]), NEW j \in 1..Len(G[g]),
                    G[h][i].src = G[g][j].src,
                    Ahead(h, g) \/ (h = g /\ i < j)
             PROVE  G[h][i].id < G[g][j].id
  BY ZenonT(30) DEF InOrder
<1> DEFINE h0 == FromHolder(H, a, b, h, i)
           i0 == FromIndex(H, a, b, k, h, i)
           g0 == FromHolder(H, a, b, g, j)
           j0 == FromIndex(H, a, b, k, g, j)
<1>1. /\ h0 \in Holder /\ i0 \in 1..Len(H[h0])
      /\ G[h][i].id = H[h0][i0].id /\ G[h][i].src = H[h0][i0].src
  BY SMTT(30), MoveOrigin DEF Same
<1>2. /\ g0 \in Holder /\ j0 \in 1..Len(H[g0])
      /\ G[g][j].id = H[g0][j0].id /\ G[g][j].src = H[g0][j0].src
  BY SMTT(30), MoveOrigin DEF Same
<1>3. /\ Len(H[a]) \in Nat /\ Len(H[b]) \in Nat /\ i \in Nat /\ j \in Nat
      /\ i >= 1 /\ j >= 1
  BY SMTT(30) DEF Items
<1>4. k \in Nat /\ k <= Len(H[a])
  BY SMTT(30), <1>3
<1>5. (h = b => i <= Len(H[b]) + k) /\ (g = b => j <= Len(H[b]) + k)
  BY SMTT(30) DEF Moves
<1>6. ~(Foreign(H, g, a) /\ h0 = a /\ g0 = g)
  BY ZenonT(30), <1>1, <1>2 DEF Foreign
<1>7. Ahead(h0, g0) \/ (h0 = g0 /\ i0 < j0)
  <2>1. CASE h = g
    BY SMTT(30), <1>3, <1>4, <1>5, <2>1 DEF h0, i0, g0, j0, FromHolder, FromIndex
  <2>2. CASE h # g
    BY SMTT(30), <1>3, <1>4, <1>5, <1>6, <2>2 DEF h0, i0, g0, j0, FromHolder, FromIndex
  <2>3. QED
    BY ZenonT(30), <2>1, <2>2
<1> HIDE DEF h0, i0, g0, j0
<1>8. H[h0][i0].id < H[g0][j0].id
  BY ZenonT(30), <1>1, <1>2, <1>7 DEF InOrder
<1>9. QED
  BY ZenonT(30), <1>1, <1>2, <1>8

-----------------------------------------------------------------------------
(* The packet e is put at the end of b. *)
Adds(H, G, b, e) ==
    /\ Len(G[b]) = Len(H[b]) + 1
    /\ \A i \in 1..Len(H[b]) : G[b][i] = H[b][i]
    /\ G[b][Len(H[b]) + 1] = e
    /\ \A h \in Holder \ {b} : G[h] = H[h]

(* The last packet of b is the new one, all others were there. *)
LEMMA AddOrigin ==
    ASSUME NEW H \in Items, NEW G \in Items, NEW b \in Holder, NEW e, Adds(H, G, b, e),
           NEW h \in Holder, NEW i \in 1..Len(G[h])
    PROVE  \/ h = b /\ i = Len(H[b]) + 1 /\ G[h][i] = e
           \/ i \in 1..Len(H[h]) /\ G[h][i] = H[h][i]
<1>1. Len(H[b]) \in Nat
  BY SMTT(30) DEF Items
<1>2. CASE h = b
  BY SMTT(30), <1>1, <1>2 DEF Adds
<1>3. CASE h # b
  BY ZenonT(30), <1>3 DEF Adds
<1>4. QED
  BY ZenonT(30), <1>2, <1>3

(* A new packet is accounted for. *)
LEMMA AddAccounted ==
    ASSUME NEW H \in Items, NEW G \in Items, NEW b \in Holder, NEW e, Adds(H, G, b, e),
           NEW n \in Nat, NEW gone, Accounted(H, n, gone), e.id = n + 1
    PROVE  Accounted(G, n + 1, gone)
<1>0. /\ n + 1 \in (1..(n + 1)) \ gone /\ gone \subseteq 1..(n + 1)
      /\ \A id \in (1..n) \ gone : id \in (1..(n + 1)) \ gone /\ id # n + 1
  BY SMTT(30) DEF Accounted
<1>1. ASSUME NEW h \in Holder, NEW i \in 1..Len(H[h])
      PROVE  H[h][i].id \in (1..(n + 1)) \ gone /\ H[h][i].id # n + 1
  BY ZenonT(30), <1>0 DEF Accounted
<1>2. ASSUME NEW h \in Holder, NEW i \in 1..Len(G[h])
      PROVE  G[h][i].id \in (1..(n + 1)) \ gone
  BY SMTT(30), <1>0, <1>1, AddOrigin
<1>3. ASSUME NEW h \in Holder, NEW g \in Holder,
             NEW i \in 1..Len(G[h]), NEW j \in 1..Len(G[g]),
             G[h][i].id = G[g][j].id
      PROVE  h = g /\ i = j
  <2>1. \/ h = b /\ i = Len(H[b]) + 1 /\ G[h][i] = e
        \/ i \in 1..Len(H[h]) /\ G[h][i] = H[h][i]
    BY SMTT(30), AddOrigin
  <2>2. \/ g = b /\ j = Len(H[b]) + 1 /\ G[g][j] = e
        \/ j \in 1..Len(H[g]) /\ G[g][j] = H[g][j]
    BY SMTT(30), AddOrigin
  <2>3. CASE i \in 1..Len(H[h]) /\ G[h][i] = H[h][i] /\ j \in 1..Len(H[g]) /\ G[g][j] = H[g][j]
    BY SMTT(30), <1>3, <2>3 DEF Accounted
  <2>4. QED
    BY ZenonT(30), <1>1, <1>3, <2>1, <2>2, <2>3
<1>4. ASSUME NEW id \in (1..(n + 1)) \ gone
      PROVE  \E g \in Holder : \E j \in 1..Len(G[g]) : G[g][j].id = id
  <2>1. CASE id = n + 1
    <3>1. Len(H[b]) + 1 \in 1..Len(G[b]) /\ G[b][Len(H[b]) + 1] = e
      BY SMTT(30) DEF Adds, Items
    <3>2. QED
      BY ZenonT(30), <2>1, <3>1
  <2>2. CASE id # n + 1
    <3>1. id \in (1..n) \ gone
      BY SMTT(30), <2>2
    <3>2. PICK h \in Holder : \E i \in 1..Len(H[h]) : H[h][i].id = id
      BY ZenonT(30), <3>1 DEF Accounted
    <3>3. PICK i \in 1..Len(H[h]) : H[h][i].id = id
      BY ZenonT(30), <3>2
    <3>4. i \in 1..Len(G[h]) /\ G[h][i] = H[h][i]
      <4>1. CASE h = b
        <5>1. Len(H[b]) \in Nat /\ Len(G[b]) = Len(H[b]) + 1 /\ G[b][i] = H[b][i]
          BY SMTT(30), <4>1 DEF Adds, Items
        <5>2. QED
          BY SMTT(30), <4>1, <5>1
      <4>2. CASE h # b
        BY ZenonT(30), <4>2 DEF Adds
      <4>3. QED
        BY ZenonT(30), <4>1, <4>2
    <3>5. QED
      BY ZenonT(30), <3>3, <3>4
  <2>3. QED
    BY ZenonT(30), <2>1, <2>2
<1>5. QED
  BY ZenonT(30), <1>0, <1>2, <1>3, <1>4 DEF Accounted

(* The youngest packet goes to the end of a holder ahead of no other. *)
LEMMA AddInOrder ==
    ASSUME NEW H \in Items, NEW G \in Items, NEW b \in Holder, NEW e, Adds(H, G, b, e),
           NEW n \in Nat, NEW gone, Accounted(H, n, gone), e.id = n + 1,
           InOrder(H), \A g \in Holder : ~Ahead(b, g)
    PROVE  InOrder(G)
<1> SUFFICES ASSUME NEW h \in Holder, NEW g \in Holder,
                    NEW i \in 1..Len(G[h]), NEW j \in 1..Len(G[g]),
                    G[h][i].src = G[g][j].src,
                    Ahead(h, g) \/ (h = g /\ i < j)
             PROVE  G[h][i].id < G[g][j].id
  BY ZenonT(30) DEF InOrder
<1>0. Len(H[b]) \in Nat /\ Len(G[b]) = Len(H[b]) + 1
  BY SMTT(30) DEF Items, Adds
<1>1. \/ h = b /\ i = Len(H[b]) + 1 /\ G[h][i] = e
      \/ i \in 1..Len(H[h]) /\ G[h][i] = H[h][i]
  BY SMTT(30), AddOrigin
<1>2. \/ g = b /\ j = Len(H[b]) + 1 /\ G[g][j] = e
      \/ j \in 1..Len(H[g]) /\ G[g][j] = H[g][j]
  BY SMTT(30), AddOrigin
<1>3. CASE h = b /\ i = Len(H[b]) + 1
  <2>1. h = g /\ i < j /\ g = b
    BY ZenonT(30), <1>3
  <2>2. QED
    BY SMTT(30), <1>0, <1>3, <2>1
<1>4. CASE i \in 1..Len(H[h]) /\ G[h][i] = H[h][i]
  <2>1. CASE j \in 1..Len(H[g]) /\ G[g][j] = H[g][j]
    BY ZenonT(30), <1>4, <2>1 DEF InOrder
  <2>2. CASE G[g][j] = e
    <3>1. H[h][i].id \in 1..n
      BY ZenonT(30), <1>4 DEF Accounted
    <3>2. QED
      BY SMTT(30), <1>4, <2>2, <3>1
  <2>3. QED
    BY ZenonT(30), <1>2, <2>1, <2>2
<1>5. QED
  BY ZenonT(30), <1>1, <1>3, <1>4

(* What a holds is given up. *)
Clears(H, G, a) ==
    /\ G[a] = <<>>
    /\ \A h \in Holder \ {a} : G[h] = H[h]

(* The packets of a holder that is given up are gone. *)
LEMMA ClearAccounted ==
    ASSUME NEW H \in Items, NEW G \in Items, NEW a \in Holder, Clears(H, G, a),
           NEW n \in Nat, NEW gone, Accounted(H, n, gone)
    PROVE  Accounted(G, n, gone \cup Ids(H[a])) /\ (InOrder(H) => InOrder(G))
<1>1. \A h \in Holder : \A i \in 1..Len(G[h]) :
         h # a /\ i \in 1..Len(H[h]) /\ G[h][i] = H[h][i]
  BY SMTT(30) DEF Clears
<1>2. \A id : id \in Ids(H[a]) <=> \E i \in 1..Len(H[a]) : H[a][i].id = id
  <2>1. DOMAIN H[a] = 1..Len(H[a])
    BY SMTT(30) DEF Items
  <2>2. QED
    BY ZenonT(30), <2>1 DEF Ids
<1>3. gone \cup Ids(H[a]) \subseteq 1..n
  <2>1. gone \subseteq 1..n /\ \A i \in 1..Len(H[a]) : H[a][i].id \in 1..n
    BY ZenonT(30) DEF Accounted
  <2>2. QED
    BY ZenonT(30), <1>2, <2>1
<1>4. ASSUME NEW h \in Holder, NEW i \in 1..Len(G[h])
      PROVE  G[h][i].id \in (1..n) \ (gone \cup Ids(H[a]))
  <2>1. h # a /\ i \in 1..Len(H[h]) /\ G[h][i] = H[h][i]
    BY ZenonT(30), <1>1
  <2>2. H[h][i].id \in (1..n) \ gone
    BY ZenonT(30), <2>1 DEF Accounted
  <2>3. ~\E j \in 1..Len(H[a]) : H[a][j].id = H[h][i].id
    BY ZenonT(30), <2>1 DEF Accounted
  <2>4. QED
    BY ZenonT(30), <1>2, <2>1, <2>2, <2>3
<1>5. ASSUME NEW h \in Holder, NEW g \in Holder,
             NEW i \in 1..Len(G[h]), NEW j \in 1..Len(G[g]),
             G[h][i].id = G[g][j].id
      PROVE  h = g /\ i = j
  <2>1. i \in 1..Len(H[h]) /\ G[h][i] = H[h][i]
    BY ZenonT(30), <1>1
  <2>2. j \in 1..Len(H[g]) /\ G[g][j] = H[g][j]
    BY ZenonT(30), <1>1
  <2>3. QED
    BY SMTT(30), <1>5, <2>1, <2>2 DEF Accounted
<1>6. ASSUME NEW id \in (1..n) \ (gone \cup Ids(H[a]))
      PROVE  \E g \in Holder : \E j \in 1..Len(G[g]) : G[g][j].id = id
  <2>1. PICK h \in Holder : \E i \in 1..Len(H[h]) : H[h][i].id = id
    BY ZenonT(30) DEF Accounted
  <2>2. h # a
    BY ZenonT(30), <1>2, <2>1
  <2>3. G[h] = H[h]
    BY ZenonT(30), <2>2 DEF Clears
  <2>4. QED
    BY ZenonT(30), <2>1, <2>3
<1>7. Accounted(G, n, gone \cup Ids(H[a]))
  BY ZenonT(30), <1>3, <1>4, <1>5, <1>6 DEF Accounted
<1>8. ASSUME InOrder(H) PROVE InOrder(G)
  <2> SUFFICES ASSUME NEW h \in Holder, NEW g \in Holder,
                      NEW i \in 1..Len(G[h]), NEW j \in 1..Len(G[g]),
                      G[h][i].src = G[g][j].src,
                      Ahead(h, g) \/ (h = g /\ i < j)
               PROVE  G[h][i].id < G[g][j].id
    BY ZenonT(30) DEF InOrder
  <2>1. i \in 1..Len(H[h]) /\ G[h][i] = H[h][i]
    BY ZenonT(30), <1>1
  <2>2. j \in 1..Len(H[g]) /\ G[g][j] = H[g][j]
    BY ZenonT(30), <1>1
  <2>3. QED
    BY ZenonT(30), <1>8, <2>1, <2>2 DEF InOrder
<1>9. QED
  BY ZenonT(30), <1>7, <1>8

-----------------------------------------------------------------------------
(* The holders by their kinds. *)
LEMMA Holders ==
    /\ \A p \in Producer : <<"local", p>> \in Holder /\ <<"incoming", p>> \in Holder
    /\ \A q \in Queue : <<"out", q>> \in Holder /\ <<"global", q>> \in Holder
    /\ <<"list", 0>> \in Holder
BY ZenonT(30) DEF Holder

(* There are no others. *)
LEMMA HolderKinds ==
    ASSUME NEW h \in Holder
    PROVE  \/ \E p \in Producer : h = <<"local", p>> \/ h = <<"incoming", p>>
           \/ \E q \in Queue : h = <<"out", q>> \/ h = <<"global", q>>
           \/ h = <<"list", 0>>
BY SMTT(30) DEF Holder

(* What each of them holds. *)
LEMMA HeldBefore ==
    /\ \A p \in Producer : /\ AllHeld[<<"local", p>>] = pbuf_incoming_local[p]
                           /\ AllHeld[<<"incoming", p>>] = pbuf_incoming[p]
    /\ \A q \in Queue : /\ AllHeld[<<"out", q>>] = pb_out[q]
                        /\ AllHeld[<<"global", q>>] = pbuf_global[q]
    /\ AllHeld[<<"list", 0>>] = pb_list
BY ZenonT(30), Holders DEF AllHeld, Held

(* What each of them holds after a step. *)
LEMMA HeldAfter ==
    /\ \A p \in Producer : /\ AllHeld'[<<"local", p>>] = pbuf_incoming_local'[p]
                           /\ AllHeld'[<<"incoming", p>>] = pbuf_incoming'[p]
    /\ \A q \in Queue : /\ AllHeld'[<<"out", q>>] = pb_out'[q]
                        /\ AllHeld'[<<"global", q>>] = pbuf_global'[q]
    /\ AllHeld'[<<"list", 0>>] = pb_list'
BY ZenonT(30), Holders DEF AllHeld, Held

(* Holders hold sequences of packets. *)
LEMMA HeldType == TypeOK => AllHeld \in Items
<1> SUFFICES ASSUME TypeOK, NEW h \in Holder PROVE AllHeld[h] \in Seq(Pbuf)
  BY ZenonT(30) DEF AllHeld, Items
<1>1. /\ \A p \in Producer : /\ pbuf_incoming_local[p] \in Seq(Pbuf)
                             /\ pbuf_incoming[p] \in Seq(Pbuf)
      /\ \A q \in Queue : pb_out[q] \in Seq(Pbuf) /\ pbuf_global[q] \in Seq(Pbuf)
      /\ pb_list \in Seq(Pbuf)
  BY ZenonT(30) DEF TypeOK
<1>2. QED
  BY ZenonT(30), <1>1, HolderKinds, HeldBefore

(* Also after a step. *)
LEMMA HeldTypeAfter == TypeOK' => AllHeld' \in Items
<1> SUFFICES ASSUME TypeOK', NEW h \in Holder PROVE AllHeld'[h] \in Seq(Pbuf)
  BY ZenonT(30) DEF AllHeld, Items
<1>1. /\ \A p \in Producer : /\ pbuf_incoming_local'[p] \in Seq(Pbuf)
                             /\ pbuf_incoming'[p] \in Seq(Pbuf)
      /\ \A q \in Queue : pb_out'[q] \in Seq(Pbuf) /\ pbuf_global'[q] \in Seq(Pbuf)
      /\ pb_list' \in Seq(Pbuf)
  BY ZenonT(30) DEF TypeOK
<1>2. QED
  BY ZenonT(30), <1>1, HolderKinds, HeldAfter

(* The packets are numbered by naturals. *)
LEMMA ReceivedNat == TypeOK => received \in Nat
BY SMTT(30), ConstantsAssumption DEF TypeOK

(* A step leaves a holder alone when it leaves its variable alone. *)
LEMMA HeldSame ==
    ASSUME NEW h \in Holder,
           \A p \in Producer :
              /\ h = <<"local", p>> => pbuf_incoming_local'[p] = pbuf_incoming_local[p]
              /\ h = <<"incoming", p>> => pbuf_incoming'[p] = pbuf_incoming[p],
           \A q \in Queue :
              /\ h = <<"out", q>> => pb_out'[q] = pb_out[q]
              /\ h = <<"global", q>> => pbuf_global'[q] = pbuf_global[q],
           h = <<"list", 0>> => pb_list' = pb_list
    PROVE  AllHeld'[h] = AllHeld[h]
<1>1. CASE \E p \in Producer : h = <<"local", p>> \/ h = <<"incoming", p>>
  <2>1. PICK p \in Producer : h = <<"local", p>> \/ h = <<"incoming", p>>
    BY ZenonT(30), <1>1
  <2>2. /\ AllHeld[<<"local", p>>] = pbuf_incoming_local[p]
        /\ AllHeld'[<<"local", p>>] = pbuf_incoming_local'[p]
        /\ AllHeld[<<"incoming", p>>] = pbuf_incoming[p]
        /\ AllHeld'[<<"incoming", p>>] = pbuf_incoming'[p]
    BY ZenonT(30), HeldBefore, HeldAfter
  <2>3. QED
    BY ZenonT(30), <2>1, <2>2
<1>2. CASE \E q \in Queue : h = <<"out", q>> \/ h = <<"global", q>>
  <2>1. PICK q \in Queue : h = <<"out", q>> \/ h = <<"global", q>>
    BY ZenonT(30), <1>2
  <2>2. /\ AllHeld[<<"out", q>>] = pb_out[q]
        /\ AllHeld'[<<"out", q>>] = pb_out'[q]
        /\ AllHeld[<<"global", q>>] = pbuf_global[q]
        /\ AllHeld'[<<"global", q>>] = pbuf_global'[q]
    BY ZenonT(30), HeldBefore, HeldAfter
  <2>3. QED
    BY ZenonT(30), <2>1, <2>2
<1>3. CASE h = <<"list", 0>>
  BY ZenonT(30), <1>3, HeldBefore, HeldAfter
<1>4. QED
  BY ZenonT(30), <1>1, <1>2, <1>3, HolderKinds

(* How far each of them is from the global queues. *)
LEMMA Ranks ==
    /\ \A p \in Producer : Rank(<<"local", p>>) = 4 /\ Rank(<<"incoming", p>>) = 3
    /\ \A q \in Queue : Rank(<<"out", q>>) = 1 /\ Rank(<<"global", q>>) = 0
    /\ Rank(<<"list", 0>>) = 2
BY ZenonT(30) DEF Rank

(* The rank of a holder says what it is. *)
RankIs(h) ==
    \/ Rank(h) = 4 /\ h[1] = "local" /\ h[2] \in Producer
    \/ Rank(h) = 3 /\ h[1] = "incoming" /\ h[2] \in Producer
    \/ Rank(h) = 2 /\ h[1] = "list" /\ h[2] = 0
    \/ Rank(h) = 1 /\ h[1] = "out" /\ h[2] \in Queue
    \/ Rank(h) = 0 /\ h[1] = "global" /\ h[2] \in Queue

(* A holder is its kind and whose it is. *)
LEMMA HolderParts ==
    ASSUME NEW h \in Holder
    PROVE  RankIs(h) /\ h = <<h[1], h[2]>>
<1>1. ASSUME NEW p \in Producer, h = <<"local", p>> PROVE RankIs(h)
  <2>1. h[1] = "local" /\ h[2] = p /\ Rank(h) = 4
    BY ZenonT(30), <1>1, Ranks
  <2>2. QED
    BY ZenonT(30), <2>1 DEF RankIs
<1>2. ASSUME NEW p \in Producer, h = <<"incoming", p>> PROVE RankIs(h)
  <2>1. h[1] = "incoming" /\ h[2] = p /\ Rank(h) = 3
    BY ZenonT(30), <1>2, Ranks
  <2>2. QED
    BY ZenonT(30), <2>1 DEF RankIs
<1>3. ASSUME NEW q \in Queue, h = <<"out", q>> PROVE RankIs(h)
  <2>1. h[1] = "out" /\ h[2] = q /\ Rank(h) = 1
    BY ZenonT(30), <1>3, Ranks
  <2>2. QED
    BY ZenonT(30), <2>1 DEF RankIs
<1>4. ASSUME NEW q \in Queue, h = <<"global", q>> PROVE RankIs(h)
  <2>1. h[1] = "global" /\ h[2] = q /\ Rank(h) = 0
    BY ZenonT(30), <1>4, Ranks
  <2>2. QED
    BY ZenonT(30), <2>1 DEF RankIs
<1>5. ASSUME h = <<"list", 0>> PROVE RankIs(h)
  <2>1. h[1] = "list" /\ h[2] = 0 /\ Rank(h) = 2
    BY ZenonT(30), <1>5, Ranks
  <2>2. QED
    BY ZenonT(30), <2>1 DEF RankIs
<1>6. RankIs(h)
  BY ZenonT(30), <1>1, <1>2, <1>3, <1>4, <1>5, HolderKinds
<1>7. h = <<h[1], h[2]>>
  BY SMTT(30), HolderKinds
<1>8. QED
  BY ZenonT(30), <1>6, <1>7

(* Nothing is ahead of itself, and no two are ahead of each other. *)
LEMMA AheadStrict ==
    ASSUME NEW h \in Holder, NEW g \in Holder
    PROVE  ~Ahead(h, h) /\ (Ahead(h, g) => ~Ahead(g, h) /\ h # g)
<1>1. RankIs(h) /\ RankIs(g)
  BY ZenonT(30), HolderParts
<1>2. QED
  BY SMTT(30), <1>1 DEF Ahead, RankIs

(* b is the next holder on the way from a. *)
Adjacent(a, b) ==
    /\ Ahead(b, a)
    /\ \A g \in Holder : Ahead(g, b) => Ahead(g, a)
    /\ \A g \in Holder \ {a} :
         Ahead(b, g) => Ahead(a, g)
                        \/ (a[1] \in {"local", "incoming"} /\ g[1] = a[1])

(* The way is from the local queue to a global one. *)
LEMMA TheWay ==
    ASSUME NEW a \in Holder, NEW b \in Holder,
           \/ a[1] = "local" /\ b[1] = "incoming" /\ a[2] = b[2]
           \/ a[1] = "incoming" /\ b[1] = "list"
           \/ a[1] = "list" /\ b[1] = "out"
           \/ a[1] = "out" /\ b[1] = "global" /\ a[2] = b[2]
    PROVE  Adjacent(a, b)
<1>1. RankIs(a) /\ RankIs(b) /\ a = <<a[1], a[2]>>
  BY ZenonT(30), HolderParts
<1>2. Ahead(b, a)
  BY SMTT(30), <1>1 DEF Ahead, RankIs
<1>3. ASSUME NEW g \in Holder
      PROVE  Ahead(g, b) => Ahead(g, a)
  <2>1. RankIs(g)
    BY ZenonT(30), HolderParts
  <2>2. QED
    BY SMTT(30), <1>1, <2>1 DEF Ahead, RankIs
<1>4. ASSUME NEW g \in Holder, g # a, Ahead(b, g)
      PROVE  Ahead(a, g) \/ (a[1] \in {"local", "incoming"} /\ g[1] = a[1])
  <2>1. RankIs(g) /\ g = <<g[1], g[2]>>
    BY ZenonT(30), HolderParts
  <2>2. g[1] # a[1] \/ g[2] # a[2]
    BY ZenonT(30), <1>1, <1>4, <2>1
  <2>3. QED
    BY SMTT(30), <1>1, <1>4, <2>1, <2>2 DEF Ahead, RankIs
<1>5. QED
  BY ZenonT(30), <1>2, <1>3, <1>4 DEF Adjacent

(* The queues of a producer hold its own packets. *)
Own(H) ==
    \A p \in Producer : \A c \in {"local", "incoming"} :
        \A i \in 1..Len(H[<<c, p>>]) : H[<<c, p>>][i].src = p

Flow(H, n, gone) == Accounted(H, n, gone) /\ InOrder(H) /\ Own(H)

(* A packet stays with its producer until it is on the list. *)
Homely(a, b) ==
    \/ b[1] \notin {"local", "incoming"}
    \/ \E p \in Producer : a = <<"local", p>> /\ b = <<"incoming", p>>

(* A move along the way keeps the packets accounted for and in order. *)
LEMMA MoveFlow ==
    ASSUME NEW H \in Items, NEW G \in Items, NEW a \in Holder, NEW b \in Holder,
           NEW k \in 0..Len(H[a]), Moves(H, G, a, b, k), Adjacent(a, b), Homely(a, b),
           NEW n \in Nat, NEW gone, Flow(H, n, gone)
    PROVE  Flow(G, n, gone)
<1>1. /\ a # b /\ Ahead(b, a) /\ ~Ahead(a, b) /\ ~Ahead(a, a) /\ ~Ahead(b, b)
  BY ZenonT(30), AheadStrict DEF Adjacent
<1>2. Accounted(G, n, gone)
  BY ZenonT(30), <1>1, MoveAccounted DEF Flow
<1>3. InOrder(G)
  <2>1. ASSUME NEW g \in Holder, g # a, a[1] \in {"local", "incoming"}, g[1] = a[1]
        PROVE  Foreign(H, g, a)
    <3>1. /\ RankIs(a) /\ a = <<a[1], a[2]>>
          /\ RankIs(g) /\ g = <<g[1], g[2]>>
      BY ZenonT(30), HolderParts
    <3>2. a[2] \in Producer /\ g[2] \in Producer
      BY ZenonT(30), <2>1, <3>1 DEF RankIs
    <3>3. a[2] # g[2]
      BY ZenonT(30), <2>1, <3>1
    <3>4. /\ \A i \in 1..Len(H[a]) : H[a][i].src = a[2]
          /\ \A i \in 1..Len(H[g]) : H[g][i].src = g[2]
      <4>1. \A c \in {"local", "incoming"}, p \in Producer :
              \A i \in 1..Len(H[<<c, p>>]) : H[<<c, p>>][i].src = p
        BY ZenonT(30) DEF Flow, Own
      <4>2. a[1] \in {"local", "incoming"} /\ g[1] \in {"local", "incoming"}
        BY ZenonT(30), <2>1
      <4>3. /\ \A i \in 1..Len(H[<<a[1], a[2]>>]) : H[<<a[1], a[2]>>][i].src = a[2]
            /\ \A i \in 1..Len(H[<<g[1], g[2]>>]) : H[<<g[1], g[2]>>][i].src = g[2]
        BY ZenonT(30), <3>2, <4>1, <4>2
      <4>4. QED
        BY ZenonT(30), <3>1, <4>3
    <3>5. QED
      BY ZenonT(30), <3>3, <3>4 DEF Foreign
  <2>2. \A g \in Holder \ {a} : Ahead(b, g) => Ahead(a, g) \/ Foreign(H, g, a)
    BY ZenonT(30), <2>1 DEF Adjacent
  <2>3. QED
    BY ZenonT(30), <1>1, <2>2, MoveInOrder DEF Flow, Adjacent
<1>4. Own(G)
  <2> SUFFICES ASSUME NEW p \in Producer, NEW c \in {"local", "incoming"},
                      NEW i \in 1..Len(G[<<c, p>>])
               PROVE  G[<<c, p>>][i].src = p
    BY ZenonT(30) DEF Own
  <2> DEFINE h == <<c, p>>
  <2>1. h \in Holder
    BY ZenonT(30), Holders
  <2>2. /\ FromHolder(H, a, b, h, i) \in Holder
        /\ FromIndex(H, a, b, k, h, i) \in 1..Len(H[FromHolder(H, a, b, h, i)])
        /\ G[h][i].src = H[FromHolder(H, a, b, h, i)][FromIndex(H, a, b, k, h, i)].src
    BY SMTT(30), <1>1, <2>1, MoveOrigin DEF Same
  <2>3. FromHolder(H, a, b, h, i) \in {<<"local", p>>, <<"incoming", p>>}
    BY SMTT(30) DEF FromHolder, Homely
  <2>4. QED
    BY ZenonT(30), <2>2, <2>3 DEF Flow, Own
<1>5. QED
  BY ZenonT(30), <1>2, <1>3, <1>4 DEF Flow

(* A new packet on the local queue of its producer. *)
LEMMA AddFlow ==
    ASSUME NEW H \in Items, NEW G \in Items, NEW p \in Producer, NEW e,
           Adds(H, G, <<"local", p>>, e), e.src = p,
           NEW n \in Nat, NEW gone, Flow(H, n, gone), e.id = n + 1
    PROVE  Flow(G, n + 1, gone)
<1> DEFINE b == <<"local", p>>
<1>1. b \in Holder
  BY ZenonT(30), Holders
<1>2. Accounted(G, n + 1, gone)
  BY ZenonT(30), <1>1, AddAccounted DEF Flow
<1>3. InOrder(G)
  <2>1. ASSUME NEW g \in Holder PROVE ~Ahead(b, g)
    <3>1. RankIs(g) /\ Rank(b) = 4
      BY ZenonT(30), HolderParts, Ranks
    <3>2. QED
      BY SMTT(30), <3>1 DEF Ahead, RankIs
  <2>2. QED
    BY ZenonT(30), <1>1, <2>1, AddInOrder DEF Flow
<1>4. Own(G)
  <2> SUFFICES ASSUME NEW r \in Producer, NEW c \in {"local", "incoming"},
                      NEW i \in 1..Len(G[<<c, r>>])
               PROVE  G[<<c, r>>][i].src = r
    BY ZenonT(30) DEF Own
  <2> DEFINE h == <<c, r>>
  <2>1. h \in Holder
    BY ZenonT(30), Holders
  <2>2. \/ h = b /\ G[h][i] = e
        \/ i \in 1..Len(H[h]) /\ G[h][i] = H[h][i]
    BY SMTT(30), <1>1, <2>1, AddOrigin
  <2>3. CASE h = b /\ G[h][i] = e
    <3>1. r = p
      BY ZenonT(30), <2>3
    <3>2. QED
      BY ZenonT(30), <2>3, <3>1
  <2>4. CASE i \in 1..Len(H[h]) /\ G[h][i] = H[h][i]
    BY ZenonT(30), <2>4 DEF Flow, Own
  <2>5. QED
    BY ZenonT(30), <2>2, <2>3, <2>4
<1>5. QED
  BY ZenonT(30), <1>2, <1>3, <1>4 DEF Flow

(* A holder is given up with what it holds. *)
LEMMA ClearFlow ==
    ASSUME NEW H \in Items, NEW G \in Items, NEW a \in Holder, Clears(H, G, a),
           NEW n \in Nat, NEW gone, Flow(H, n, gone)
    PROVE  Flow(G, n, gone \cup Ids(H[a]))
<1>1. Accounted(G, n, gone \cup Ids(H[a])) /\ InOrder(G)
  BY ZenonT(30), ClearAccounted DEF Flow
<1>2. Own(G)
  <2> SUFFICES ASSUME NEW r \in Producer, NEW c \in {"local", "incoming"},
                      NEW i \in 1..Len(G[<<c, r>>])
               PROVE  G[<<c, r>>][i].src = r
    BY ZenonT(30) DEF Own
  <2>1. <<c, r>> \in Holder
    BY ZenonT(30), Holders
  <2>2. i \in 1..Len(H[<<c, r>>]) /\ G[<<c, r>>][i] = H[<<c, r>>][i]
    BY SMTT(30), <2>1 DEF Clears
  <2>3. QED
    BY ZenonT(30), <2>2 DEF Flow, Own
<1>3. QED
  BY ZenonT(30), <1>1, <1>2 DEF Flow

(* Appending one whole queue to another is a move. *)
LEMMA ConcatMoves ==
    ASSUME NEW H \in Items, NEW G \in Items, NEW a \in Holder, NEW b \in Holder,
           a # b, G[a] = <<>>, G[b] = H[b] \o H[a],
           \A h \in Holder \ {a, b} : G[h] = H[h]
    PROVE  Moves(H, G, a, b, Len(H[a])) /\ Len(H[a]) \in 0..Len(H[a])
<1> DEFINE s == H[a]
           t == H[b]
<1>1. s \in Seq(Pbuf) /\ t \in Seq(Pbuf)
  BY ZenonT(30) DEF Items
<1> HIDE DEF s, t
<1>2. /\ Len(s) \in Nat /\ Len(t \o s) = Len(t) + Len(s)
      /\ \A i \in 1..Len(t) : (t \o s)[i] = t[i]
      /\ \A i \in 1..Len(s) : (t \o s)[Len(t) + i] = s[i]
  BY SMTT(30), <1>1
<1>3. Len(G[a]) = 0 /\ Len(s) - Len(s) = 0 /\ 1..(Len(s) - Len(s)) = {}
      /\ Len(s) \in 0..Len(s)
  BY SMTT(30), <1>2
<1>4. QED
  BY ZenonT(30), <1>2, <1>3 DEF Moves, Same, s, t

(* So is taking the head of a list and appending it, newly marked. *)
LEMMA HeadMoves ==
    ASSUME NEW H \in Items, NEW G \in Items, NEW a \in Holder, NEW b \in Holder,
           a # b, H[a] # <<>>, G[a] = Tail(H[a]),
           NEW e, Same(e, Head(H[a])), G[b] = Append(H[b], e),
           \A h \in Holder \ {a, b} : G[h] = H[h]
    PROVE  Moves(H, G, a, b, 1) /\ 1 \in 0..Len(H[a])
<1> DEFINE s == H[a]
           t == H[b]
<1>1. s \in Seq(Pbuf) /\ t \in Seq(Pbuf) /\ s # <<>>
  BY ZenonT(30) DEF Items
<1> HIDE DEF s, t
<1>2. /\ Len(s) \in Nat /\ Len(s) >= 1 /\ Len(Tail(s)) = Len(s) - 1
      /\ \A i \in 1..(Len(s) - 1) : Tail(s)[i] = s[i + 1]
      /\ Head(s) = s[1]
  BY SMTT(30), <1>1
<1>3. /\ Len(t) \in Nat /\ Len(Append(t, e)) = Len(t) + 1
      /\ \A i \in 1..Len(t) : Append(t, e)[i] = t[i]
      /\ Append(t, e)[Len(t) + 1] = e
  BY SMTT(30), <1>1
<1>4. 1 \in 0..Len(s) /\ \A i \in 1..1 : i = 1
  BY SMTT(30), <1>2
<1>5. \A i \in 1..1 : Same(Append(t, e)[Len(t) + i], s[i])
  <2>1. Same(Append(t, e)[Len(t) + 1], s[1])
    BY ZenonT(30), <1>2, <1>3 DEF s
  <2>2. QED
    BY ZenonT(30), <1>4, <2>1
<1>6. QED
  BY ZenonT(30), <1>2, <1>3, <1>4, <1>5 DEF Moves, Same, s, t

-----------------------------------------------------------------------------
(***************************************************************************)
(* The inductive invariant: the packets are accounted for and in order.    *)
(* The dupecheck thread has a list only while it checks it, and is stopped *)
(* while the workers are changed.                                          *)
(***************************************************************************)
Busy ==
    /\ pb_list # <<>> => dpc = "check"
    /\ apc \in {"adjust", "joinWorker"} => dpc = "stopped"

Packets ==
    /\ TypeOK
    /\ Flow(AllHeld, received, lost)
    /\ Busy

(* Nothing is held initially. *)
LEMMA PacketsInit == Init => Packets
<1> SUFFICES ASSUME Init PROVE Packets
  BY ZenonT(30)
<1>1. TypeOK
  BY ZenonT(30), TypeInit
<1>2. ASSUME NEW h \in Holder PROVE AllHeld[h] = <<>>
  <2>1. /\ \A p \in Producer : pbuf_incoming_local[p] = <<>> /\ pbuf_incoming[p] = <<>>
        /\ \A q \in Queue : pb_out[q] = <<>> /\ pbuf_global[q] = <<>>
        /\ pb_list = <<>>
    BY ZenonT(30) DEF Init
  <2>2. QED
    BY ZenonT(30), <2>1, HolderKinds, HeldBefore
<1>3. \A h \in Holder : 1..Len(AllHeld[h]) = {}
  BY SMTT(30), <1>2
<1>4. \A p \in Producer, c \in {"local", "incoming"} : <<c, p>> \in Holder
  BY ZenonT(30), Holders
<1>5. received = 0 /\ lost = {} /\ 1..received = {} /\ Busy
  BY SMTT(30) DEF Init, Busy
<1>6. Accounted(AllHeld, received, lost)
  BY ZenonT(30), <1>3, <1>5 DEF Accounted
<1>7. InOrder(AllHeld)
  BY ZenonT(30), <1>3 DEF InOrder
<1>8. Own(AllHeld)
  BY ZenonT(30), <1>3, <1>4 DEF Own
<1>9. QED
  BY ZenonT(30), <1>1, <1>5, <1>6, <1>7, <1>8 DEF Packets, Flow

(* Steps that move no packet. *)
LEMMA PacketsStay ==
    ASSUME Flow(AllHeld, received, lost),
           UNCHANGED <<producerVars, pb_list, pb_out, pbuf_global, historyVars>>
    PROVE  Flow(AllHeld', received', lost')
<1>1. AllHeld' = AllHeld
  <2>1. ASSUME NEW h \in Holder PROVE AllHeld'[h] = AllHeld[h]
    BY ZenonT(30), HeldSame DEF producerVars
  <2>2. AllHeld = [h \in Holder |-> AllHeld[h]] /\ AllHeld' = [h \in Holder |-> AllHeld'[h]]
    BY ZenonT(30) DEF AllHeld
  <2>3. QED
    BY ZenonT(30), <2>1, <2>2
<1>2. received' = received /\ lost' = lost
  BY ZenonT(30) DEF historyVars
<1>3. QED
  BY ZenonT(30), <1>1, <1>2

(* A worker receives a packet. *)
LEMMA PacketsReceive ==
    ASSUME TypeOK, TypeOK', Flow(AllHeld, received, lost),
           NEW w \in Worker, NEW k \in Key, NEW l \in BOOLEAN, Receive(w, k, l)
    PROVE  Flow(AllHeld', received', lost')
<1> DEFINE e == NewPbuf(w, k, l)
<1>1. w \in Producer
  BY SMTT(30), ConstantsAssumption DEF Worker, Producer
<1>2. /\ pbuf_incoming_local' = [pbuf_incoming_local EXCEPT ![w] = Append(@, e)]
      /\ received' = received + 1
      /\ UNCHANGED <<pbuf_incoming, pb_list, pb_out, pbuf_global, lost>>
  BY ZenonT(30) DEF Receive, checkVars, queueVars
<1>3. e.id = received + 1 /\ e.src = w
  BY ZenonT(30) DEF NewPbuf
<1> HIDE DEF e
<1>4. AllHeld \in Items /\ AllHeld' \in Items /\ received \in Nat
  BY ZenonT(30), HeldType, HeldTypeAfter, ReceivedNat
<1>5. Adds(AllHeld, AllHeld', <<"local", w>>, e)
  <2>1. /\ pbuf_incoming_local'[w] = Append(pbuf_incoming_local[w], e)
        /\ \A p \in Producer : p # w => pbuf_incoming_local'[p] = pbuf_incoming_local[p]
    BY ZenonT(30), <1>1, <1>2 DEF TypeOK
  <2>2. ASSUME NEW h \in Holder, h # <<"local", w>> PROVE AllHeld'[h] = AllHeld[h]
    BY ZenonT(30), <1>2, <2>1, <2>2, HeldSame
  <2>3. AllHeld'[<<"local", w>>] = Append(AllHeld[<<"local", w>>], e)
    BY ZenonT(30), <1>1, <2>1, HeldBefore, HeldAfter
  <2>4. AllHeld[<<"local", w>>] \in Seq(Pbuf)
    BY ZenonT(30), <1>1, <1>4, Holders DEF Items
  <2> DEFINE s == AllHeld[<<"local", w>>]
  <2> HIDE DEF s
  <2>5. /\ Len(Append(s, e)) = Len(s) + 1
        /\ \A i \in 1..Len(s) : Append(s, e)[i] = s[i]
        /\ Append(s, e)[Len(s) + 1] = e
    BY SMTT(30), <2>4 DEF s
  <2>6. QED
    BY ZenonT(30), <2>2, <2>3, <2>5 DEF Adds, s
<1>6. QED
  BY ZenonT(30), <1>1, <1>2, <1>3, <1>4, <1>5, AddFlow
(***************************************************************************)
(* incoming_flush, when H is what is held with s on the local queue of p:  *)
(* a failed trylock moves nothing, otherwise the whole queue moves.        *)
(***************************************************************************)
LEMMA FlushFlow ==
    ASSUME TypeOK, TypeOK', NEW p \in Producer, NEW H \in Items, NEW s, Flush(p, s),
           UNCHANGED <<pb_list, pb_out, pbuf_global>>,
           H[<<"local", p>>] = s,
           \A h \in Holder \ {<<"local", p>>} : H[h] = AllHeld[h],
           NEW n \in Nat, NEW gone, Flow(H, n, gone)
    PROVE  Flow(AllHeld', n, gone)
<1> DEFINE a == <<"local", p>>
           b == <<"incoming", p>>
<1>1. /\ a \in Holder /\ b \in Holder /\ a # b /\ a[1] = "local" /\ b[1] = "incoming"
      /\ a[2] = p /\ b[2] = p
  BY ZenonT(30), Holders
<1>2. AllHeld' \in Items
  BY ZenonT(30), HeldTypeAfter
<1>3. /\ pbuf_incoming_local \in [Producer -> Seq(Pbuf)]
      /\ pbuf_incoming \in [Producer -> Seq(Pbuf)]
  BY ZenonT(30) DEF TypeOK
<1>4. AllHeld[b] = pbuf_incoming[p] /\ AllHeld'[a] = pbuf_incoming_local'[p]
      /\ AllHeld'[b] = pbuf_incoming'[p]
  BY ZenonT(30), HeldBefore, HeldAfter
<1>5. H[a] = s /\ H[b] = pbuf_incoming[p]
  BY ZenonT(30), <1>1, <1>4
<1> HIDE DEF a, b
<1>6. CASE MutexHeld(p)
  <2>1. /\ pbuf_incoming_local' = [pbuf_incoming_local EXCEPT ![p] = s]
        /\ pbuf_incoming' = pbuf_incoming
    BY ZenonT(30), <1>6 DEF Flush
  <2>2. /\ pbuf_incoming_local'[p] = s
        /\ \A r \in Producer : r # p => pbuf_incoming_local'[r] = pbuf_incoming_local[r]
    BY ZenonT(30), <1>3, <2>1
  <2>3. ASSUME NEW h \in Holder, h # a PROVE AllHeld'[h] = AllHeld[h]
    BY ZenonT(30), <2>1, <2>2, <2>3, HeldSame DEF a
  <2>4. ASSUME NEW h \in Holder PROVE AllHeld'[h] = H[h]
    BY ZenonT(30), <1>1, <1>4, <1>5, <2>2, <2>3 DEF a
  <2>5. AllHeld' = H
    BY SMTT(30), <1>2, <2>4 DEF Items
  <2>6. QED
    BY ZenonT(30), <2>5
<1>7. CASE ~MutexHeld(p)
  <2>1. /\ pbuf_incoming' = [pbuf_incoming EXCEPT ![p] = pbuf_incoming[p] \o s]
        /\ pbuf_incoming_local' = [pbuf_incoming_local EXCEPT ![p] = <<>>]
    BY ZenonT(30), <1>7 DEF Flush
  <2>2. /\ pbuf_incoming_local'[p] = <<>>
        /\ pbuf_incoming'[p] = pbuf_incoming[p] \o s
        /\ \A r \in Producer : r # p => /\ pbuf_incoming_local'[r] = pbuf_incoming_local[r]
                                        /\ pbuf_incoming'[r] = pbuf_incoming[r]
    BY ZenonT(30), <1>3, <2>1
  <2>3. ASSUME NEW h \in Holder, h # a, h # b PROVE AllHeld'[h] = AllHeld[h]
    BY ZenonT(30), <2>2, <2>3, HeldSame DEF a, b
  <2>4. \A h \in Holder \ {a, b} : AllHeld'[h] = H[h]
    BY ZenonT(30), <2>3 DEF a
  <2>5. AllHeld'[a] = <<>> /\ AllHeld'[b] = H[b] \o H[a]
    BY ZenonT(30), <1>4, <1>5, <2>2
  <2>6. Moves(H, AllHeld', a, b, Len(H[a])) /\ Len(H[a]) \in 0..Len(H[a])
    BY ZenonT(30), <1>1, <1>2, <2>4, <2>5, ConcatMoves
  <2>7. Adjacent(a, b)
    BY ZenonT(30), <1>1, TheWay
  <2>8. Homely(a, b)
    BY ZenonT(30) DEF Homely, a, b
  <2>9. QED
    BY ZenonT(30), <1>1, <1>2, <2>6, <2>7, <2>8, MoveFlow
<1>8. QED
  BY ZenonT(30), <1>6, <1>7

(* A worker comes back from xpoll(). *)
LEMMA PacketsPollDone ==
    ASSUME TypeOK, TypeOK', Flow(AllHeld, received, lost),
           NEW w \in Worker, PollDone(w)
    PROVE  Flow(AllHeld', received', lost')
<1>1. w \in Producer
  BY SMTT(30), ConstantsAssumption DEF Worker, Producer
<1>2. UNCHANGED <<pb_list, pb_out, pbuf_global, received, lost>>
  BY ZenonT(30) DEF PollDone, checkVars, queueVars, historyVars
<1>3. CASE pbuf_incoming_local[w] # <<>>
  <2>1. Flush(w, pbuf_incoming_local[w])
    BY ZenonT(30), <1>3 DEF PollDone
  <2>2. AllHeld \in Items /\ received \in Nat
    BY ZenonT(30), HeldType, ReceivedNat
  <2>3. AllHeld[<<"local", w>>] = pbuf_incoming_local[w]
    BY ZenonT(30), <1>1, HeldBefore
  <2>4. Flow(AllHeld', received, lost)
    BY ZenonT(30), <1>1, <1>2, <2>1, <2>2, <2>3, FlushFlow
  <2>5. QED
    BY ZenonT(30), <1>2, <2>4
<1>4. CASE pbuf_incoming_local[w] = <<>>
  <2>1. UNCHANGED producerVars
    BY ZenonT(30), <1>4 DEF PollDone
  <2>2. QED
    BY ZenonT(30), <1>2, <2>1, PacketsStay DEF historyVars
<1>5. QED
  BY ZenonT(30), <1>3, <1>4

(* An HTTP or UDP submission. *)
LEMMA PacketsPseudoPush ==
    ASSUME TypeOK, TypeOK', Flow(AllHeld, received, lost),
           NEW p \in Producer, NEW k \in Key, NEW l \in BOOLEAN, PseudoPush(p, k, l)
    PROVE  Flow(AllHeld', received', lost')
<1> DEFINE e == NewPbuf(p, k, l)
           a == <<"local", p>>
           s == AllHeld[a]
           H == [AllHeld EXCEPT ![a] = Append(s, e)]
<1>1. /\ Flush(p, Append(pbuf_incoming_local[p], e))
      /\ received < MaxPackets /\ received' = received + 1
      /\ UNCHANGED <<pb_list, pb_out, pbuf_global, lost>>
  BY ZenonT(30) DEF PseudoPush, checkVars, queueVars
<1>2. e.id = received + 1 /\ e.src = p
  BY ZenonT(30) DEF NewPbuf
<1>3. e \in Pbuf
  BY ZenonT(30), <1>1, NewPbufType
<1>4. AllHeld \in Items /\ received \in Nat /\ a \in Holder
  BY ZenonT(30), HeldType, ReceivedNat, Holders
<1>5. s = pbuf_incoming_local[p]
  BY ZenonT(30), HeldBefore
<1>6. s \in Seq(Pbuf) /\ AllHeld \in [Holder -> Seq(Pbuf)]
  BY ZenonT(30), <1>4 DEF Items
<1> HIDE DEF e, a, s
<1>7. /\ Append(s, e) \in Seq(Pbuf)
      /\ Len(Append(s, e)) = Len(s) + 1
      /\ \A i \in 1..Len(s) : Append(s, e)[i] = s[i]
      /\ Append(s, e)[Len(s) + 1] = e
  BY SMTT(30), <1>3, <1>6
<1>8. /\ H \in Items /\ H[a] = Append(s, e)
      /\ \A h \in Holder \ {a} : H[h] = AllHeld[h]
  BY ZenonT(30), <1>4, <1>6, <1>7 DEF Items
<1> HIDE DEF H
<1>9. Adds(AllHeld, H, a, e)
  BY ZenonT(30), <1>7, <1>8 DEF Adds, s
<1>10. Flow(H, received + 1, lost)
  BY ZenonT(30), <1>2, <1>4, <1>8, <1>9, AddFlow DEF a
<1>11. received + 1 \in Nat
  BY SMTT(30), <1>4
<1>12. Flow(AllHeld', received + 1, lost)
  BY ZenonT(30), <1>1, <1>5, <1>8, <1>10, <1>11, FlushFlow DEF a
<1>13. QED
  BY ZenonT(30), <1>1, <1>12

(* dupecheck_drain_worker takes the list of a producer. *)
LEMMA PacketsDrainTake ==
    ASSUME TypeOK, TypeOK', Flow(AllHeld, received, lost), pb_list = <<>>, DrainTake
    PROVE  Flow(AllHeld', received', lost')
<1> DEFINE a == <<"incoming", walk>>
           b == <<"list", 0>>
<1>1. walk \in Producer
  BY ZenonT(30) DEF DrainTake, TypeOK
<1>2. /\ pb_list' = pbuf_incoming[walk]
      /\ pbuf_incoming' = [pbuf_incoming EXCEPT ![walk] = <<>>]
      /\ UNCHANGED <<pbuf_incoming_local, pb_out, pbuf_global, received, lost>>
  BY ZenonT(30) DEF DrainTake, queueVars, historyVars
<1>3. pbuf_incoming \in [Producer -> Seq(Pbuf)]
  BY ZenonT(30) DEF TypeOK
<1>4. /\ a \in Holder /\ b \in Holder /\ a # b /\ a[1] = "incoming" /\ b[1] = "list"
  BY ZenonT(30), <1>1, Holders
<1>5. AllHeld \in Items /\ AllHeld' \in Items /\ received \in Nat
  BY ZenonT(30), HeldType, HeldTypeAfter, ReceivedNat
<1>6. /\ pbuf_incoming'[walk] = <<>>
      /\ \A r \in Producer : r # walk => pbuf_incoming'[r] = pbuf_incoming[r]
  BY ZenonT(30), <1>1, <1>2, <1>3
<1>7. /\ AllHeld[a] = pbuf_incoming[walk] /\ AllHeld[b] = <<>>
      /\ AllHeld'[a] = <<>> /\ AllHeld'[b] = pbuf_incoming[walk]
  BY ZenonT(30), <1>1, <1>2, <1>6, HeldBefore, HeldAfter
<1>8. pbuf_incoming[walk] = <<>> \o pbuf_incoming[walk]
  <2>1. pbuf_incoming[walk] \in Seq(Pbuf)
    BY ZenonT(30), <1>1, <1>3
  <2>2. QED
    BY SMTT(30), <2>1
<1> HIDE DEF a, b
<1>9. ASSUME NEW h \in Holder, h # a, h # b PROVE AllHeld'[h] = AllHeld[h]
  BY <1>2, <1>6, <1>9, HeldSame DEF a, b
<1>10. \A h \in Holder \ {a, b} : AllHeld'[h] = AllHeld[h]
  BY ZenonT(30), <1>9
<1>11. AllHeld'[b] = AllHeld[b] \o AllHeld[a]
  BY ZenonT(30), <1>7, <1>8
<1>12. /\ Moves(AllHeld, AllHeld', a, b, Len(AllHeld[a]))
       /\ Len(AllHeld[a]) \in 0..Len(AllHeld[a])
  BY ZenonT(30), <1>4, <1>5, <1>7, <1>10, <1>11, ConcatMoves
<1>13. Adjacent(a, b) /\ Homely(a, b)
  <2>1. Adjacent(a, b)
    BY ZenonT(30), <1>4, TheWay
  <2>2. QED
    BY ZenonT(30), <1>4, <2>1 DEF Homely
<1>14. Flow(AllHeld', received, lost)
  BY ZenonT(30), <1>4, <1>5, <1>12, <1>13, MoveFlow
<1>15. QED
  BY ZenonT(30), <1>2, <1>14

(* The head of the list goes to the end of one of the two chains. *)
LEMMA PacketsEmit ==
    ASSUME TypeOK, TypeOK', Flow(AllHeld, received, lost), pb_list # <<>>,
           NEW q \in Queue, NEW p, Same(p, Head(pb_list)), Emit(q, p), p \in Pbuf,
           pb_list' = Tail(pb_list),
           UNCHANGED <<producerVars, pbuf_global, historyVars>>
    PROVE  Flow(AllHeld', received', lost')
<1> DEFINE a == <<"list", 0>>
           b == <<"out", q>>
           e == [p EXCEPT !.seqnum = (dupecheck_seqnum[q] + 1) % SeqSpace,
                          !.checked = tick]
<1>1. Same(e, Head(pb_list))
  BY ZenonT(30) DEF Same, Pbuf
<1>2. pb_out' = [pb_out EXCEPT ![q] = Append(@, e)]
  BY ZenonT(30) DEF Emit
<1> HIDE DEF e
<1>3. pb_out \in [Queue -> Seq(Pbuf)]
  BY ZenonT(30) DEF TypeOK
<1>4. /\ a \in Holder /\ b \in Holder /\ a # b /\ a[1] = "list" /\ b[1] = "out"
  BY ZenonT(30), Holders
<1>5. AllHeld \in Items /\ AllHeld' \in Items /\ received \in Nat
  BY ZenonT(30), HeldType, HeldTypeAfter, ReceivedNat
<1>6. /\ pb_out'[q] = Append(pb_out[q], e)
      /\ \A r \in Queue : r # q => pb_out'[r] = pb_out[r]
  BY ZenonT(30), <1>2, <1>3
<1>7. /\ AllHeld[a] = pb_list /\ AllHeld[b] = pb_out[q]
      /\ AllHeld'[a] = Tail(pb_list) /\ AllHeld'[b] = Append(pb_out[q], e)
  BY ZenonT(30), <1>6, HeldBefore, HeldAfter
<1> HIDE DEF a, b
<1>8. ASSUME NEW h \in Holder, h # a, h # b PROVE AllHeld'[h] = AllHeld[h]
  BY ZenonT(30), <1>6, <1>8, HeldSame DEF a, b, producerVars
<1>9. \A h \in Holder \ {a, b} : AllHeld'[h] = AllHeld[h]
  BY ZenonT(30), <1>8
<1>10. Moves(AllHeld, AllHeld', a, b, 1) /\ 1 \in 0..Len(AllHeld[a])
  <2>1. /\ AllHeld[a] # <<>> /\ AllHeld'[a] = Tail(AllHeld[a])
        /\ Same(e, Head(AllHeld[a])) /\ AllHeld'[b] = Append(AllHeld[b], e)
    BY ZenonT(30), <1>1, <1>7
  <2>2. QED
    BY ZenonT(30), <1>4, <1>5, <1>9, <2>1, HeadMoves
<1>11. Adjacent(a, b) /\ Homely(a, b)
  <2>1. Adjacent(a, b)
    BY ZenonT(30), <1>4, TheWay
  <2>2. QED
    BY ZenonT(30), <1>4, <2>1 DEF Homely
<1>12. Flow(AllHeld', received, lost)
  BY ZenonT(30), <1>4, <1>5, <1>10, <1>11, MoveFlow
<1>13. QED
  BY ZenonT(30), <1>12 DEF historyVars

(* One packet of the list is checked. *)
LEMMA PacketsCheck ==
    ASSUME TypeOK, TypeOK', Flow(AllHeld, received, lost), CheckPacket
    PROVE  Flow(AllHeld', received', lost')
<1> DEFINE p == Head(pb_list)
           r == [p EXCEPT !.dup = TRUE]
<1>1. /\ pb_list # <<>> /\ pb_list' = Tail(pb_list)
      /\ UNCHANGED <<producerVars, pbuf_global, historyVars>>
  BY ZenonT(30) DEF CheckPacket, queueVars
<1>2. p \in Pbuf
  <2>1. pb_list \in Seq(Pbuf)
    BY ZenonT(30) DEF TypeOK
  <2>2. QED
    BY SMTT(30), <1>1, <2>1
<1>3. r \in Pbuf /\ Same(r, p) /\ Same(p, p)
  BY ZenonT(30), <1>2 DEF Pbuf, Same
<1>4. Emit("dupe", r) \/ Emit("main", p) \/ Emit("dupe", p)
  BY ZenonT(30) DEF CheckPacket, CheckDupe, CheckUnique, CheckAllocFail
<1>5. "dupe" \in Queue /\ "main" \in Queue
  BY ZenonT(30) DEF Queue
<1> HIDE DEF r
<1>6. CASE Emit("dupe", r)
  BY ZenonT(30), <1>1, <1>3, <1>5, <1>6, PacketsEmit
<1>7. CASE Emit("main", p)
  BY ZenonT(30), <1>1, <1>2, <1>3, <1>5, <1>7, PacketsEmit
<1>8. CASE Emit("dupe", p)
  BY ZenonT(30), <1>1, <1>2, <1>3, <1>5, <1>8, PacketsEmit
<1>9. QED
  BY ZenonT(30), <1>4, <1>6, <1>7, <1>8

(* One chain goes to the end of its global queue. *)
LEMMA SpliceFlow ==
    ASSUME NEW H \in Items, NEW G \in Items, NEW q \in Queue,
           G[<<"out", q>>] = <<>>,
           G[<<"global", q>>] = H[<<"global", q>>] \o H[<<"out", q>>],
           \A h \in Holder \ {<<"out", q>>, <<"global", q>>} : G[h] = H[h],
           NEW n \in Nat, NEW gone, Flow(H, n, gone)
    PROVE  Flow(G, n, gone)
<1> DEFINE a == <<"out", q>>
           b == <<"global", q>>
<1>1. /\ a \in Holder /\ b \in Holder /\ a # b /\ a[1] = "out" /\ b[1] = "global"
      /\ a[2] = q /\ b[2] = q
  BY ZenonT(30), Holders
<1> HIDE DEF a, b
<1>2. Moves(H, G, a, b, Len(H[a])) /\ Len(H[a]) \in 0..Len(H[a])
  BY ZenonT(30), <1>1, ConcatMoves DEF a, b
<1>3. Adjacent(a, b) /\ Homely(a, b)
  <2>1. Adjacent(a, b)
    BY ZenonT(30), <1>1, TheWay
  <2>2. QED
    BY ZenonT(30), <1>1, <2>1 DEF Homely
<1>4. QED
  BY ZenonT(30), <1>1, <1>2, <1>3, MoveFlow

(* Both chains are spliced: first the one, then the other. *)
LEMMA PacketsSplice ==
    ASSUME TypeOK, TypeOK', Flow(AllHeld, received, lost), Splice
    PROVE  Flow(AllHeld', received', lost')
<1> DEFINE m == <<"out", "main">>
           g == <<"global", "main">>
           d == <<"out", "dupe">>
           f == <<"global", "dupe">>
           H == [h \in Holder |-> IF h = m THEN <<>>
                                  ELSE IF h = g THEN AllHeld[g] \o AllHeld[m]
                                  ELSE AllHeld[h]]
<1>1. /\ pbuf_global' = [q \in Queue |-> pbuf_global[q] \o pb_out[q]]
      /\ pb_out' = [q \in Queue |-> <<>>]
      /\ UNCHANGED <<producerVars, pb_list, historyVars>>
  BY ZenonT(30) DEF Splice
<1>2. AllHeld \in Items /\ AllHeld' \in Items /\ received \in Nat
  BY ZenonT(30), HeldType, HeldTypeAfter, ReceivedNat
<1>3. "main" \in Queue /\ "dupe" \in Queue /\ \A q \in Queue : q = "main" \/ q = "dupe"
  BY ZenonT(30) DEF Queue
<1>4. /\ m \in Holder /\ g \in Holder /\ d \in Holder /\ f \in Holder
      /\ m # g /\ m # d /\ m # f /\ g # d /\ g # f /\ d # f
  BY ZenonT(30), <1>3, Holders
<1>5. /\ AllHeld'[m] = <<>> /\ AllHeld'[d] = <<>>
      /\ AllHeld'[g] = AllHeld[g] \o AllHeld[m]
      /\ AllHeld'[f] = AllHeld[f] \o AllHeld[d]
  <2>1. /\ AllHeld'[m] = pb_out'["main"] /\ AllHeld'[d] = pb_out'["dupe"]
        /\ AllHeld'[g] = pbuf_global'["main"] /\ AllHeld'[f] = pbuf_global'["dupe"]
        /\ AllHeld[m] = pb_out["main"] /\ AllHeld[d] = pb_out["dupe"]
        /\ AllHeld[g] = pbuf_global["main"] /\ AllHeld[f] = pbuf_global["dupe"]
    BY ZenonT(30), <1>3, HeldBefore, HeldAfter
  <2>2. QED
    BY ZenonT(30), <1>1, <1>3, <2>1
<1>6. ASSUME NEW h \in Holder, h \notin {m, g, d, f} PROVE AllHeld'[h] = AllHeld[h]
  <2>1. \A q \in Queue : h # <<"out", q>> /\ h # <<"global", q>>
    BY ZenonT(30), <1>3, <1>6
  <2>2. QED
    BY ZenonT(30), <1>1, <2>1, HeldSame DEF producerVars
<1> HIDE DEF m, g, d, f
<1>7. /\ H[m] = <<>> /\ H[g] = AllHeld[g] \o AllHeld[m]
      /\ \A h \in Holder \ {m, g} : H[h] = AllHeld[h]
  BY ZenonT(30), <1>4
<1>8. H \in Items
  <2>1. AllHeld[g] \o AllHeld[m] \in Seq(Pbuf)
    BY SMTT(30), <1>2, <1>4 DEF Items
  <2>2. ASSUME NEW h \in Holder PROVE H[h] \in Seq(Pbuf)
    BY SMTT(30), <1>2, <1>7, <2>1 DEF Items
  <2>3. QED
    BY ZenonT(30), <2>2 DEF Items
<1> HIDE DEF H
<1>9. Flow(H, received, lost)
  BY ZenonT(30), <1>2, <1>3, <1>7, <1>8, SpliceFlow DEF m, g
<1>10. \A h \in Holder \ {d, f} : AllHeld'[h] = H[h]
  <2>1. ASSUME NEW h \in Holder, h # d, h # f PROVE AllHeld'[h] = H[h]
    <3>1. CASE h = m
      BY ZenonT(30), <1>5, <1>7, <3>1
    <3>2. CASE h = g
      BY ZenonT(30), <1>5, <1>7, <3>2
    <3>3. CASE h # m /\ h # g
      BY ZenonT(30), <1>6, <1>7, <2>1, <3>3
    <3>4. QED
      BY ZenonT(30), <3>1, <3>2, <3>3
  <2>2. QED
    BY ZenonT(30), <2>1
<1>11. AllHeld'[d] = <<>> /\ AllHeld'[f] = H[f] \o H[d]
  BY ZenonT(30), <1>4, <1>5, <1>7
<1>12. Flow(AllHeld', received, lost)
  BY ZenonT(30), <1>2, <1>3, <1>8, <1>9, <1>10, <1>11, SpliceFlow DEF d, f
<1>13. QED
  BY ZenonT(30), <1>1, <1>12 DEF historyVars

(* A worker is stopped: both its queues are given up. *)
LEMMA PacketsWorkerJoined ==
    ASSUME TypeOK, TypeOK', Flow(AllHeld, received, lost), WorkerJoined
    PROVE  Flow(AllHeld', received', lost')
<1> DEFINE w == workers_running
           a == <<"local", w>>
           b == <<"incoming", w>>
           H == [h \in Holder |-> IF h = a THEN <<>> ELSE AllHeld[h]]
<1>1. w \in Producer
  <2>1. w \in 0..MaxWorkers /\ workers_running' \in 0..MaxWorkers
    BY ZenonT(30) DEF TypeOK
  <2>2. workers_running' = w - 1
    BY ZenonT(30) DEF WorkerJoined
  <2>3. QED
    BY SMTT(30), <2>1, <2>2, ConstantsAssumption DEF Producer
<1>2. /\ lost' = lost \cup Ids(pbuf_incoming_local[w]) \cup Ids(pbuf_incoming[w])
      /\ pbuf_incoming_local' = [pbuf_incoming_local EXCEPT ![w] = <<>>]
      /\ pbuf_incoming' = [pbuf_incoming EXCEPT ![w] = <<>>]
      /\ UNCHANGED <<pb_list, pb_out, pbuf_global, received>>
  BY ZenonT(30) DEF WorkerJoined, checkVars, queueVars
<1> HIDE DEF w
<1>3. /\ pbuf_incoming_local \in [Producer -> Seq(Pbuf)]
      /\ pbuf_incoming \in [Producer -> Seq(Pbuf)]
  BY ZenonT(30) DEF TypeOK
<1>4. /\ pbuf_incoming_local'[w] = <<>> /\ pbuf_incoming'[w] = <<>>
      /\ \A r \in Producer : r # w => /\ pbuf_incoming_local'[r] = pbuf_incoming_local[r]
                                      /\ pbuf_incoming'[r] = pbuf_incoming[r]
  BY ZenonT(30), <1>1, <1>2, <1>3
<1>5. a \in Holder /\ b \in Holder /\ a # b
  BY ZenonT(30), <1>1, Holders
<1>6. AllHeld \in Items /\ AllHeld' \in Items /\ received \in Nat
  BY ZenonT(30), HeldType, HeldTypeAfter, ReceivedNat
<1>7. /\ AllHeld[a] = pbuf_incoming_local[w] /\ AllHeld[b] = pbuf_incoming[w]
      /\ AllHeld'[a] = <<>> /\ AllHeld'[b] = <<>>
  BY ZenonT(30), <1>1, <1>4, HeldBefore, HeldAfter
<1> HIDE DEF a, b
<1>8. ASSUME NEW h \in Holder, h # a, h # b PROVE AllHeld'[h] = AllHeld[h]
  BY ZenonT(30), <1>2, <1>4, <1>8, HeldSame DEF a, b
<1>9. H \in Items /\ H[a] = <<>> /\ \A h \in Holder \ {a} : H[h] = AllHeld[h]
  BY SMTT(30), <1>5, <1>6 DEF Items
<1> HIDE DEF H
<1>10. Flow(H, received, lost \cup Ids(AllHeld[a]))
  BY ZenonT(30), <1>5, <1>6, <1>9, ClearFlow DEF Clears
<1>11. H[b] = AllHeld[b] /\ Clears(H, AllHeld', b)
  <2>1. ASSUME NEW h \in Holder, h # b PROVE AllHeld'[h] = H[h]
    <3>1. CASE h = a
      BY ZenonT(30), <1>7, <1>9, <3>1
    <3>2. CASE h # a
      BY ZenonT(30), <1>8, <1>9, <2>1, <3>2
    <3>3. QED
      BY ZenonT(30), <3>1, <3>2
  <2>2. QED
    BY ZenonT(30), <1>5, <1>7, <1>9, <2>1 DEF Clears
<1>12. Flow(AllHeld', received, (lost \cup Ids(AllHeld[a])) \cup Ids(H[b]))
  BY ZenonT(30), <1>5, <1>6, <1>9, <1>10, <1>11, ClearFlow
<1>13. QED
  BY ZenonT(30), <1>2, <1>7, <1>11, <1>12

(***************************************************************************)
(* The dupecheck thread leaves the loop over its list only when the list   *)
(* is empty, and is not running while the workers are changed.             *)
(***************************************************************************)
LEMMA BusyNext ==
    ASSUME Busy, [Next]_vars
    PROVE  Busy'
<1> USE DEF acceptVars, loopVars, checkVars
<1>1. CASE AcceptStep
  <2>1. CASE DupecheckJoined
    BY ZenonT(30), <2>1 DEF DupecheckJoined, Busy
  <2>2. CASE WorkerStop
    BY ZenonT(30), <2>2 DEF WorkerStop, Busy
  <2>3. CASE WorkerJoined
    BY ZenonT(30), <2>3 DEF WorkerJoined, Busy
  <2>4. CASE WorkerStart
    BY ZenonT(30), <2>4 DEF WorkerStart, Busy
  <2>5. CASE DupecheckStart
    BY ZenonT(30), <2>5 DEF DupecheckStart, Busy
  <2>6. QED
    BY ZenonT(30), <1>1, <2>1, <2>2, <2>3, <2>4, <2>5 DEF AcceptStep
<1>2. CASE DupecheckStep
  <2>1. CASE LoopTop
    BY ZenonT(30), <2>1 DEF LoopTop, Busy
  <2>2. CASE WalkSkip \/ DrainLock \/ DrainDone
    BY ZenonT(30), <2>2 DEF WalkSkip, DrainLock, DrainDone, Busy
  <2>3. CASE DrainTake
    BY ZenonT(30), <2>3 DEF DrainTake, Busy
  <2>4. CASE CheckPacket
    <3>1. dpc = "check" /\ dpc' = dpc /\ apc' = apc
      BY ZenonT(30), <2>4 DEF CheckPacket
    <3>2. QED
      BY ZenonT(30), <3>1 DEF Busy
  <2>5. CASE Splice
    <3>1. dpc = "walk" /\ pb_list' = pb_list /\ apc' = apc
      BY ZenonT(30), <2>5 DEF Splice
    <3>2. QED
      BY ZenonT(30), <3>1 DEF Busy
  <2>6. CASE LagScan
    BY ZenonT(30), <2>6 DEF LagScan, Busy
  <2>7. CASE Purge
    <3>1. dpc = "lag" /\ pb_list' = pb_list /\ apc' = apc
      BY ZenonT(30), <2>7 DEF Purge
    <3>2. QED
      BY ZenonT(30), <3>1 DEF Busy
  <2>8. QED
    BY ZenonT(30), <1>2, <2>1, <2>2, <2>3, <2>4, <2>5, <2>6, <2>7 DEF DupecheckStep
<1>3. ASSUME NEW n \in Worker, DupecheckStop(n) PROVE Busy'
  BY ZenonT(30), <1>3 DEF DupecheckStop, Busy
<1>4. ASSUME UNCHANGED <<apc, dpc, pb_list>> PROVE Busy'
  BY ZenonT(30), <1>4 DEF Busy
<1>5. ASSUME NEW w \in Worker, WorkerStep(w) PROVE UNCHANGED <<apc, dpc, pb_list>>
  BY ZenonT(30), <1>5 DEF WorkerStep, OutgoingStart, OutgoingSkip, PollDone,
     Process, Advance, QueueEnd
<1>6. ASSUME NEW w, NEW k, NEW l, Receive(w, k, l) \/ PseudoPush(w, k, l)
      PROVE  UNCHANGED <<apc, dpc, pb_list>>
  BY ZenonT(30), <1>6 DEF Receive, PseudoPush
<1>7. CASE Tick \/ UNCHANGED vars
  BY ZenonT(30), <1>4, <1>7 DEF Tick, vars
<1>8. QED
  BY ZenonT(30), <1>1, <1>2, <1>3, <1>4, <1>5, <1>6, <1>7 DEF Next

(* Every step keeps the packets accounted for and in order. *)
LEMMA PacketsNext == Packets /\ [Next]_vars => Packets'
<1> SUFFICES ASSUME Packets, [Next]_vars PROVE Packets'
  BY ZenonT(30)
<1>1. TypeOK /\ TypeOK' /\ Flow(AllHeld, received, lost) /\ Busy
  BY ZenonT(30), TypeNext DEF Packets
<1>2. Busy'
  BY ZenonT(30), <1>1, BusyNext
<1> DEFINE Moved == Flow(AllHeld', received', lost')
           Still == UNCHANGED <<producerVars, pb_list, pb_out, pbuf_global, historyVars>>
<1>3. ASSUME Still PROVE Moved
  BY ZenonT(30), <1>1, <1>3, PacketsStay
<1>4. ASSUME Tick \/ UNCHANGED vars PROVE Moved
  <2>1. Still
    BY ZenonT(30), <1>4 DEF Tick, vars, checkVars, queueVars
  <2>2. QED
    BY ZenonT(30), <1>3, <2>1
<1>5. ASSUME NEW k \in Key, NEW l \in {FALSE, LocalLogins}, NEW w \in Worker, Receive(w, k, l)
      PROVE  Moved
  <2>1. l \in BOOLEAN
    BY ZenonT(30), ConstantsAssumption
  <2>2. QED
    BY ZenonT(30), <1>1, <1>5, <2>1, PacketsReceive
<1>6. ASSUME NEW k \in Key, NEW l \in {FALSE, LocalLogins}, NEW p \in Producer,
             PseudoPush(p, k, l)
      PROVE  Moved
  <2>1. l \in BOOLEAN
    BY ZenonT(30), ConstantsAssumption
  <2>2. QED
    BY ZenonT(30), <1>1, <1>6, <2>1, PacketsPseudoPush
<1>7. ASSUME DupecheckStep PROVE Moved
  <2>1. CASE LoopTop \/ WalkSkip \/ DrainLock \/ DrainDone \/ LagScan
    <3>1. Still
      BY ZenonT(30), <2>1 DEF LoopTop, WalkSkip, DrainLock, DrainDone, LagScan, checkVars, queueVars
    <3>2. QED
      BY ZenonT(30), <1>3, <3>1
  <2>2. CASE Purge
    <3>1. Still
      BY ZenonT(30), <2>2 DEF Purge
    <3>2. QED
      BY ZenonT(30), <1>3, <3>1
  <2>3. CASE DrainTake
    <3>1. pb_list = <<>>
      BY ZenonT(30), <1>1, <2>3 DEF DrainTake, Busy
    <3>2. QED
      BY ZenonT(30), <1>1, <2>3, <3>1, PacketsDrainTake
  <2>4. CASE CheckPacket
    BY ZenonT(30), <1>1, <2>4, PacketsCheck
  <2>5. CASE Splice
    BY ZenonT(30), <1>1, <2>5, PacketsSplice
  <2>6. QED
    BY ZenonT(30), <1>7, <2>1, <2>2, <2>3, <2>4, <2>5 DEF DupecheckStep
<1>8. ASSUME NEW w \in Worker, WorkerStep(w) PROVE Moved
  <2>1. CASE PollDone(w)
    BY ZenonT(30), <1>1, <2>1, PacketsPollDone
  <2>2. CASE ~PollDone(w)
    <3>1. Still
      BY ZenonT(30), <1>8, <2>2 DEF WorkerStep, OutgoingStart, OutgoingSkip,
         Process, Advance, QueueEnd, checkVars, queueVars
    <3>2. QED
      BY ZenonT(30), <1>3, <3>1
  <2>3. QED
    BY ZenonT(30), <2>1, <2>2
<1>9. ASSUME NEW n \in Worker, DupecheckStop(n) PROVE Moved
  <2>1. Still
    BY ZenonT(30), <1>9 DEF DupecheckStop, checkVars, queueVars
  <2>2. QED
    BY ZenonT(30), <1>3, <2>1
<1>10. ASSUME AcceptStep PROVE Moved
  <2>1. CASE WorkerJoined
    BY ZenonT(30), <1>1, <2>1, PacketsWorkerJoined
  <2>2. CASE ~WorkerJoined
    <3>1. Still
      BY ZenonT(30), <1>10, <2>2 DEF AcceptStep, DupecheckJoined, WorkerStop, WorkerStart,
         DupecheckStart, checkVars, queueVars
    <3>2. QED
      BY ZenonT(30), <1>3, <3>1
  <2>3. QED
    BY ZenonT(30), <2>1, <2>2
<1> HIDE DEF Moved
<1>11. Moved
  BY ZenonT(30), <1>4, <1>5, <1>6, <1>7, <1>8, <1>9, <1>10 DEF Next
<1>12. QED
  BY ZenonT(30), <1>1, <1>2, <1>11 DEF Packets, Moved

(* The inductive invariant holds always. *)
THEOREM PacketsInductive == Spec => []Packets
BY PacketsInit, PacketsNext, PTL DEF Spec

(***************************************************************************)
(* Whatever trylock, drain, splice and a change of the number of workers   *)
(* interleave, each received packet is in exactly one place between        *)
(* incoming_parse and the global queues, unless a stopped worker left it.  *)
(***************************************************************************)
THEOREM Conserved == Spec => []Conservation
<1>1. ASSUME Packets, NEW id \in 1..received
      PROVE  LET places == UNION {{<<h, i>> : i \in {j \in DOMAIN Held(h) :
                                                       Held(h)[j].id = id}} :
                                  h \in Holder}
             IN  IF id \in lost THEN places = {} ELSE \E x \in places : places = {x}
  <2> DEFINE Here(h) == {<<h, i>> : i \in {j \in DOMAIN Held(h) : Held(h)[j].id = id}}
             places == UNION {Here(h) : h \in Holder}
  <2>1. Accounted(AllHeld, received, lost) /\ AllHeld \in Items
    BY ZenonT(30), <1>1, HeldType DEF Packets, Flow
  <2>2. \A h \in Holder : Held(h) = AllHeld[h] /\ DOMAIN Held(h) = 1..Len(AllHeld[h])
    BY SMTT(30), <2>1 DEF AllHeld, Items
  <2>3. \A x : x \in places <=> \E h \in Holder : \E i \in 1..Len(AllHeld[h]) :
                                   AllHeld[h][i].id = id /\ x = <<h, i>>
    <3>1. ASSUME NEW h \in Holder
          PROVE  Here(h) = {<<h, i>> : i \in {j \in 1..Len(AllHeld[h]) : AllHeld[h][j].id = id}}
      BY ZenonT(30), <2>2
    <3>2. ASSUME NEW h \in Holder, NEW x
          PROVE  x \in Here(h) <=> \E i \in 1..Len(AllHeld[h]) :
                                       AllHeld[h][i].id = id /\ x = <<h, i>>
      BY ZenonT(30), <3>1
    <3> HIDE DEF Here
    <3>3. QED
      BY SMTT(30), <3>2
  <2> HIDE DEF places
  <2>4. CASE id \in lost
    <3>1. \A h \in Holder : \A i \in 1..Len(AllHeld[h]) : AllHeld[h][i].id # id
      BY SMTT(30), <2>1, <2>4 DEF Accounted
    <3>2. places = {}
      BY ZenonT(30), <2>3, <3>1
    <3>3. QED
      BY ZenonT(30), <2>4, <3>2 DEF places
  <2>5. CASE id \notin lost
    <3>1. PICK h \in Holder : \E i \in 1..Len(AllHeld[h]) : AllHeld[h][i].id = id
      BY ZenonT(30), <2>1, <2>5 DEF Accounted
    <3>2. PICK i \in 1..Len(AllHeld[h]) : AllHeld[h][i].id = id
      BY ZenonT(30), <3>1
    <3>3. \A g \in Holder : \A j \in 1..Len(AllHeld[g]) :
            AllHeld[g][j].id = id => g = h /\ j = i
      BY SMTT(30), <2>1, <3>2 DEF Accounted
    <3>4. places = {<<h, i>>}
      BY ZenonT(30), <2>3, <3>2, <3>3
    <3>5. \E x \in places : places = {x}
      BY ZenonT(30), <3>4
    <3>6. QED
      BY ZenonT(30), <2>5, <3>5 DEF places
  <2>6. QED
    BY ZenonT(30), <2>4, <2>5
<1>2. Packets => Conservation
  BY ZenonT(30), <1>1 DEF Conservation
<1>3. QED
  BY <1>2, PacketsInductive, PTL

(***************************************************************************)
(* The packets of one producer are in each global queue in the order in    *)
(* which they were received, also across failed trylocks.                  *)
(***************************************************************************)
THEOREM OrderIsKept == Spec => []OrderKept
<1>1. ASSUME Packets, NEW q \in Queue, NEW j \in DOMAIN pbuf_global[q], NEW i \in 1..(j - 1),
             pbuf_global[q][i].src = pbuf_global[q][j].src
      PROVE  pbuf_global[q][i].id < pbuf_global[q][j].id
  <2> DEFINE h == <<"global", q>>
  <2>1. InOrder(AllHeld) /\ pbuf_global[q] \in Seq(Pbuf)
    BY ZenonT(30), <1>1 DEF Packets, Flow, TypeOK
  <2>2. h \in Holder /\ AllHeld[h] = pbuf_global[q]
    BY ZenonT(30), Holders, HeldBefore
  <2>3. j \in 1..Len(pbuf_global[q]) /\ i \in 1..Len(pbuf_global[q]) /\ i < j
    BY SMTT(30), <2>1
  <2> HIDE DEF h
  <2>4. QED
    BY ZenonT(30), <1>1, <2>1, <2>2, <2>3 DEF InOrder
<1>2. Packets => OrderKept
  BY ZenonT(30), <1>1 DEF OrderKept
<1>3. QED
  BY <1>2, PacketsInductive, PTL
-----------------------------------------------------------------------------
(***************************************************************************)
(* The dupe check.                                                         *)
(***************************************************************************)

(***************************************************************************)
(* M and D stand for all that was put on the unique and the duplicate      *)
(* queue, db for the records and now for the clock.                        *)
(***************************************************************************)
Db == [Key -> Time \cup {Never}]

(* Copies of a content are more than StoreTime apart. *)
Spaced(M) ==
    \A j \in 1..Len(M) : \A i \in 1..(j - 1) :
        M[i].key = M[j].key => M[j].checked - M[i].checked > StoreTime

(* A packet that is not old has a record at least as young as it is. *)
Recorded(M, db, now) ==
    \A i \in 1..Len(M) :
        /\ M[i].checked <= now
        /\ now - M[i].checked > StoreTime \/ db[M[i].key] >= M[i].checked

(* A record was left by a packet. *)
Sourced(M, db, now) ==
    \A k \in Key :
        db[k] # Never =>
          /\ db[k] <= now
          /\ \E j \in 1..Len(M) : /\ k = M[j].key \/ k \in Mangled[M[j].key]
                                  /\ M[j].checked = db[k]

(* A packet marked a duplicate is covered by one that was unique. *)
Explained(D, M) ==
    \A i \in 1..Len(D) :
        D[i].dup => \E j \in 1..Len(M) : Covers(M[j], D[i])

Filtered(M, D, db, now) ==
    Spaced(M) /\ Recorded(M, db, now) /\ Sourced(M, db, now) /\ Explained(D, M)

(* Every packet of a queue has a content and a time. *)
LEMMA InQueue ==
    ASSUME NEW s \in Seq(Pbuf), NEW i \in 1..Len(s)
    PROVE  s[i] \in Pbuf /\ s[i].checked \in Time /\ s[i].checked \in Nat /\ s[i].key \in Key
<1>1. s[i] \in Pbuf
  BY SMTT(30)
<1>2. s[i].checked \in Time /\ s[i].key \in Key
  BY ZenonT(30), <1>1 DEF Pbuf
<1>3. QED
  BY SMTT(30), <1>1, <1>2, ConstantsAssumption DEF Time

(* Time passes. *)
LEMMA FilteredTick ==
    ASSUME NEW M \in Seq(Pbuf), NEW D \in Seq(Pbuf), NEW db \in Db, NEW now \in Time,
           now + 1 \in Time, Filtered(M, D, db, now)
    PROVE  Filtered(M, D, db, now + 1)
<1> USE ConstantsAssumption DEF Time
<1>1. Recorded(M, db, now + 1)
  <2> SUFFICES ASSUME NEW i \in 1..Len(M)
               PROVE  /\ M[i].checked <= now + 1
                      /\ (now + 1) - M[i].checked > StoreTime \/ db[M[i].key] >= M[i].checked
    BY ZenonT(30) DEF Recorded
  <2>1. M[i].checked \in Nat /\ now \in Nat
    BY SMTT(30), InQueue
  <2>2. /\ M[i].checked <= now
        /\ now - M[i].checked > StoreTime \/ db[M[i].key] >= M[i].checked
    BY ZenonT(30) DEF Filtered, Recorded
  <2>3. QED
    BY SMTT(30), <2>1, <2>2
<1>2. Sourced(M, db, now + 1)
  <2> SUFFICES ASSUME NEW k \in Key, db[k] # Never
               PROVE  /\ db[k] <= now + 1
                      /\ \E j \in 1..Len(M) : /\ k = M[j].key \/ k \in Mangled[M[j].key]
                                              /\ M[j].checked = db[k]
    BY ZenonT(30) DEF Sourced
  <2>1. /\ db[k] <= now
        /\ \E j \in 1..Len(M) : /\ k = M[j].key \/ k \in Mangled[M[j].key]
                                /\ M[j].checked = db[k]
    BY ZenonT(30) DEF Filtered, Sourced
  <2>2. db[k] \in Int
    BY SMTT(30) DEF Db, Never
  <2>3. db[k] <= now + 1
    BY SMTT(30), <2>1, <2>2
  <2>4. QED
    BY ZenonT(30), <2>1, <2>3
<1>3. QED
  BY ZenonT(30), <1>1, <1>2 DEF Filtered

(* dupecheck_cleanup drops the records that are too old to match. *)
LEMMA FilteredPurge ==
    ASSUME NEW M \in Seq(Pbuf), NEW D \in Seq(Pbuf), NEW db \in Db, NEW now \in Time,
           Filtered(M, D, db, now), NEW new \in Db,
           \A k \in Key : new[k] = IF db[k] < now - StoreTime THEN Never ELSE db[k]
    PROVE  Filtered(M, D, new, now)
<1> USE ConstantsAssumption DEF Time
<1>1. Recorded(M, new, now)
  <2> SUFFICES ASSUME NEW i \in 1..Len(M)
               PROVE  /\ M[i].checked <= now
                      /\ now - M[i].checked > StoreTime \/ new[M[i].key] >= M[i].checked
    BY ZenonT(30) DEF Recorded
  <2>1. M[i].checked \in Nat /\ M[i].key \in Key /\ now \in Nat
    BY SMTT(30), InQueue
  <2>2. db[M[i].key] \in Int
    BY SMTT(30), <2>1 DEF Db, Never
  <2>3. /\ M[i].checked <= now
        /\ now - M[i].checked > StoreTime \/ db[M[i].key] >= M[i].checked
    BY ZenonT(30) DEF Filtered, Recorded
  <2>4. QED
    BY SMTT(30), <2>1, <2>2, <2>3
<1>2. Sourced(M, new, now)
  BY ZenonT(30) DEF Filtered, Sourced
<1>3. QED
  BY ZenonT(30), <1>1, <1>2 DEF Filtered

(* The record of k is young enough to match at the time now. *)
Match(db, now, k) == db[k] # Never /\ db[k] >= now - StoreTime

(* A packet goes to the duplicates, marked only when a record matches. *)
LEMMA FilteredDupe ==
    ASSUME NEW M \in Seq(Pbuf), NEW D \in Seq(Pbuf), NEW db \in Db, NEW now \in Time,
           Filtered(M, D, db, now), NEW e \in Pbuf, e.checked = now,
           e.dup => Match(db, now, e.key)
    PROVE  Filtered(M, Append(D, e), db, now)
<1> USE ConstantsAssumption DEF Time
<1>1. ASSUME NEW i \in 1..Len(Append(D, e)), Append(D, e)[i].dup
      PROVE  \E j \in 1..Len(M) : Covers(M[j], Append(D, e)[i])
  <2>1. CASE i \in 1..Len(D)
    <3>1. Append(D, e)[i] = D[i]
      BY SMTT(30), <2>1
    <3>2. QED
      BY ZenonT(30), <1>1, <2>1, <3>1 DEF Filtered, Explained
  <2>2. CASE i \notin 1..Len(D)
    <3>1. Append(D, e)[i] = e
      BY SMTT(30), <2>2
    <3>2. db[e.key] # Never /\ db[e.key] >= now - StoreTime /\ e.key \in Key
      BY ZenonT(30), <1>1, <3>1 DEF Match, Pbuf
    <3>3. /\ db[e.key] <= now
          /\ \E j \in 1..Len(M) : /\ e.key = M[j].key \/ e.key \in Mangled[M[j].key]
                                  /\ M[j].checked = db[e.key]
      BY ZenonT(30), <3>2 DEF Filtered, Sourced
    <3>4. PICK j \in 1..Len(M) : /\ e.key = M[j].key \/ e.key \in Mangled[M[j].key]
                                 /\ M[j].checked = db[e.key]
      BY ZenonT(30), <3>3
    <3>5. M[j].checked \in Nat /\ now \in Nat
      BY SMTT(30), InQueue
    <3>6. e.checked - M[j].checked \in 0..StoreTime
      BY SMTT(30), <3>2, <3>3, <3>4, <3>5
    <3>7. Covers(M[j], e)
      BY ZenonT(30), <3>4, <3>6 DEF Covers
    <3>8. QED
      BY ZenonT(30), <3>1, <3>7
  <2>3. QED
    BY ZenonT(30), <2>1, <2>2
<1>2. QED
  BY ZenonT(30), <1>1 DEF Filtered, Explained

(* The records new are those of db with k and its mangled versions stored. *)
Stores(db, new, now, k, mangled) ==
    \A x \in Key : new[x] = IF x = k \/ x \in mangled THEN now ELSE db[x]

(* A packet without a matching record is unique and leaves its records. *)
LEMMA FilteredUnique ==
    ASSUME NEW M \in Seq(Pbuf), NEW D \in Seq(Pbuf), NEW db \in Db, NEW now \in Time,
           Filtered(M, D, db, now), NEW e \in Pbuf, e.checked = now,
           ~Match(db, now, e.key), NEW mangled \in SUBSET Mangled[e.key], NEW new \in Db,
           Stores(db, new, now, e.key, mangled)
    PROVE  Filtered(Append(M, e), D, new, now)
<1> USE ConstantsAssumption DEF Time, Stores
<1> DEFINE N == Append(M, e)
<1>1. /\ N \in Seq(Pbuf) /\ Len(N) = Len(M) + 1 /\ Len(M) \in Nat
      /\ \A i \in 1..Len(M) : N[i] = M[i] /\ i \in 1..Len(N)
      /\ N[Len(M) + 1] = e /\ Len(M) + 1 \in 1..Len(N)
      /\ \A i \in 1..Len(N) : i \in 1..Len(M) \/ i = Len(M) + 1
  BY SMTT(30)
<1> HIDE DEF N
<1>2. e.key \in Key /\ now \in Nat /\ db[e.key] \in Int /\ Never = -1
  <2>1. e.key \in Key
    BY ZenonT(30) DEF Pbuf
  <2>2. QED
    BY SMTT(30), <2>1 DEF Db, Never
<1>3. ASSUME NEW i \in 1..Len(M), M[i].key = e.key
      PROVE  now - M[i].checked > StoreTime
  <2>1. M[i].checked \in Nat
    BY ZenonT(30), InQueue
  <2>2. now - M[i].checked > StoreTime \/ db[M[i].key] >= M[i].checked
    BY ZenonT(30) DEF Filtered, Recorded
  <2>3. db[e.key] = Never \/ db[e.key] < now - StoreTime
    BY SMTT(30), <1>2 DEF Match
  <2>4. QED
    BY SMTT(30), <1>2, <1>3, <2>1, <2>2, <2>3
<1>4. Spaced(N)
  <2> SUFFICES ASSUME NEW j \in 1..Len(N), NEW i \in 1..(j - 1), N[i].key = N[j].key
               PROVE  N[j].checked - N[i].checked > StoreTime
    BY ZenonT(30) DEF Spaced
  <2>1. i \in 1..Len(M) /\ N[i] = M[i]
    BY SMTT(30), <1>1
  <2>2. CASE j \in 1..Len(M)
    BY ZenonT(30), <1>1, <2>1, <2>2 DEF Filtered, Spaced
  <2>3. CASE j = Len(M) + 1
    BY ZenonT(30), <1>1, <1>3, <2>1, <2>3
  <2>4. QED
    BY ZenonT(30), <1>1, <2>2, <2>3
<1>5. Recorded(N, new, now)
  <2> SUFFICES ASSUME NEW i \in 1..Len(N)
               PROVE  /\ N[i].checked <= now
                      /\ now - N[i].checked > StoreTime \/ new[N[i].key] >= N[i].checked
    BY ZenonT(30) DEF Recorded
  <2>1. CASE i \in 1..Len(M)
    <3>1. N[i] = M[i] /\ M[i].checked \in Nat /\ M[i].key \in Key
      BY ZenonT(30), <1>1, <2>1, InQueue
    <3>2. now - M[i].checked > StoreTime \/ db[M[i].key] >= M[i].checked
      BY ZenonT(30), <2>1 DEF Filtered, Recorded
    <3>3. M[i].checked <= now
      BY ZenonT(30), <2>1 DEF Filtered, Recorded
    <3>4. QED
      BY ZenonT(30), <1>2, <3>1, <3>2, <3>3
  <2>2. CASE i = Len(M) + 1
    BY SMTT(30), <1>1, <1>2, <2>2
  <2>3. QED
    BY ZenonT(30), <1>1, <2>1, <2>2
<1>6. Sourced(N, new, now)
  <2> SUFFICES ASSUME NEW k \in Key, new[k] # Never
               PROVE  /\ new[k] <= now
                      /\ \E j \in 1..Len(N) : /\ k = N[j].key \/ k \in Mangled[N[j].key]
                                              /\ N[j].checked = new[k]
    BY ZenonT(30) DEF Sourced
  <2>1. CASE k = e.key \/ k \in mangled
    <3>1. new[k] = now /\ new[k] <= now /\ (k = e.key \/ k \in Mangled[e.key])
      BY SMTT(30), <1>2, <2>1
    <3>2. QED
      BY ZenonT(30), <1>1, <3>1
  <2>2. CASE ~(k = e.key \/ k \in mangled)
    <3>1. new[k] = db[k]
      BY ZenonT(30), <2>2
    <3>2. /\ db[k] <= now
          /\ \E j \in 1..Len(M) : /\ k = M[j].key \/ k \in Mangled[M[j].key]
                                  /\ M[j].checked = db[k]
      BY ZenonT(30), <3>1 DEF Filtered, Sourced
    <3>3. QED
      BY ZenonT(30), <1>1, <3>1, <3>2
  <2>3. QED
    BY ZenonT(30), <2>1, <2>2
<1>7. Explained(D, N)
  <2>1. ASSUME NEW i \in 1..Len(D), D[i].dup
        PROVE  \E j \in 1..Len(N) : Covers(N[j], D[i])
    <3>1. \E j \in 1..Len(M) : Covers(M[j], D[i])
      BY ZenonT(30), <2>1 DEF Filtered, Explained
    <3>2. QED
      BY ZenonT(30), <1>1, <3>1
  <2>2. QED
    BY ZenonT(30), <2>1 DEF Explained
<1>8. QED
  BY ZenonT(30), <1>4, <1>5, <1>6, <1>7 DEF Filtered, N

-----------------------------------------------------------------------------
(* No packet of s is marked by the dupe check. *)
Clean(s) == \A i \in 1..Len(s) : ~s[i].dup

Unmarked ==
    /\ \A p \in Producer : Clean(pbuf_incoming_local[p]) /\ Clean(pbuf_incoming[p])
    /\ Clean(pb_list)

(* All that the dupe check has put on queue q. *)
All(q) == pbuf_global[q] \o pb_out[q]

(***************************************************************************)
(* The inductive invariant of the dupe check.  The last conjunct says it   *)
(* of the global queues alone: both chains are spliced in one step.        *)
(***************************************************************************)
Dupes ==
    /\ TypeOK
    /\ Unmarked
    /\ Filtered(All("main"), All("dupe"), dupecheck_db, tick)
    /\ Explained(pbuf_global["dupe"], pbuf_global["main"])

(* Appending clean packets leaves a clean queue, and so does taking one. *)
LEMMA CleanSeq ==
    ASSUME NEW s \in Seq(Pbuf), NEW t \in Seq(Pbuf), NEW e \in Pbuf
    PROVE  /\ Clean(<<>>)
           /\ Clean(s) /\ Clean(t) => Clean(s \o t)
           /\ Clean(s) /\ ~e.dup => Clean(Append(s, e))
           /\ s # <<>> /\ Clean(s) => Clean(Tail(s)) /\ ~Head(s).dup
<1>1. Clean(<<>>)
  BY SMTT(30) DEF Clean
<1>2. Clean(s) /\ Clean(t) => Clean(s \o t)
  BY SMTT(30) DEF Clean
<1>3. Clean(s) /\ ~e.dup => Clean(Append(s, e))
  BY SMTT(30) DEF Clean
<1>4. s # <<>> /\ Clean(s) => Clean(Tail(s)) /\ ~Head(s).dup
  BY SMTT(30) DEF Clean
<1>5. QED
  BY ZenonT(30), <1>1, <1>2, <1>3, <1>4

(* The queues of the dupe check have their types. *)
LEMMA AllType ==
    ASSUME TypeOK
    PROVE  /\ \A q \in Queue : /\ pbuf_global[q] \in Seq(Pbuf) /\ pb_out[q] \in Seq(Pbuf)
                               /\ All(q) \in Seq(Pbuf)
           /\ dupecheck_db \in Db /\ tick \in Time
<1>1. \A q \in Queue : pbuf_global[q] \in Seq(Pbuf) /\ pb_out[q] \in Seq(Pbuf)
  BY ZenonT(30) DEF TypeOK
<1>2. \A q \in Queue : All(q) \in Seq(Pbuf)
  BY SMTT(30), <1>1 DEF All
<1>3. QED
  BY ZenonT(30), <1>1, <1>2 DEF TypeOK, Db

(* Nothing is queued or recorded initially. *)
LEMMA DupesInit == Init => Dupes
<1> SUFFICES ASSUME Init PROVE Dupes
  BY ZenonT(30)
<1>1. TypeOK
  BY ZenonT(30), TypeInit
<1>2. Unmarked
  BY SMTT(30) DEF Init, Unmarked, Clean
<1>3. /\ pbuf_global["main"] = <<>> /\ pbuf_global["dupe"] = <<>>
      /\ All("main") = <<>> /\ All("dupe") = <<>>
      /\ \A k \in Key : dupecheck_db[k] = Never
  BY SMTT(30) DEF Init, All, Queue
<1>4. QED
  BY SMTT(30), <1>1, <1>2, <1>3 DEF Dupes, Filtered, Spaced, Recorded, Sourced, Explained

(* incoming_flush moves packets without marking them. *)
LEMMA UnmarkedFlush ==
    ASSUME TypeOK, Unmarked, NEW p \in Producer, NEW s \in Seq(Pbuf), Clean(s), Flush(p, s),
           pb_list' = pb_list
    PROVE  Unmarked'
<1>1. /\ pbuf_incoming_local \in [Producer -> Seq(Pbuf)]
      /\ pbuf_incoming \in [Producer -> Seq(Pbuf)]
  BY ZenonT(30) DEF TypeOK
<1>2. Clean(<<>>) /\ Clean(pbuf_incoming[p] \o s)
  <2>1. pbuf_incoming[p] \in Seq(Pbuf) /\ Clean(pbuf_incoming[p])
    BY ZenonT(30), <1>1 DEF Unmarked
  <2>2. QED
    BY SMTT(30), <2>1 DEF Clean
<1>3. ASSUME NEW r \in Producer
      PROVE  Clean(pbuf_incoming_local'[r]) /\ Clean(pbuf_incoming'[r])
  <2>1. CASE MutexHeld(p)
    <3>1. /\ pbuf_incoming_local' = [pbuf_incoming_local EXCEPT ![p] = s]
          /\ pbuf_incoming' = pbuf_incoming
      BY ZenonT(30), <2>1 DEF Flush
    <3>2. QED
      BY ZenonT(30), <1>1, <3>1 DEF Unmarked
  <2>2. CASE ~MutexHeld(p)
    <3>1. /\ pbuf_incoming' = [pbuf_incoming EXCEPT ![p] = pbuf_incoming[p] \o s]
          /\ pbuf_incoming_local' = [pbuf_incoming_local EXCEPT ![p] = <<>>]
      BY ZenonT(30), <2>2 DEF Flush
    <3>2. QED
      BY ZenonT(30), <1>1, <1>2, <3>1 DEF Unmarked
  <2>3. QED
    BY ZenonT(30), <2>1, <2>2
<1>4. QED
  BY ZenonT(30), <1>3 DEF Unmarked

(* Packets are marked only on their way to the chains. *)
LEMMA UnmarkedNext ==
    ASSUME TypeOK, Unmarked, Next
    PROVE  Unmarked'
<1>1. /\ pbuf_incoming_local \in [Producer -> Seq(Pbuf)]
      /\ pbuf_incoming \in [Producer -> Seq(Pbuf)] /\ pb_list \in Seq(Pbuf)
  BY ZenonT(30) DEF TypeOK
<1>2. ASSUME UNCHANGED <<pbuf_incoming_local, pbuf_incoming, pb_list>> PROVE Unmarked'
  BY ZenonT(30), <1>2 DEF Unmarked
<1>3. Clean(<<>>)
  BY SMTT(30) DEF Clean
<1>4. ASSUME NEW p \in Producer, NEW k \in Key, NEW l \in {FALSE, LocalLogins},
             received < MaxPackets
      PROVE  /\ Append(pbuf_incoming_local[p], NewPbuf(p, k, l)) \in Seq(Pbuf)
             /\ Clean(Append(pbuf_incoming_local[p], NewPbuf(p, k, l)))
  <2>1. l \in BOOLEAN
    BY ZenonT(30), ConstantsAssumption
  <2>2. NewPbuf(p, k, l) \in Pbuf /\ ~NewPbuf(p, k, l).dup
    <3>1. NewPbuf(p, k, l) \in Pbuf
      BY ZenonT(30), <1>4, <2>1, NewPbufType
    <3>2. QED
      BY ZenonT(30), <3>1 DEF NewPbuf
  <2>3. pbuf_incoming_local[p] \in Seq(Pbuf) /\ Clean(pbuf_incoming_local[p])
    BY ZenonT(30), <1>1 DEF Unmarked
  <2>4. QED
    BY SMTT(30), <2>2, <2>3, CleanSeq
<1>5. ASSUME NEW k \in Key, NEW l \in {FALSE, LocalLogins}, NEW w \in Worker, Receive(w, k, l)
      PROVE  Unmarked'
  <2>1. w \in Producer
    BY SMTT(30), ConstantsAssumption DEF Worker, Producer
  <2>2. /\ received < MaxPackets /\ pb_list' = pb_list /\ pbuf_incoming' = pbuf_incoming
        /\ pbuf_incoming_local' =
             [pbuf_incoming_local EXCEPT ![w] = Append(pbuf_incoming_local[w], NewPbuf(w, k, l))]
    BY ZenonT(30), <1>5 DEF Receive, checkVars
  <2>3. Clean(Append(pbuf_incoming_local[w], NewPbuf(w, k, l)))
    BY ZenonT(30), <1>4, <2>1, <2>2
  <2>4. QED
    BY ZenonT(30), <1>1, <2>1, <2>2, <2>3 DEF Unmarked
<1>6. ASSUME NEW k \in Key, NEW l \in {FALSE, LocalLogins}, NEW p \in Producer,
             PseudoPush(p, k, l)
      PROVE  Unmarked'
  <2>1. /\ received < MaxPackets /\ pb_list' = pb_list
        /\ Flush(p, Append(pbuf_incoming_local[p], NewPbuf(p, k, l)))
    BY ZenonT(30), <1>6 DEF PseudoPush, checkVars
  <2>2. QED
    BY ZenonT(30), <1>4, <2>1, UnmarkedFlush
<1>7. ASSUME NEW w \in Worker, WorkerStep(w) PROVE Unmarked'
  <2>1. CASE PollDone(w) /\ pbuf_incoming_local[w] # <<>>
    <3>1. w \in Producer
      BY SMTT(30), ConstantsAssumption DEF Worker, Producer
    <3>2. Flush(w, pbuf_incoming_local[w]) /\ pb_list' = pb_list
      BY ZenonT(30), <2>1 DEF PollDone, checkVars
    <3>3. pbuf_incoming_local[w] \in Seq(Pbuf) /\ Clean(pbuf_incoming_local[w])
      BY ZenonT(30), <1>1, <3>1 DEF Unmarked
    <3>4. QED
      BY ZenonT(30), <3>1, <3>2, <3>3, UnmarkedFlush
  <2>2. CASE ~(PollDone(w) /\ pbuf_incoming_local[w] # <<>>)
    <3>1. UNCHANGED <<pbuf_incoming_local, pbuf_incoming, pb_list>>
      BY ZenonT(30), <1>7, <2>2 DEF WorkerStep, OutgoingStart, OutgoingSkip, PollDone,
         Process, Advance, QueueEnd, checkVars, producerVars
    <3>2. QED
      BY ZenonT(30), <1>2, <3>1
  <2>3. QED
    BY ZenonT(30), <2>1, <2>2
<1>8. ASSUME DupecheckStep PROVE Unmarked'
  <2>1. CASE DrainTake
    <3>1. /\ walk \in Producer /\ pb_list' = pbuf_incoming[walk]
          /\ pbuf_incoming' = [pbuf_incoming EXCEPT ![walk] = <<>>]
          /\ pbuf_incoming_local' = pbuf_incoming_local
      BY ZenonT(30), <2>1 DEF DrainTake, TypeOK
    <3>2. QED
      BY ZenonT(30), <1>1, <1>3, <3>1 DEF Unmarked
  <2>2. CASE CheckPacket
    <3>1. /\ pb_list # <<>> /\ pb_list' = Tail(pb_list)
          /\ UNCHANGED <<pbuf_incoming_local, pbuf_incoming>>
      BY ZenonT(30), <2>2 DEF CheckPacket, producerVars
    <3>2. Clean(Tail(pb_list))
      BY SMTT(30), <1>1, <3>1 DEF Unmarked, Clean
    <3>3. QED
      BY ZenonT(30), <3>1, <3>2 DEF Unmarked
  <2>3. CASE ~DrainTake /\ ~CheckPacket
    <3>1. UNCHANGED <<pbuf_incoming_local, pbuf_incoming, pb_list>>
      BY ZenonT(30), <1>8, <2>3 DEF DupecheckStep, LoopTop, WalkSkip, DrainLock, DrainDone,
         Splice, LagScan, Purge, checkVars, producerVars
    <3>2. QED
      BY ZenonT(30), <1>2, <3>1
  <2>4. QED
    BY ZenonT(30), <2>1, <2>2, <2>3
<1>9. ASSUME AcceptStep PROVE Unmarked'
  <2>1. CASE WorkerJoined
    <3>1. /\ pb_list' = pb_list
          /\ pbuf_incoming_local' = [pbuf_incoming_local EXCEPT ![workers_running] = <<>>]
          /\ pbuf_incoming' = [pbuf_incoming EXCEPT ![workers_running] = <<>>]
      BY ZenonT(30), <2>1 DEF WorkerJoined, checkVars
    <3>2. QED
      BY ZenonT(30), <1>1, <1>3, <3>1 DEF Unmarked
  <2>2. CASE ~WorkerJoined
    <3>1. UNCHANGED <<pbuf_incoming_local, pbuf_incoming, pb_list>>
      BY ZenonT(30), <1>9, <2>2 DEF AcceptStep, DupecheckJoined, WorkerStop, WorkerStart,
         DupecheckStart, checkVars, producerVars
    <3>2. QED
      BY ZenonT(30), <1>2, <3>1
  <2>3. QED
    BY ZenonT(30), <2>1, <2>2
<1>10. ASSUME Tick \/ \E n \in Worker : DupecheckStop(n) PROVE Unmarked'
  <2>1. UNCHANGED <<pbuf_incoming_local, pbuf_incoming, pb_list>>
    BY ZenonT(30), <1>10 DEF Tick, DupecheckStop, checkVars, producerVars
  <2>2. QED
    BY ZenonT(30), <1>2, <2>1
<1>11. QED
  BY ZenonT(30), <1>5, <1>6, <1>7, <1>8, <1>9, <1>10 DEF Next

(* What Emit puts on a chain: p with a new number and the time. *)
LEMMA Emitted ==
    ASSUME TypeOK, NEW q \in Queue, NEW p \in Pbuf, Emit(q, p), pbuf_global' = pbuf_global
    PROVE  \E e \in Pbuf : /\ e.key = p.key /\ e.dup = p.dup /\ e.checked = tick
                           /\ All(q)' = Append(All(q), e)
                           /\ \A r \in Queue \ {q} : All(r)' = All(r)
<1> DEFINE n == (dupecheck_seqnum[q] + 1) % SeqSpace
           e == [p EXCEPT !.seqnum = n, !.checked = tick]
<1>1. n \in Seqnum
  <2>1. dupecheck_seqnum[q] + 1 \in Int
    BY SMTT(30), ConstantsAssumption DEF TypeOK, Seqnum
  <2>2. QED
    BY ZenonT(30), <2>1, ModRange
<1>2. pb_out' = [pb_out EXCEPT ![q] = Append(@, e)]
  BY ZenonT(30) DEF Emit
<1> HIDE DEF n
<1>3. e \in Pbuf
  BY ZenonT(30), <1>1 DEF TypeOK, Pbuf
<1>4. e.key = p.key /\ e.dup = p.dup /\ e.checked = tick
  BY ZenonT(30) DEF Pbuf
<1> HIDE DEF e
<1>5. pb_out \in [Queue -> Seq(Pbuf)] /\ pbuf_global[q] \in Seq(Pbuf) /\ pb_out[q] \in Seq(Pbuf)
  BY ZenonT(30) DEF TypeOK
<1>6. pb_out'[q] = Append(pb_out[q], e) /\ \A r \in Queue \ {q} : pb_out'[r] = pb_out[r]
  BY ZenonT(30), <1>2, <1>5
<1>7. pbuf_global[q] \o Append(pb_out[q], e) = Append(pbuf_global[q] \o pb_out[q], e)
  <2> DEFINE g == pbuf_global[q]
             o == pb_out[q]
             s == g \o Append(o, e)
             t == Append(g \o o, e)
  <2> HIDE DEF g, o
  <2>1. g \in Seq(Pbuf) /\ o \in Seq(Pbuf)
    BY ZenonT(30), <1>5 DEF g, o
  <2>2. s \in Seq(Pbuf) /\ t \in Seq(Pbuf) /\ Len(s) = Len(t)
    BY SMTT(30), <1>3, <2>1
  <2>3. \A i \in 1..Len(s) : s[i] = t[i]
    BY SMTT(30), <1>3, <2>1
  <2> HIDE DEF s, t
  <2>4. s = t
    BY SMTT(30), <2>2, <2>3
  <2>5. QED
    BY ZenonT(30), <2>4 DEF s, t, g, o
<1>8. All(q)' = Append(All(q), e)
  BY ZenonT(30), <1>6, <1>7 DEF All
<1>9. \A r \in Queue \ {q} : All(r)' = All(r)
  BY ZenonT(30), <1>6 DEF All
<1>10. QED
  BY ZenonT(30), <1>3, <1>4, <1>8, <1>9

(* dupecheck() on one packet. *)
LEMMA DupesCheck ==
    ASSUME TypeOK, TypeOK', Unmarked, CheckPacket,
           Filtered(All("main"), All("dupe"), dupecheck_db, tick)
    PROVE  Filtered(All("main")', All("dupe")', dupecheck_db', tick')
<1> DEFINE p == Head(pb_list)
<1>1. /\ pb_list # <<>> /\ pbuf_global' = pbuf_global /\ tick' = tick
      /\ CheckDupe(p) \/ CheckUnique(p) \/ CheckAllocFail(p)
  BY ZenonT(30) DEF CheckPacket, queueVars
<1>2. p \in Pbuf /\ p.key \in Key /\ ~p.dup
  <2>1. pb_list \in Seq(Pbuf) /\ pb_list[1] = p /\ 1 \in 1..Len(pb_list)
    BY SMTT(30), <1>1 DEF TypeOK
  <2>2. pb_list[1] \in Pbuf /\ pb_list[1].key \in Key
    BY ZenonT(30), <2>1, InQueue
  <2>3. ~pb_list[1].dup
    BY ZenonT(30), <2>1 DEF Unmarked, Clean
  <2>4. QED
    BY ZenonT(30), <2>1, <2>2, <2>3
<1>3. /\ "main" \in Queue /\ "dupe" \in Queue
      /\ "dupe" \in Queue \ {"main"} /\ "main" \in Queue \ {"dupe"}
  BY ZenonT(30) DEF Queue
<1>4. /\ All("main") \in Seq(Pbuf) /\ All("dupe") \in Seq(Pbuf)
      /\ dupecheck_db \in Db /\ tick \in Time
  BY ZenonT(30), <1>3, AllType
<1>5. dupecheck_db' \in Db
  BY ZenonT(30) DEF TypeOK, Db
<1>6. \A k : DupeMatch(k) <=> Match(dupecheck_db, tick, k)
  BY ZenonT(30) DEF DupeMatch, Match
<1> HIDE DEF p
<1>7. CASE CheckDupe(p)
  <2> DEFINE r == [p EXCEPT !.dup = TRUE]
  <2>1. DupeMatch(p.key) /\ Emit("dupe", r) /\ dupecheck_db' = dupecheck_db
    BY ZenonT(30), <1>7 DEF CheckDupe
  <2>2. r \in Pbuf /\ r.key = p.key
    BY ZenonT(30), <1>2 DEF Pbuf
  <2> HIDE DEF r
  <2>3. PICK e \in Pbuf : /\ e.key = r.key /\ e.checked = tick
                          /\ All("dupe")' = Append(All("dupe"), e)
                          /\ \A x \in Queue \ {"dupe"} : All(x)' = All(x)
    BY ZenonT(30), <1>1, <1>3, <2>1, <2>2, Emitted
  <2>4. Match(dupecheck_db, tick, e.key)
    BY ZenonT(30), <1>6, <2>1, <2>2, <2>3
  <2>5. Filtered(All("main"), Append(All("dupe"), e), dupecheck_db, tick)
    BY ZenonT(30), <1>4, <2>3, <2>4, FilteredDupe
  <2>6. QED
    BY ZenonT(30), <1>1, <1>3, <2>1, <2>3, <2>5
<1>8. CASE CheckAllocFail(p)
  <2>1. Emit("dupe", p) /\ dupecheck_db' = dupecheck_db
    BY ZenonT(30), <1>8 DEF CheckAllocFail
  <2>2. PICK e \in Pbuf : /\ e.dup = p.dup /\ e.checked = tick
                          /\ All("dupe")' = Append(All("dupe"), e)
                          /\ \A x \in Queue \ {"dupe"} : All(x)' = All(x)
    BY ZenonT(30), <1>1, <1>2, <1>3, <2>1, Emitted
  <2>3. Filtered(All("main"), Append(All("dupe"), e), dupecheck_db, tick)
    BY ZenonT(30), <1>2, <1>4, <2>2, FilteredDupe
  <2>4. QED
    BY ZenonT(30), <1>1, <1>3, <2>1, <2>2, <2>3
<1>9. CASE CheckUnique(p)
  <2>1. ~DupeMatch(p.key) /\ Emit("main", p)
    BY ZenonT(30), <1>9 DEF CheckUnique
  <2>2. PICK mangled \in SUBSET Mangled[p.key] : dupecheck_db' = DbStore(p.key, mangled)
    BY ZenonT(30), <1>9 DEF CheckUnique
  <2>3. PICK e \in Pbuf : /\ e.key = p.key /\ e.checked = tick
                          /\ All("main")' = Append(All("main"), e)
                          /\ \A x \in Queue \ {"main"} : All(x)' = All(x)
    BY ZenonT(30), <1>1, <1>2, <1>3, <2>1, Emitted
  <2>4. Stores(dupecheck_db, dupecheck_db', tick, e.key, mangled)
    BY ZenonT(30), <2>2, <2>3 DEF DbStore, Stores
  <2>5. ~Match(dupecheck_db, tick, e.key) /\ mangled \in SUBSET Mangled[e.key]
    BY ZenonT(30), <1>6, <2>1, <2>2, <2>3
  <2>6. Filtered(Append(All("main"), e), All("dupe"), dupecheck_db', tick)
    BY ZenonT(30), <1>4, <1>5, <2>3, <2>4, <2>5, FilteredUnique
  <2>7. QED
    BY ZenonT(30), <1>1, <1>3, <2>3, <2>6
<1>10. QED
  BY ZenonT(30), <1>1, <1>7, <1>8, <1>9

(* Splicing the chains changes the queues, and not all that was put. *)
LEMMA DupesSplice ==
    ASSUME TypeOK, Splice, NEW q \in Queue
    PROVE  All(q)' = All(q) /\ pbuf_global'[q] = All(q)
<1>1. pbuf_global'[q] = pbuf_global[q] \o pb_out[q] /\ pb_out'[q] = <<>>
  BY ZenonT(30) DEF Splice
<1>2. All(q) \in Seq(Pbuf)
  BY ZenonT(30), AllType
<1>3. All(q) \o <<>> = All(q)
  BY SMTT(30), <1>2
<1>4. QED
  BY ZenonT(30), <1>1, <1>3 DEF All

(* Every step keeps the inductive invariant. *)
LEMMA DupesNext == Dupes /\ [Next]_vars => Dupes'
<1> SUFFICES ASSUME Dupes, [Next]_vars PROVE Dupes'
  BY ZenonT(30)
<1>1. TypeOK /\ TypeOK' /\ Unmarked
  BY ZenonT(30), TypeNext DEF Dupes
<1>2. Unmarked'
  <2>1. CASE Next
    BY ZenonT(30), <1>1, <2>1, UnmarkedNext
  <2>2. CASE UNCHANGED vars
    BY ZenonT(30), <1>1, <2>2 DEF vars, producerVars, checkVars, Unmarked
  <2>3. QED
    BY ZenonT(30), <2>1, <2>2
<1> DEFINE Kept == /\ Filtered(All("main")', All("dupe")', dupecheck_db', tick')
                   /\ Explained(pbuf_global'["dupe"], pbuf_global'["main"])
           Still == UNCHANGED <<pbuf_global, pb_out, dupecheck_db, tick>>
<1>3. /\ Filtered(All("main"), All("dupe"), dupecheck_db, tick)
      /\ Explained(pbuf_global["dupe"], pbuf_global["main"])
  BY ZenonT(30) DEF Dupes
<1>4. "main" \in Queue /\ "dupe" \in Queue
  BY ZenonT(30) DEF Queue
<1>5. /\ All("main") \in Seq(Pbuf) /\ All("dupe") \in Seq(Pbuf)
      /\ dupecheck_db \in Db /\ tick \in Time
  BY ZenonT(30), <1>1, <1>4, AllType
<1>6. ASSUME Still PROVE Kept
  BY ZenonT(30), <1>3, <1>6 DEF All
<1>7. ASSUME Tick PROVE Kept
  <2>1. UNCHANGED <<pbuf_global, pb_out, dupecheck_db>> /\ tick' = tick + 1
    BY ZenonT(30), <1>7 DEF Tick, checkVars, queueVars
  <2>2. tick + 1 \in Time
    BY ZenonT(30), <1>1, <2>1 DEF TypeOK
  <2>3. Filtered(All("main"), All("dupe"), dupecheck_db, tick + 1)
    BY ZenonT(30), <1>3, <1>5, <2>2, FilteredTick
  <2>4. QED
    BY ZenonT(30), <1>3, <2>1, <2>3 DEF All
<1>8. ASSUME DupecheckStep PROVE Kept
  <2>1. CASE CheckPacket
    <3>1. pbuf_global' = pbuf_global
      BY ZenonT(30), <2>1 DEF CheckPacket, queueVars
    <3>2. Filtered(All("main")', All("dupe")', dupecheck_db', tick')
      BY ZenonT(30), <1>1, <1>3, <2>1, DupesCheck
    <3>3. QED
      BY ZenonT(30), <1>3, <3>1, <3>2
  <2>2. CASE Splice
    <3>1. dupecheck_db' = dupecheck_db /\ tick' = tick
      BY ZenonT(30), <2>2 DEF Splice
    <3>2. /\ All("main")' = All("main") /\ All("dupe")' = All("dupe")
          /\ pbuf_global'["main"] = All("main") /\ pbuf_global'["dupe"] = All("dupe")
      BY ZenonT(30), <1>1, <1>4, <2>2, DupesSplice
    <3>3. QED
      BY ZenonT(30), <1>3, <3>1, <3>2 DEF Filtered
  <2>3. CASE Purge
    <3>1. /\ UNCHANGED <<pbuf_global, pb_out, tick>>
          /\ dupecheck_db' = [k \in Key |->
               IF dupecheck_db[k] < tick - StoreTime THEN Never ELSE dupecheck_db[k]]
      BY ZenonT(30), <2>3 DEF Purge
    <3>2. dupecheck_db' \in Db
      BY ZenonT(30), <1>1 DEF TypeOK, Db
    <3>3. \A k \in Key : dupecheck_db'[k] =
             IF dupecheck_db[k] < tick - StoreTime THEN Never ELSE dupecheck_db[k]
      BY ZenonT(30), <3>1
    <3>4. Filtered(All("main"), All("dupe"), dupecheck_db', tick)
      BY ZenonT(30), <1>3, <1>5, <3>2, <3>3, FilteredPurge
    <3>5. QED
      BY ZenonT(30), <1>3, <3>1, <3>4 DEF All
  <2>4. CASE ~CheckPacket /\ ~Splice /\ ~Purge
    <3>1. Still
      BY ZenonT(30), <1>8, <2>4 DEF DupecheckStep, LoopTop, WalkSkip, DrainLock, DrainTake,
         DrainDone, LagScan, checkVars, queueVars
    <3>2. QED
      BY ZenonT(30), <1>6, <3>1
  <2>5. QED
    BY ZenonT(30), <2>1, <2>2, <2>3, <2>4
<1>9. ASSUME NEW w \in Worker, WorkerStep(w) PROVE Kept
  <2>1. Still
    BY ZenonT(30), <1>9 DEF WorkerStep, OutgoingStart, OutgoingSkip, PollDone,
       Process, Advance, QueueEnd, checkVars, queueVars
  <2>2. QED
    BY ZenonT(30), <1>6, <2>1
<1>10. ASSUME AcceptStep \/ (\E n \in Worker : DupecheckStop(n)) \/ UNCHANGED vars PROVE Kept
  <2>1. Still
    BY ZenonT(30), <1>10 DEF AcceptStep, DupecheckJoined, WorkerStop, WorkerJoined,
       WorkerStart, DupecheckStart, DupecheckStop, checkVars, queueVars, vars
  <2>2. QED
    BY ZenonT(30), <1>6, <2>1
<1>11. ASSUME NEW w, NEW k, NEW l, Receive(w, k, l) \/ PseudoPush(w, k, l) PROVE Kept
  <2>1. Still
    BY ZenonT(30), <1>11 DEF Receive, PseudoPush, checkVars, queueVars
  <2>2. QED
    BY ZenonT(30), <1>6, <2>1
<1> HIDE DEF Kept
<1>12. Kept
  BY ZenonT(30), <1>7, <1>8, <1>9, <1>10, <1>11 DEF Next
<1>13. QED
  BY ZenonT(30), <1>1, <1>2, <1>12 DEF Dupes, Kept

(* The inductive invariant of the dupe check holds always. *)
THEOREM DupesInductive == Spec => []Dupes
BY DupesInit, DupesNext, PTL DEF Spec

(***************************************************************************)
(* Of the copies of a content that are checked within StoreTime of each    *)
(* other only the first enters the unique queue, however the workers, the  *)
(* check, the cleanup of old records and failing allocations interleave.   *)
(***************************************************************************)
THEOREM CopiesAreSpaced == Spec => []UniqueSpacing
<1>1. ASSUME Dupes PROVE UniqueSpacing
  <2> DEFINE G == pbuf_global["main"]
             O == pb_out["main"]
  <2>1. G \in Seq(Pbuf) /\ O \in Seq(Pbuf) /\ Spaced(G \o O)
    BY ZenonT(30), <1>1, AllType DEF Dupes, Filtered, All, Queue
  <2> SUFFICES ASSUME NEW j \in DOMAIN G, NEW i \in 1..(j - 1), G[i].key = G[j].key
               PROVE  G[j].checked - G[i].checked > StoreTime
    BY ZenonT(30) DEF UniqueSpacing
  <2> HIDE DEF G, O
  <2>2. /\ j \in 1..Len(G \o O) /\ i \in 1..(j - 1)
        /\ (G \o O)[j] = G[j] /\ (G \o O)[i] = G[i]
    BY SMTT(30), <2>1
  <2>3. QED
    BY ZenonT(30), <2>1, <2>2 DEF Spaced
<1>2. QED
  BY <1>1, DupesInductive, PTL

(***************************************************************************)
(* A packet is marked a duplicate only on account of a packet that is on   *)
(* the unique queue and was checked at most StoreTime earlier.             *)
(***************************************************************************)
THEOREM DupesAreCovered == Spec => []DupeHasOriginal
<1>1. ASSUME Dupes PROVE DupeHasOriginal
  <2>1. /\ DOMAIN pbuf_global["main"] = 1..Len(pbuf_global["main"])
        /\ DOMAIN pbuf_global["dupe"] = 1..Len(pbuf_global["dupe"])
    BY SMTT(30), <1>1, AllType DEF Dupes, Queue
  <2>2. QED
    BY ZenonT(30), <1>1, <2>1 DEF Dupes, Explained, DupeHasOriginal
<1>2. QED
  BY <1>1, DupesInductive, PTL
==============================================================================
