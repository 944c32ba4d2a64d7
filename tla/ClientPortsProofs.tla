------------------------- MODULE ClientPortsProofs -------------------------
(***************************************************************************)
(* RefsExact and GaugeExact hold for every set of scenarios: any number of *)
(* workers, reloads, connections, peers, and any limits.                   *)
(*                                                                         *)
(* Neither is inductive.  A count is right after a step only if the object *)
(* that the step touches is what its user thinks it is: that the accounter *)
(* of a client's listener exists as long as the client, that a UDP socket  *)
(* in use has its accounter, that no two listeners share an object, and    *)
(* that no UDP socket is accounted with a TCP listener (ObjectsShaped).    *)
(***************************************************************************)
EXTENDS ClientPorts, FiniteSetTheorems, WellFoundedInduction, TLAPS

Acc == [refcount : Nat, gauge : Int]
Udp == [root : Slot, portaccount : Nat, refcount : Nat, polled : BOOLEAN]
ClientState == {"login", "connected", "corepeer", "magic", "freed"}
Client == [state : ClientState, portaccount : Nat, udpclient : Nat, udp_port : BOOLEAN,
           xfd : BOOLEAN, shut : BOOLEAN]
Listener == [id : Nat, slot : Slot, portaccount : Nat, udp : Nat, deny : BOOLEAN]

ObjectTypes ==
    /\ portaccount \in Seq(Acc) /\ udpclient \in Seq(Udp) /\ client \in Seq(Client)
    /\ inbound_connects \in Int /\ listen_list \subseteq Listener

UdpShaped(u) ==
    /\ udpclient[u].portaccount \in 0..Len(portaccount)
    /\ udpclient[u].refcount > 0 => udpclient[u].portaccount # 0

ClientShaped(c) ==
    /\ client[c].portaccount \in 0..Len(portaccount)
    /\ client[c].portaccount # 0 <=> Inport(c)
    /\ client[c].udpclient \in 0..Len(udpclient)
    /\ client[c].udp_port => client[c].udpclient # 0
    /\ client[c].state = "magic" => client[c].udpclient = 0
    /\ client[c].state = "login" => ~client[c].udp_port

ListenerShaped(l) ==
    /\ l.portaccount \in DOMAIN portaccount
    /\ l.udp \in 0..Len(udpclient)
    /\ l.slot = "tcp" => \A u \in DOMAIN udpclient : udpclient[u].portaccount # l.portaccount

Unshared(l, m) ==
    l.portaccount = m.portaccount \/ (l.udp = m.udp /\ l.udp # 0) => l = m

ObjectsShaped ==
    /\ \A u \in DOMAIN udpclient : UdpShaped(u)
    /\ \A c \in DOMAIN client : ClientShaped(c)
    /\ \A l \in listen_list : ListenerShaped(l)
    /\ \A l, m \in listen_list : Unshared(l, m)

ObjectsInv == ObjectTypes /\ ObjectsShaped /\ RefsExact /\ GaugeExact

(* The configuration, and the threads: what they know are clients that exist. *)
ConfigTyped ==
    /\ scenario \in Scenarios
    /\ listen_config \in [Slot -> Nat] /\ last_id \in Nat
    /\ peerip_config \in Nat /\ acl \in BOOLEAN
    /\ workers_configured \in Worker
    /\ workers_running \in 0..MaxWorkers /\ next_receiving_worker \in 0..MaxWorkers
    /\ shutting_down => workers_running > 0

QueuesTyped ==
    /\ \A w \in Worker : new_clients[w] \in Seq(DOMAIN client) /\ clients[w] \subseteq DOMAIN client
    /\ DOMAIN new_clients = Worker /\ DOMAIN clients = Worker
    /\ corepeers \in Seq(DOMAIN client)

ThreadTypes == ConfigTyped /\ QueuesTyped

PortsIInv == ThreadTypes /\ ObjectsInv
-----------------------------------------------------------------------------
(***************************************************************************)
(* Counting.                                                               *)
(***************************************************************************)

(* The users of an object are finitely many. *)
LEMMA CountFinite ==
    ASSUME NEW n \in Nat, NEW S, S \subseteq 1..n
    PROVE  IsFiniteSet(S) /\ Cardinality(S) \in Nat
<1>1. IsFiniteSet(1..n)
  BY FS_Interval
<1>2. IsFiniteSet(S)
  BY <1>1, FS_Subset, ZenonT(30)
<1> QED
  BY <1>2, FS_CardinalityType, ZenonT(30)

(* A new user adds one to the count. *)
LEMMA CountAdd ==
    ASSUME NEW S, IsFiniteSet(S), NEW x, x \notin S
    PROVE  Cardinality(S \cup {x}) = Cardinality(S) + 1
  BY FS_AddElement, ZenonT(30)

(* A user that goes takes one off the count. *)
LEMMA CountDrop ==
    ASSUME NEW S, IsFiniteSet(S), NEW x
    PROVE  /\ x \in S => Cardinality(S \ {x}) = Cardinality(S) - 1 /\ Cardinality(S) >= 1
           /\ x \notin S => S \ {x} = S
<1>1. x \notin S => S \ {x} = S
  BY ZenonT(30)
<1>2. ASSUME x \in S PROVE Cardinality(S \ {x}) = Cardinality(S) - 1
  BY <1>2, FS_RemoveElement, ZenonT(30)
<1>3. ASSUME x \in S PROVE Cardinality(S) # 0
  BY <1>3, FS_EmptySet, ZenonT(30)
<1>4. Cardinality(S) \in Nat
  BY FS_CardinalityType, ZenonT(30)
<1> QED
  BY <1>1, <1>2, <1>3, <1>4, SMTT(30)

(* An object with one user has no other. *)
LEMMA CountOne ==
    ASSUME NEW S, IsFiniteSet(S), NEW x \in S, NEW y \in S, Cardinality(S) <= 1
    PROVE  x = y
<1>1. Cardinality(S) \in Nat /\ Cardinality(S) # 0
  BY FS_CardinalityType, FS_EmptySet, ZenonT(30)
<1>2. Cardinality(S) = 1
  BY <1>1, SMTT(30)
<1>3. PICK z : S = {z}
  BY <1>2, FS_Singleton, ZenonT(30)
<1> QED
  BY <1>3, ZenonT(30)

(* Users that come together: n of them, numbered on from m. *)
LEMMA CountMany ==
    ASSUME NEW S, NEW m \in Nat, NEW n \in Nat, S \subseteq 1..m
    PROVE  Cardinality(S \cup (m + 1..m + n)) = Cardinality(S) + n
<1> DEFINE T == m + 1..m + n
<1>1. IsFiniteSet(S) /\ Cardinality(S) \in Nat
  BY CountFinite, ZenonT(30)
<1>2. IsFiniteSet(T) /\ Cardinality(T) = n
  <2>1. IsFiniteSet(T) /\ Cardinality(T) = IF m + 1 > m + n THEN 0 ELSE m + n - (m + 1) + 1
    BY FS_Interval, SMTT(30)
  <2> QED
    BY <2>1, SMTT(30)
<1>3. S \cap T = {}
  BY SMTT(30)
<1>4. Cardinality(S \cup T) = Cardinality(S) + Cardinality(T) - Cardinality(S \cap T)
  BY <1>1, <1>2, FS_Union, ZenonT(30)
<1>5. Cardinality(S \cap T) = 0
  BY <1>3, FS_EmptySet, ZenonT(30)
<1> HIDE DEF T
<1>6. Cardinality(S \cup T) = Cardinality(S) + n
  BY <1>1, <1>2, <1>4, <1>5, SMTT(30)
<1> QED
  BY <1>6, ZenonT(30) DEF T

(* A set of natural numbers has a least member. *)
LEMMA LeastNatural ==
    ASSUME NEW S \in SUBSET Nat, S # {}
    PROVE  \E n \in S : \A m \in S : n <= m
<1>1. PICK n \in S : \A m \in S : ~(<<m, n>> \in OpToRel(<, Nat))
  BY NatLessThanWellFounded, WFMin, ZenonT(30)
<1>2. ASSUME NEW m \in S PROVE n <= m
  <2>1. ~(m < n)
    BY <1>1 DEF OpToRel
  <2> QED
    BY <2>1, SMTT(30)
<1> QED
  BY <1>2, ZenonT(30)

(* The newest socket of a list is one of the list (client_udp_find). *)
LEMMA FindFinds ==
    ASSUME ObjectTypes, NEW s \in Slot, client_udp_find(s) # 0
    PROVE  /\ client_udp_find(s) \in DOMAIN udpclient
           /\ udpclient[client_udp_find(s)].refcount > 0
<1> DEFINE found == {u \in DOMAIN udpclient : udpclient[u].root = s /\ udpclient[u].refcount > 0}
           bounds == {n \in Nat : \A u \in found : u <= n}
<1>0. udpclient \in Seq(Udp) /\ DOMAIN udpclient = 1..Len(udpclient) /\ Len(udpclient) \in Nat
  BY SMTT(30) DEF ObjectTypes
<1>1. found # {} /\ client_udp_find(s) = CHOOSE u \in found : \A v \in found : u >= v
  BY ZenonT(30) DEF client_udp_find
<1>2. Len(udpclient) \in bounds
  BY <1>0, SMTT(30)
<1>3. PICK n \in bounds : \A m \in bounds : n <= m
  BY <1>2, LeastNatural, ZenonT(30)
<1>4. n \in found
  <2> SUFFICES ASSUME n \notin found PROVE FALSE
    BY ZenonT(30)
  <2>1. PICK u \in found : TRUE
    BY <1>1, ZenonT(30)
  <2>2. u \in Nat \ {0} /\ n \in Nat /\ u <= n
    BY <1>0, SMTT(30)
  <2>3. \A v \in found : v \in Nat /\ v <= n /\ v # n
    BY <1>0, SMTT(30)
  <2>4. n - 1 \in bounds
    BY <2>2, <2>3, SMTT(30)
  <2> QED
    BY <1>3, <2>2, <2>4, SMTT(30)
<1>5. \A u \in found : n >= u
  BY <1>0, <1>3, SMTT(30)
<1>6. client_udp_find(s) \in found
  BY <1>1, <1>4, <1>5, ZenonT(30)
<1> QED
  BY <1>6, ZenonT(30)

Put(q, i, e) == [q EXCEPT ![i] = e]
Plus(acc, a, n) == [acc EXCEPT ![a].refcount = @ + n, ![a].gauge = @ + n]

(* A sequence with one element replaced. *)
LEMMA Replaced ==
    ASSUME NEW S, NEW q \in Seq(S), NEW i \in DOMAIN q, NEW e \in S
    PROVE  LET d == Put(q, i, e)
           IN  /\ d \in Seq(S) /\ Len(d) = Len(q) /\ DOMAIN d = DOMAIN q /\ d[i] = e
               /\ \A j \in DOMAIN q : j # i => d[j] = q[j]
  BY SMTT(30) DEF Put

(* port_accounter_drop takes one reference. *)
LEMMA DropOne ==
    ASSUME NEW acc \in Seq(Acc), NEW a \in DOMAIN acc, acc[a].refcount >= 1
    PROVE  LET d == port_accounter_drop(acc, a)
           IN  /\ d \in Seq(Acc) /\ Len(d) = Len(acc) /\ DOMAIN d = DOMAIN acc
               /\ d[a].refcount = acc[a].refcount - 1
               /\ acc[a].refcount > 1 => d[a].gauge = acc[a].gauge - 1
               /\ \A b \in DOMAIN acc : b # a => d[b] = acc[b]
<1> DEFINE d == port_accounter_drop(acc, a)
<1>0. acc[a] \in Acc
  BY SMTT(30)
<1>1. acc[a].refcount \in Nat /\ acc[a].gauge \in Int
  BY <1>0, ZenonT(30) DEF Acc
<1>2. CASE acc[a].refcount = 1
  <2>1. d = [acc EXCEPT ![a] = [refcount |-> 0, gauge |-> 0]]
    BY <1>2, ZenonT(30) DEF port_accounter_drop
  <2>2. [refcount |-> 0, gauge |-> 0] \in Acc
    BY SMTT(30) DEF Acc
  <2> HIDE DEF d
  <2>3. d \in Seq(Acc) /\ Len(d) = Len(acc) /\ DOMAIN d = DOMAIN acc
    BY <2>1, <2>2, SMTT(30)
  <2>4. d[a] = [refcount |-> 0, gauge |-> 0] /\ \A b \in DOMAIN acc : b # a => d[b] = acc[b]
    BY <2>1, SMTT(30)
  <2> QED
    BY <1>2, <2>3, <2>4, SMTT(30) DEF d
<1>3. CASE acc[a].refcount # 1
  <2> DEFINE r == [acc[a] EXCEPT !.refcount = @ - 1, !.gauge = @ - 1]
  <2>1. d = [acc EXCEPT ![a] = r]
    <3>1. d = [acc EXCEPT ![a].refcount = @ - 1, ![a].gauge = @ - 1]
      BY <1>3, ZenonT(30) DEF port_accounter_drop
    <3> QED
      BY <3>1, ZenonT(30)
  <2>2. r \in Acc /\ r.refcount = acc[a].refcount - 1 /\ r.gauge = acc[a].gauge - 1
    <3>1. acc[a].refcount - 1 \in Nat /\ acc[a].gauge - 1 \in Int
      BY <1>1, SMTT(30)
    <3> QED
      BY <1>0, <3>1, ZenonT(30) DEF Acc
  <2> HIDE DEF d, r
  <2>3. d \in Seq(Acc) /\ Len(d) = Len(acc) /\ DOMAIN d = DOMAIN acc
    BY <2>1, <2>2, SMTT(30)
  <2>4. d[a] = r /\ \A b \in DOMAIN acc : b # a => d[b] = acc[b]
    BY <2>1, SMTT(30)
  <2> QED
    BY <2>2, <2>3, <2>4, ZenonT(30) DEF d
<1> QED
  BY <1>2, <1>3, ZenonT(30)

(* port_accounter_add gives one reference. *)
LEMMA AddOne ==
    ASSUME NEW acc \in Seq(Acc), NEW a \in DOMAIN acc, NEW n \in Nat
    PROVE  LET d == Plus(acc, a, n)
           IN  /\ d \in Seq(Acc) /\ Len(d) = Len(acc) /\ DOMAIN d = DOMAIN acc
               /\ d[a].refcount = acc[a].refcount + n
               /\ d[a].gauge = acc[a].gauge + n
               /\ \A b \in DOMAIN acc : b # a => d[b] = acc[b]
<1> DEFINE r == [acc[a] EXCEPT !.refcount = @ + n, !.gauge = @ + n]
           d == Plus(acc, a, n)
<1>0. acc[a] \in Acc
  BY SMTT(30)
<1>1. acc[a].refcount \in Nat /\ acc[a].gauge \in Int
  BY <1>0, ZenonT(30) DEF Acc
<1>2. d = [acc EXCEPT ![a] = r]
  BY ZenonT(30) DEF Plus
<1>3. r \in Acc /\ r.refcount = acc[a].refcount + n /\ r.gauge = acc[a].gauge + n
  <2>1. acc[a].refcount + n \in Nat /\ acc[a].gauge + n \in Int
    BY <1>1, SMTT(30)
  <2> QED
    BY <1>0, <2>1, ZenonT(30) DEF Acc
<1> HIDE DEF d, r
<1>4. d \in Seq(Acc) /\ Len(d) = Len(acc) /\ DOMAIN d = DOMAIN acc
  BY <1>2, <1>3, SMTT(30)
<1>5. d[a] = r /\ \A b \in DOMAIN acc : b # a => d[b] = acc[b]
  BY <1>2, SMTT(30)
<1> QED
  BY <1>3, <1>4, <1>5, ZenonT(30) DEF d
-----------------------------------------------------------------------------
(***************************************************************************)
(* The users of an object.                                                 *)
(***************************************************************************)
Holders(a) == {l \in listen_list : l.portaccount = a}
UdpHolders(u) == {l \in listen_list : l.udp = u}
Through(a) == {c \in DOMAIN client : client[c].portaccount = a}
Fed(a) == {c \in DOMAIN client : client[c].udp_port /\ udpclient[client[c].udpclient].portaccount = a}
Using(u) == {c \in DOMAIN client : client[c].udpclient = u}
Counted == {c \in DOMAIN client : Inport(c)}

(* RefsExact and GaugeExact, in these words. *)
LEMMA InWords ==
    /\ RefsExact <=>
         /\ \A a \in DOMAIN portaccount :
              portaccount[a].refcount = Cardinality(Holders(a)) + Cardinality(Through(a))
                                        + Cardinality(Fed(a))
         /\ \A u \in DOMAIN udpclient :
              udpclient[u].refcount = Cardinality(UdpHolders(u)) + Cardinality(Using(u))
    /\ GaugeExact <=>
         /\ inbound_connects = Cardinality(Counted)
         /\ \A l \in listen_list : l.slot = "tcp" =>
              portaccount[l.portaccount].gauge = Cardinality(Through(l.portaccount))
  BY ZenonT(30) DEF RefsExact, GaugeExact, Holders, UdpHolders, Through, Fed, Using, Counted

(* The objects, one by one. *)
LEMMA Each ==
    ASSUME ObjectTypes
    PROVE  /\ DOMAIN portaccount = 1..Len(portaccount) /\ Len(portaccount) \in Nat
           /\ DOMAIN udpclient = 1..Len(udpclient) /\ Len(udpclient) \in Nat
           /\ DOMAIN client = 1..Len(client) /\ Len(client) \in Nat
           /\ \A a \in DOMAIN portaccount : portaccount[a].refcount \in Nat /\ portaccount[a].gauge \in Int
           /\ \A u \in DOMAIN udpclient : udpclient[u] \in Udp
           /\ \A c \in DOMAIN client : client[c] \in Client
<1>1. /\ DOMAIN portaccount = 1..Len(portaccount) /\ Len(portaccount) \in Nat
      /\ \A a \in DOMAIN portaccount : portaccount[a] \in Acc
  BY SMTT(30) DEF ObjectTypes
<1>2. /\ DOMAIN udpclient = 1..Len(udpclient) /\ Len(udpclient) \in Nat
      /\ \A u \in DOMAIN udpclient : udpclient[u] \in Udp
  BY SMTT(30) DEF ObjectTypes
<1>3. /\ DOMAIN client = 1..Len(client) /\ Len(client) \in Nat
      /\ \A c \in DOMAIN client : client[c] \in Client
  BY SMTT(30) DEF ObjectTypes
<1> QED
  BY <1>1, <1>2, <1>3, ZenonT(30) DEF Acc

(* The sets of users are finite, and a listener is alone. *)
LEMMA UsersFinite ==
    ASSUME ObjectTypes, ObjectsShaped
    PROVE  /\ \A a : IsFiniteSet(Through(a)) /\ Cardinality(Through(a)) \in Nat
           /\ \A a : IsFiniteSet(Fed(a)) /\ Cardinality(Fed(a)) \in Nat
           /\ \A u : IsFiniteSet(Using(u)) /\ Cardinality(Using(u)) \in Nat
           /\ IsFiniteSet(Counted) /\ Cardinality(Counted) \in Nat
           /\ \A a : Cardinality(Holders(a)) = IF \E l \in listen_list : l.portaccount = a THEN 1 ELSE 0
           /\ \A u \in DOMAIN udpclient :
                Cardinality(UdpHolders(u)) = IF \E l \in listen_list : l.udp = u THEN 1 ELSE 0
<1>1. DOMAIN client = 1..Len(client) /\ Len(client) \in Nat
  BY Each, ZenonT(30)
<1>2. \A a : IsFiniteSet(Through(a)) /\ Cardinality(Through(a)) \in Nat
  BY <1>1, CountFinite, ZenonT(30) DEF Through
<1>3. \A a : IsFiniteSet(Fed(a)) /\ Cardinality(Fed(a)) \in Nat
  BY <1>1, CountFinite, ZenonT(30) DEF Fed
<1>4. \A u : IsFiniteSet(Using(u)) /\ Cardinality(Using(u)) \in Nat
  BY <1>1, CountFinite, ZenonT(30) DEF Using
<1>5. IsFiniteSet(Counted) /\ Cardinality(Counted) \in Nat
  BY <1>1, CountFinite, ZenonT(30) DEF Counted
<1>6. ASSUME NEW a
      PROVE  Cardinality(Holders(a)) = IF \E l \in listen_list : l.portaccount = a THEN 1 ELSE 0
  <2>1. ASSUME NEW l \in listen_list, l.portaccount = a PROVE Holders(a) = {l}
    BY <2>1, ZenonT(30) DEF Holders, ObjectsShaped, Unshared
  <2>2. ASSUME ~\E l \in listen_list : l.portaccount = a PROVE Holders(a) = {}
    BY <2>2, ZenonT(30) DEF Holders
  <2> QED
    BY <2>1, <2>2, FS_Singleton, FS_EmptySet, ZenonT(30)
<1>7. ASSUME NEW u \in DOMAIN udpclient
      PROVE  Cardinality(UdpHolders(u)) = IF \E l \in listen_list : l.udp = u THEN 1 ELSE 0
  <2>0. u # 0
    BY Each, SMTT(30)
  <2>1. ASSUME NEW l \in listen_list, l.udp = u PROVE UdpHolders(u) = {l}
    BY <2>0, <2>1, ZenonT(30) DEF UdpHolders, ObjectsShaped, Unshared
  <2>2. ASSUME ~\E l \in listen_list : l.udp = u PROVE UdpHolders(u) = {}
    BY <2>2, ZenonT(30) DEF UdpHolders
  <2> QED
    BY <2>1, <2>2, FS_Singleton, FS_EmptySet, ZenonT(30)
<1> QED
  BY <1>2, <1>3, <1>4, <1>5, <1>6, <1>7, ZenonT(30)
-----------------------------------------------------------------------------
(***************************************************************************)
(* What the steps do to the objects.                                       *)
(***************************************************************************)

(* The objects that a client refers to exist. *)
LEMMA Referred ==
    ASSUME ObjectsInv, NEW c \in DOMAIN client
    PROVE  /\ client[c].portaccount # 0 =>
                /\ client[c].portaccount \in DOMAIN portaccount
                /\ c \in Through(client[c].portaccount)
                /\ portaccount[client[c].portaccount].refcount >= 1
           /\ client[c].udpclient # 0 =>
                /\ client[c].udpclient \in DOMAIN udpclient
                /\ c \in Using(client[c].udpclient)
                /\ udpclient[client[c].udpclient].refcount >= 1
                /\ udpclient[client[c].udpclient].portaccount \in DOMAIN portaccount
           /\ client[c].udp_port => client[c].udpclient # 0 /\ c \in Fed(udpclient[client[c].udpclient].portaccount)
<1> DEFINE a == client[c].portaccount
           u == client[c].udpclient
<1>0. ObjectTypes /\ ObjectsShaped /\ RefsExact /\ ClientShaped(c)
  BY ZenonT(30) DEF ObjectsInv, ObjectsShaped
<1>1. a \in 0..Len(portaccount) /\ u \in 0..Len(udpclient)
  BY <1>0, ZenonT(30) DEF ClientShaped
<1>2. /\ DOMAIN portaccount = 1..Len(portaccount) /\ Len(portaccount) \in Nat
      /\ DOMAIN udpclient = 1..Len(udpclient) /\ Len(udpclient) \in Nat
  BY <1>0, Each, ZenonT(30)
<1>3. a # 0 => a \in DOMAIN portaccount
  BY <1>1, <1>2, SMTT(30)
<1>4. u # 0 => u \in DOMAIN udpclient
  BY <1>1, <1>2, SMTT(30)
<1>5. c \in Through(a) /\ c \in Using(u)
  BY ZenonT(30) DEF Through, Using
<1>6. ASSUME a # 0 PROVE portaccount[a].refcount >= 1
  <2>1. portaccount[a].refcount = Cardinality(Holders(a)) + Cardinality(Through(a)) + Cardinality(Fed(a))
    BY <1>0, <1>3, <1>6, InWords, ZenonT(30)
  <2>2. Cardinality(Through(a)) >= 1
    BY <1>0, <1>5, UsersFinite, CountDrop, ZenonT(30)
  <2>3. Cardinality(Holders(a)) \in Nat /\ Cardinality(Fed(a)) \in Nat /\ Cardinality(Through(a)) \in Nat
    <3>1. 0 \in Nat /\ 1 \in Nat
      BY SMTT(30)
    <3> QED
      BY <3>1, <1>0, UsersFinite, ZenonT(30)
  <2> QED
    BY <2>1, <2>2, <2>3, SMTT(30)
<1>7. ASSUME u # 0 PROVE udpclient[u].refcount >= 1 /\ udpclient[u].portaccount \in DOMAIN portaccount
  <2>1. udpclient[u].refcount = Cardinality(UdpHolders(u)) + Cardinality(Using(u))
    BY <1>0, <1>4, <1>7, InWords, ZenonT(30)
  <2>2. Cardinality(Using(u)) >= 1
    BY <1>0, <1>5, UsersFinite, CountDrop, ZenonT(30)
  <2>3. Cardinality(UdpHolders(u)) \in Nat /\ Cardinality(Using(u)) \in Nat
    <3>1. 0 \in Nat /\ 1 \in Nat
      BY SMTT(30)
    <3> QED
      BY <3>1, <1>0, <1>4, <1>7, UsersFinite, ZenonT(30)
  <2>4. udpclient[u].refcount >= 1 /\ udpclient[u].refcount > 0
    BY <2>1, <2>2, <2>3, SMTT(30)
  <2>5. udpclient[u].portaccount \in 0..Len(portaccount) /\ udpclient[u].portaccount # 0
    BY <1>0, <1>4, <1>7, <2>4, ZenonT(30) DEF ObjectsShaped, UdpShaped
  <2> QED
    BY <1>2, <2>4, <2>5, SMTT(30)
<1>8. client[c].udp_port => u # 0 /\ c \in Fed(udpclient[u].portaccount)
  BY <1>0, ZenonT(30) DEF ClientShaped, Fed
<1> QED
  BY <1>3, <1>4, <1>5, <1>6, <1>7, <1>8, ZenonT(30)

(* client_udp_free takes one reference, and empties the last. *)
LEMMA UdpFreeOne ==
    ASSUME NEW udp \in Seq(Udp), NEW u \in DOMAIN udp, udp[u].refcount >= 1
    PROVE  LET d == client_udp_free(udp, u)
           IN  /\ d \in Seq(Udp) /\ Len(d) = Len(udp) /\ DOMAIN d = DOMAIN udp
               /\ d[u].refcount = udp[u].refcount - 1
               /\ d[u].portaccount = IF udp[u].refcount = 1 THEN 0 ELSE udp[u].portaccount
               /\ \A v \in DOMAIN udp : v # u => d[v] = udp[v]
<1> DEFINE d == client_udp_free(udp, u)
           r == IF udp[u].refcount = 1
                THEN [udp[u] EXCEPT !.portaccount = 0, !.refcount = 0, !.polled = FALSE]
                ELSE [udp[u] EXCEPT !.refcount = @ - 1]
<1>0. udp[u] \in Udp /\ u # 0
  BY SMTT(30)
<1>1. udp[u].refcount \in Nat
  BY <1>0, ZenonT(30) DEF Udp
<1>2. d = [udp EXCEPT ![u] = r]
  BY <1>0, ZenonT(30) DEF client_udp_free
<1>3. r \in Udp
  <2>1. udp[u].refcount - 1 \in Nat /\ 0 \in Nat /\ FALSE \in BOOLEAN
    BY <1>1, SMTT(30)
  <2> QED
    BY <1>0, <2>1, ZenonT(30) DEF Udp
<1>4. r.refcount = udp[u].refcount - 1
  <2>1. udp[u].refcount = 1 => 0 = udp[u].refcount - 1
    BY SMTT(30)
  <2> QED
    BY <1>0, <2>1, ZenonT(30) DEF Udp
<1>5. r.portaccount = IF udp[u].refcount = 1 THEN 0 ELSE udp[u].portaccount
  BY <1>0, ZenonT(30) DEF Udp
<1> HIDE DEF d, r
<1>6. d \in Seq(Udp) /\ Len(d) = Len(udp) /\ DOMAIN d = DOMAIN udp
  BY <1>2, <1>3, SMTT(30)
<1>7. d[u] = r /\ \A v \in DOMAIN udp : v # u => d[v] = udp[v]
  BY <1>2, SMTT(30)
<1> QED
  BY <1>4, <1>5, <1>6, <1>7, ZenonT(30) DEF d

(* client_close takes back what the client holds, and only that. *)
LEMMA ReleaseObjects ==
    ASSUME ObjectsInv, NEW c \in DOMAIN client, Release(c), UNCHANGED listen_list
    PROVE  ObjectsInv'
<1> DEFINE a0 == client[c].portaccount
           u0 == client[c].udpclient
           fed == client[c].udp_port
           a1 == udpclient[u0].portaccount
           p == IF a0 # 0 THEN port_accounter_drop(portaccount, a0) ELSE portaccount
<1>0. ObjectTypes /\ ObjectsShaped /\ RefsExact /\ GaugeExact /\ ClientShaped(c)
  BY ZenonT(30) DEF ObjectsInv, ObjectsShaped
<1>types. /\ portaccount \in Seq(Acc) /\ udpclient \in Seq(Udp) /\ client \in Seq(Client)
          /\ inbound_connects \in Int
  BY <1>0, ZenonT(30) DEF ObjectTypes
<1>1. /\ a0 # 0 => a0 \in DOMAIN portaccount /\ c \in Through(a0) /\ portaccount[a0].refcount >= 1
      /\ u0 # 0 => u0 \in DOMAIN udpclient /\ c \in Using(u0) /\ udpclient[u0].refcount >= 1
                   /\ a1 \in DOMAIN portaccount
      /\ fed => u0 # 0 /\ c \in Fed(a1)
  BY Referred, ZenonT(30)
<1>2. \A a \in DOMAIN portaccount :
        /\ portaccount[a].refcount = Cardinality(Holders(a)) + Cardinality(Through(a)) + Cardinality(Fed(a))
        /\ Cardinality(Holders(a)) \in Nat /\ Cardinality(Through(a)) \in Nat /\ Cardinality(Fed(a)) \in Nat
        /\ c \in Through(a) => Cardinality(Through(a)) >= 1
        /\ c \in Fed(a) => Cardinality(Fed(a)) >= 1
  <2>1. 0 \in Nat /\ 1 \in Nat
    BY SMTT(30)
  <2> QED
    BY <1>0, <2>1, InWords, UsersFinite, CountDrop, ZenonT(30)
<1>3. /\ p \in Seq(Acc) /\ Len(p) = Len(portaccount) /\ DOMAIN p = DOMAIN portaccount
      /\ a0 # 0 => p[a0].refcount = portaccount[a0].refcount - 1
      /\ a0 # 0 /\ portaccount[a0].refcount > 1 => p[a0].gauge = portaccount[a0].gauge - 1
      /\ \A b \in DOMAIN portaccount : b # a0 => p[b] = portaccount[b]
  <2>1. CASE a0 = 0
    BY <1>types, <2>1, ZenonT(30)
  <2>2. CASE a0 # 0
    BY <1>types, <1>1, <2>2, DropOne, ZenonT(30)
  <2> QED
    BY <2>1, <2>2, ZenonT(30)
<1>4. fed => a1 \in DOMAIN p /\ p[a1].refcount >= 1
  <2> SUFFICES ASSUME fed PROVE a1 \in DOMAIN p /\ p[a1].refcount >= 1
    BY ZenonT(30)
  <2>1. a1 \in DOMAIN portaccount /\ c \in Fed(a1)
    BY <1>1, ZenonT(30)
  <2>2. a1 = a0 => p[a1].refcount >= 1
    <3> SUFFICES ASSUME a1 = a0 PROVE p[a1].refcount >= 1
      BY ZenonT(30)
    <3>1. a0 # 0
      BY <2>1, <1>0, Each, SMTT(30)
    <3>2. Cardinality(Through(a1)) >= 1 /\ Cardinality(Fed(a1)) >= 1
      BY <1>1, <1>2, <2>1, <3>1, ZenonT(30)
    <3>3. p[a1].refcount = portaccount[a1].refcount - 1
      BY <1>3, <3>1, ZenonT(30)
    <3>4. /\ portaccount[a1].refcount = Cardinality(Holders(a1)) + Cardinality(Through(a1)) + Cardinality(Fed(a1))
          /\ Cardinality(Holders(a1)) \in Nat /\ Cardinality(Through(a1)) \in Nat /\ Cardinality(Fed(a1)) \in Nat
      BY <1>2, <2>1, ZenonT(30)
    <3> HIDE DEF p, a1
    <3> QED
      BY <3>2, <3>3, <3>4, SMTT(30)
  <2>3. a1 # a0 => p[a1].refcount >= 1
    <3> SUFFICES ASSUME a1 # a0 PROVE p[a1].refcount >= 1
      BY ZenonT(30)
    <3>1. p[a1] = portaccount[a1] /\ Cardinality(Fed(a1)) >= 1
      BY <1>2, <1>3, <2>1, ZenonT(30)
    <3>2. /\ portaccount[a1].refcount = Cardinality(Holders(a1)) + Cardinality(Through(a1)) + Cardinality(Fed(a1))
          /\ Cardinality(Holders(a1)) \in Nat /\ Cardinality(Through(a1)) \in Nat /\ Cardinality(Fed(a1)) \in Nat
      BY <1>2, <2>1, ZenonT(30)
    <3> HIDE DEF p, a1
    <3> QED
      BY <3>1, <3>2, SMTT(30)
  <2> QED
    BY <1>3, <2>1, <2>2, <2>3, ZenonT(30)
<1>5. /\ portaccount' \in Seq(Acc) /\ Len(portaccount') = Len(portaccount)
      /\ DOMAIN portaccount' = DOMAIN portaccount
      /\ fed => portaccount'[a1].refcount = p[a1].refcount - 1
      /\ \A b \in DOMAIN portaccount : (fed => b # a1) => portaccount'[b] = p[b]
  <2>1. portaccount' = IF fed THEN port_accounter_drop(p, a1) ELSE p
    BY ZenonT(30) DEF Release
  <2> HIDE DEF p, a1
  <2>2. CASE fed
    BY <1>3, <1>4, <2>1, <2>2, DropOne, ZenonT(30)
  <2>3. CASE ~fed
    BY <1>3, <2>1, <2>3, ZenonT(30)
  <2> QED
    BY <2>2, <2>3, ZenonT(30)
<1>6. /\ client' \in Seq(Client) /\ Len(client') = Len(client) /\ DOMAIN client' = DOMAIN client
      /\ client'[c] = Freed /\ \A d \in DOMAIN client : d # c => client'[d] = client[d]
  <2>1. Freed \in Client
    <3>1. 0 \in Nat /\ FALSE \in BOOLEAN
      BY SMTT(30)
    <3> QED
      BY <3>1, ZenonT(30) DEF Freed, Client, ClientState
  <2>2. client' = [client EXCEPT ![c] = Freed]
    BY ZenonT(30) DEF Release
  <2> QED
    BY <1>types, <2>1, <2>2, SMTT(30)
<1>7. /\ udpclient' \in Seq(Udp) /\ Len(udpclient') = Len(udpclient) /\ DOMAIN udpclient' = DOMAIN udpclient
      /\ u0 # 0 => udpclient'[u0].refcount = udpclient[u0].refcount - 1
      /\ u0 # 0 => udpclient'[u0].portaccount = IF udpclient[u0].refcount = 1 THEN 0 ELSE a1
      /\ \A v \in DOMAIN udpclient : v # u0 => udpclient'[v] = udpclient[v]
  <2>1. udpclient' = client_udp_free(udpclient, u0)
    BY ZenonT(30) DEF Release
  <2>2. CASE u0 = 0
    BY <1>types, <2>1, <2>2, ZenonT(30) DEF client_udp_free
  <2>3. CASE u0 # 0
    BY <1>types, <1>1, <2>1, <2>3, UdpFreeOne, ZenonT(30)
  <2> QED
    BY <2>2, <2>3, ZenonT(30)
<1> HIDE DEF p
<1>8. ASSUME NEW d \in DOMAIN client, d # c, client[d].udp_port
      PROVE  udpclient'[client[d].udpclient].portaccount = udpclient[client[d].udpclient].portaccount
  <2>1. client[d].udpclient # 0 /\ client[d].udpclient \in DOMAIN udpclient
    BY <1>8, Referred, ZenonT(30)
  <2>2. CASE client[d].udpclient # u0
    BY <1>7, <2>1, <2>2, ZenonT(30)
  <2>3. CASE client[d].udpclient = u0
    <3>1. udpclient[u0].refcount # 1
      <4> SUFFICES ASSUME udpclient[u0].refcount = 1 PROVE FALSE
        BY ZenonT(30)
      <4>1. /\ udpclient[u0].refcount = Cardinality(UdpHolders(u0)) + Cardinality(Using(u0))
            /\ IsFiniteSet(Using(u0)) /\ Cardinality(Using(u0)) \in Nat
        BY <1>0, <2>1, <2>3, InWords, UsersFinite, ZenonT(30)
      <4>2. Cardinality(UdpHolders(u0)) \in Nat
        <5>1. 0 \in Nat /\ 1 \in Nat
          BY SMTT(30)
        <5> QED
          BY <5>1, <1>0, <2>1, <2>3, UsersFinite, ZenonT(30)
      <4>3. Cardinality(Using(u0)) <= 1
        BY <4>1, <4>2, SMTT(30)
      <4>4. c \in Using(u0) /\ d \in Using(u0)
        BY <2>3, ZenonT(30) DEF Using
      <4> QED
        BY <1>8, <4>1, <4>3, <4>4, CountOne, ZenonT(30)
    <3> QED
      BY <1>7, <2>1, <2>3, <3>1, ZenonT(30)
  <2> QED
    BY <2>2, <2>3, ZenonT(30)
<1>9. Freed.portaccount = 0 /\ Freed.udpclient = 0 /\ ~Freed.udp_port /\ Freed.state = "freed"
  BY ZenonT(30) DEF Freed
<1>10. ASSUME NEW a \in DOMAIN portaccount
       PROVE  /\ Through(a)' = Through(a) \ {c} /\ Fed(a)' = Fed(a) \ {c}
              /\ Holders(a)' = Holders(a) /\ a # 0
  <2>1. a # 0
    BY <1>0, Each, SMTT(30)
  <2>2. Through(a)' = Through(a) \ {c}
    BY <1>6, <1>9, <2>1, ZenonT(30) DEF Through
  <2>3. Fed(a)' = Fed(a) \ {c}
    BY <1>6, <1>8, <1>9, ZenonT(30) DEF Fed
  <2> QED
    BY <2>1, <2>2, <2>3, ZenonT(30) DEF Holders
<1>11. ASSUME NEW u \in DOMAIN udpclient
       PROVE  Using(u)' = Using(u) \ {c} /\ UdpHolders(u)' = UdpHolders(u) /\ u # 0
  <2>1. u # 0
    BY <1>0, Each, SMTT(30)
  <2> QED
    BY <1>6, <1>9, <2>1, ZenonT(30) DEF Using, UdpHolders
<1>12. Counted' = Counted \ {c} /\ (c \in Counted <=> a0 # 0)
  <2>1. Counted' = Counted \ {c}
    <3>1. ~Inport(c)' /\ \A d \in DOMAIN client : d # c => (Inport(d)' <=> Inport(d))
      BY <1>6, <1>9, ZenonT(30) DEF Inport
    <3> QED
      BY <1>6, <3>1, ZenonT(30) DEF Counted
  <2> QED
    BY <1>0, <2>1, ZenonT(30) DEF Counted, ClientShaped
<1>13. RefsExact'
  <2>1. ASSUME NEW a \in DOMAIN portaccount
        PROVE  portaccount'[a].refcount = Cardinality(Holders(a)') + Cardinality(Through(a)') + Cardinality(Fed(a)')
    <3>1. /\ portaccount[a].refcount = Cardinality(Holders(a)) + Cardinality(Through(a)) + Cardinality(Fed(a))
          /\ Cardinality(Holders(a)) \in Nat /\ Cardinality(Through(a)) \in Nat /\ Cardinality(Fed(a)) \in Nat
      BY <1>2, ZenonT(30)
    <3>2. /\ a = a0 <=> c \in Through(a)
          /\ fed /\ a = a1 <=> c \in Fed(a)
      BY ZenonT(30) DEF Through, Fed
    <3>3. /\ c \in Through(a) => Cardinality(Through(a)') = Cardinality(Through(a)) - 1
          /\ c \notin Through(a) => Cardinality(Through(a)') = Cardinality(Through(a))
          /\ c \in Fed(a) => Cardinality(Fed(a)') = Cardinality(Fed(a)) - 1
          /\ c \notin Fed(a) => Cardinality(Fed(a)') = Cardinality(Fed(a))
          /\ Cardinality(Holders(a)') = Cardinality(Holders(a))
      BY <1>0, <1>10, UsersFinite, CountDrop, ZenonT(30)
    <3>4. /\ a = a0 => p[a].refcount = portaccount[a].refcount - 1
          /\ a # a0 => p[a].refcount = portaccount[a].refcount
          /\ fed /\ a = a1 => portaccount'[a].refcount = p[a].refcount - 1
          /\ ~(fed /\ a = a1) => portaccount'[a].refcount = p[a].refcount
      BY <1>3, <1>5, <1>10, ZenonT(30)
    <3> QED
      BY <3>1, <3>2, <3>3, <3>4, SMTT(30)
  <2>2. ASSUME NEW u \in DOMAIN udpclient
        PROVE  udpclient'[u].refcount = Cardinality(UdpHolders(u)') + Cardinality(Using(u)')
    <3>1. /\ udpclient[u].refcount = Cardinality(UdpHolders(u)) + Cardinality(Using(u))
          /\ Cardinality(UdpHolders(u)) \in Nat /\ Cardinality(Using(u)) \in Nat
      <4>1. 0 \in Nat /\ 1 \in Nat
        BY SMTT(30)
      <4> QED
        BY <4>1, <1>0, InWords, UsersFinite, ZenonT(30)
    <3>2. u = u0 <=> c \in Using(u)
      BY ZenonT(30) DEF Using
    <3>3. /\ c \in Using(u) => Cardinality(Using(u)') = Cardinality(Using(u)) - 1
          /\ c \notin Using(u) => Cardinality(Using(u)') = Cardinality(Using(u))
          /\ Cardinality(UdpHolders(u)') = Cardinality(UdpHolders(u))
      BY <1>0, <1>11, UsersFinite, CountDrop, ZenonT(30)
    <3>4. /\ u = u0 => udpclient'[u].refcount = udpclient[u].refcount - 1
          /\ u # u0 => udpclient'[u].refcount = udpclient[u].refcount
      BY <1>7, <1>11, ZenonT(30)
    <3> QED
      BY <3>1, <3>2, <3>3, <3>4, SMTT(30)
  <2> QED
    BY <1>5, <1>7, <2>1, <2>2, ZenonT(30) DEF RefsExact, Holders, UdpHolders, Through, Fed, Using
<1>14. GaugeExact'
  <2>1. inbound_connects' = Cardinality(Counted')
    <3>1. inbound_connects = Cardinality(Counted) /\ Cardinality(Counted) \in Nat
      BY <1>0, InWords, UsersFinite, ZenonT(30)
    <3>2. inbound_connects' = inbound_connects - IF a0 # 0 THEN 1 ELSE 0
      BY ZenonT(30) DEF Release
    <3>3. /\ c \in Counted => Cardinality(Counted') = Cardinality(Counted) - 1
          /\ c \notin Counted => Cardinality(Counted') = Cardinality(Counted)
      BY <1>0, <1>12, UsersFinite, CountDrop, ZenonT(30)
    <3> HIDE DEF a0
    <3> QED
      BY <1>12, <3>1, <3>2, <3>3, SMTT(30)
  <2>2. ASSUME NEW l \in listen_list, l.slot = "tcp"
        PROVE  portaccount'[l.portaccount].gauge = Cardinality(Through(l.portaccount)')
    <3> DEFINE a == l.portaccount
    <3>1. a \in DOMAIN portaccount /\ portaccount[a].gauge = Cardinality(Through(a))
      BY <1>0, <2>2, InWords, ZenonT(30) DEF ObjectsShaped, ListenerShaped
    <3>2. fed => a # a1
      BY <1>0, <1>1, <2>2, ZenonT(30) DEF ObjectsShaped, ListenerShaped
    <3>3. portaccount'[a].gauge = p[a].gauge
      BY <1>5, <3>1, <3>2, ZenonT(30)
    <3>4. CASE a = a0
      <4>1. portaccount[a].refcount > 1
        <5>1. Cardinality(Holders(a)) = 1
          BY <1>0, UsersFinite, ZenonT(30)
        <5>2. Cardinality(Through(a)) >= 1 /\ c \in Through(a)
          BY <1>1, <1>2, <1>10, <3>1, <3>4, ZenonT(30)
        <5>3. /\ portaccount[a].refcount = Cardinality(Holders(a)) + Cardinality(Through(a)) + Cardinality(Fed(a))
              /\ Cardinality(Through(a)) \in Nat /\ Cardinality(Fed(a)) \in Nat
          BY <1>2, <3>1, ZenonT(30)
        <5> HIDE DEF a
        <5> QED
          BY <5>1, <5>2, <5>3, SMTT(30)
      <4>2. p[a].gauge = portaccount[a].gauge - 1
        BY <1>3, <1>10, <3>1, <3>4, <4>1, ZenonT(30)
      <4>3. Cardinality(Through(a)') = Cardinality(Through(a)) - 1
        <5>1. c \in Through(a)
          BY <1>1, <1>10, <3>1, <3>4, ZenonT(30)
        <5> QED
          BY <1>0, <1>10, <3>1, <5>1, UsersFinite, CountDrop, ZenonT(30)
      <4> QED
        BY <3>1, <3>3, <4>2, <4>3, ZenonT(30)
    <3>5. CASE a # a0
      <4>1. p[a].gauge = portaccount[a].gauge
        BY <1>3, <3>1, <3>5, ZenonT(30)
      <4>2. Through(a)' = Through(a)
        BY <1>10, <3>1, <3>5, ZenonT(30) DEF Through
      <4> QED
        BY <3>1, <3>3, <4>1, <4>2, ZenonT(30)
    <3> QED
      BY <3>4, <3>5, ZenonT(30)
  <2> QED
    BY <2>1, <2>2, ZenonT(30) DEF GaugeExact, Counted, Through
<1>15. ObjectsShaped'
  <2>1. ASSUME NEW u \in DOMAIN udpclient PROVE UdpShaped(u)'
    <3>1. UdpShaped(u) /\ 0 \in 0..Len(portaccount)
      BY <1>0, Each, SMTT(30) DEF ObjectsShaped
    <3>2. CASE u # u0
      BY <1>5, <1>7, <3>1, <3>2, ZenonT(30) DEF UdpShaped
    <3>3. CASE u = u0 /\ udpclient[u].refcount = 1
      <4>1. udpclient'[u].refcount = 0 /\ udpclient'[u].portaccount = 0
        <5>1. udpclient'[u].refcount = udpclient[u].refcount - 1 /\ udpclient'[u].portaccount = 0
          BY <1>7, <1>11, <3>3, ZenonT(30)
        <5> QED
          BY <3>3, <5>1, SMTT(30)
      <4>2. ~(0 > 0)
        BY SMTT(30)
      <4> QED
        BY <1>5, <3>1, <4>1, <4>2, ZenonT(30) DEF UdpShaped
    <3>4. CASE u = u0 /\ udpclient[u].refcount # 1
      <4>1. udpclient'[u].portaccount = a1 /\ a1 \in DOMAIN portaccount
        BY <1>1, <1>7, <1>11, <3>4, ZenonT(30)
      <4>2. a1 \in 0..Len(portaccount) /\ a1 # 0
        <5>1. DOMAIN portaccount = 1..Len(portaccount) /\ Len(portaccount) \in Nat
          BY <1>0, Each, ZenonT(30)
        <5> HIDE DEF a1
        <5> QED
          BY <4>1, <5>1, SMTT(30)
      <4> QED
        BY <1>5, <4>1, <4>2, ZenonT(30) DEF UdpShaped
    <3> QED
      BY <3>2, <3>3, <3>4, ZenonT(30)
  <2>2. ASSUME NEW d \in DOMAIN client PROVE ClientShaped(d)'
    <3>1. ClientShaped(d) /\ 0 \in 0..Len(portaccount) /\ 0 \in 0..Len(udpclient)
      BY <1>0, Each, SMTT(30) DEF ObjectsShaped
    <3>2. CASE d = c
      BY <1>5, <1>6, <1>7, <1>9, <3>1, <3>2, ZenonT(30) DEF ClientShaped, Inport
    <3>3. CASE d # c
      <4>1. client'[d] = client[d]
        BY <1>6, <3>3, ZenonT(30)
      <4> QED
        BY <1>5, <1>7, <3>1, <4>1, ZenonT(30) DEF ClientShaped, Inport
    <3> QED
      BY <3>2, <3>3, ZenonT(30)
  <2>3. ASSUME NEW l \in listen_list PROVE ListenerShaped(l)'
    <3>1. ListenerShaped(l)
      BY <1>0, ZenonT(30) DEF ObjectsShaped
    <3>2. ASSUME NEW u \in DOMAIN udpclient, l.slot = "tcp" PROVE udpclient'[u].portaccount # l.portaccount
      <4>1. l.portaccount # 0
        BY <1>10, <3>1, ZenonT(30) DEF ListenerShaped
      <4>2. udpclient'[u].portaccount \in {0, udpclient[u].portaccount}
        BY <1>7, <1>11, ZenonT(30)
      <4> QED
        BY <3>1, <3>2, <4>1, <4>2, ZenonT(30) DEF ListenerShaped
    <3> QED
      BY <1>5, <1>7, <3>1, <3>2, ZenonT(30) DEF ListenerShaped
  <2> QED
    BY <1>0, <1>6, <1>7, <2>1, <2>2, <2>3, ZenonT(30) DEF ObjectsShaped, Unshared
<1>16. ObjectTypes'
  <2>1. inbound_connects' \in Int
    <3>1. inbound_connects' = inbound_connects - IF a0 # 0 THEN 1 ELSE 0
      BY ZenonT(30) DEF Release
    <3> HIDE DEF a0
    <3> QED
      BY <1>types, <3>1, SMTT(30)
  <2> QED
    BY <1>0, <1>5, <1>6, <1>7, <2>1, ZenonT(30) DEF ObjectTypes
<1> QED
  BY <1>13, <1>14, <1>15, <1>16, ZenonT(30) DEF ObjectsInv

(* Steps that leave every count alone: no client gains or loses an object. *)
LEMMA KeepObjects ==
    ASSUME ObjectsInv, ObjectTypes', UNCHANGED <<portaccount, listen_list, inbound_connects>>,
           DOMAIN client' = DOMAIN client, DOMAIN udpclient' = DOMAIN udpclient,
           Len(udpclient') = Len(udpclient),
           \A d \in DOMAIN client :
             /\ client'[d].portaccount = client[d].portaccount
             /\ client'[d].udpclient = client[d].udpclient
             /\ client'[d].udp_port = client[d].udp_port
             /\ client'[d].state \in {client[d].state, "freed"}
             /\ client'[d].state = client[d].state \/ ~Inport(d),
           \A u \in DOMAIN udpclient :
             /\ udpclient'[u].portaccount = udpclient[u].portaccount
             /\ udpclient'[u].refcount = udpclient[u].refcount
    PROVE  ObjectsInv'
<1>0. ObjectTypes /\ ObjectsShaped /\ RefsExact /\ GaugeExact
  BY ZenonT(30) DEF ObjectsInv
<1>1. ASSUME NEW d \in DOMAIN client PROVE Inport(d)' <=> Inport(d)
  BY ZenonT(30) DEF Inport
<1>2. \A c \in DOMAIN client : client[c].udp_port => client[c].udpclient \in DOMAIN udpclient
  BY Referred, ZenonT(30)
<1>3. \A a : Holders(a)' = Holders(a) /\ Through(a)' = Through(a) /\ Fed(a)' = Fed(a)
  BY <1>2, ZenonT(30) DEF Holders, Through, Fed
<1>4. \A u : UdpHolders(u)' = UdpHolders(u) /\ Using(u)' = Using(u)
  BY ZenonT(30) DEF UdpHolders, Using
<1>5. Counted' = Counted
  BY <1>1, ZenonT(30) DEF Counted
<1>6. RefsExact'
  <2>1. \A a \in DOMAIN portaccount :
          portaccount[a].refcount = Cardinality(Holders(a)') + Cardinality(Through(a)') + Cardinality(Fed(a)')
    BY <1>0, <1>3, InWords, ZenonT(30)
  <2>2. \A u \in DOMAIN udpclient :
          udpclient'[u].refcount = Cardinality(UdpHolders(u)') + Cardinality(Using(u)')
    BY <1>0, <1>4, InWords, ZenonT(30)
  <2> QED
    BY <2>1, <2>2, ZenonT(30) DEF RefsExact, Holders, UdpHolders, Through, Fed, Using
<1>7. GaugeExact'
  <2>1. /\ inbound_connects = Cardinality(Counted')
        /\ \A l \in listen_list : l.slot = "tcp" =>
             portaccount[l.portaccount].gauge = Cardinality(Through(l.portaccount)')
    BY <1>0, <1>3, <1>5, InWords, ZenonT(30)
  <2> QED
    BY <2>1, ZenonT(30) DEF GaugeExact, Counted, Through
<1>8. ObjectsShaped'
  <2>1. ASSUME NEW u \in DOMAIN udpclient PROVE UdpShaped(u)'
    <3>1. UdpShaped(u)
      BY <1>0, ZenonT(30) DEF ObjectsShaped
    <3> QED
      BY <3>1, ZenonT(30) DEF UdpShaped
  <2>2. ASSUME NEW d \in DOMAIN client PROVE ClientShaped(d)'
    <3>1. ClientShaped(d)
      BY <1>0, ZenonT(30) DEF ObjectsShaped
    <3>2. /\ client'[d].portaccount = client[d].portaccount
          /\ client'[d].udpclient = client[d].udpclient
          /\ client'[d].udp_port = client[d].udp_port
      BY ZenonT(30)
    <3>3. /\ client'[d].state = "magic" => client[d].state = "magic"
          /\ client'[d].state = "login" => client[d].state = "login"
      BY ZenonT(30)
    <3> QED
      BY <1>1, <3>1, <3>2, <3>3, ZenonT(30) DEF ClientShaped
  <2>3. ASSUME NEW l \in listen_list PROVE ListenerShaped(l)'
    <3>1. ListenerShaped(l)
      BY <1>0, ZenonT(30) DEF ObjectsShaped
    <3> QED
      BY <3>1, ZenonT(30) DEF ListenerShaped
  <2> QED
    BY <1>0, <2>1, <2>2, <2>3, ZenonT(30) DEF ObjectsShaped, Unshared
<1> QED
  BY <1>6, <1>7, <1>8, ZenonT(30) DEF ObjectsInv

(* n clients r join, each with what it holds accounted. *)
Joined(n, r) ==
    /\ client' \in Seq(Client) /\ Len(client') = Len(client) + n
    /\ \A d \in DOMAIN client : client'[d] = client[d]
    /\ \A d \in Len(client) + 1..Len(client) + n : client'[d] = r
    /\ r.portaccount \in 0..Len(portaccount) /\ r.udpclient \in 0..Len(udpclient)
    /\ r.portaccount # 0 <=> r.state \in {"login", "connected"}
    /\ r.udp_port => r.udpclient # 0
    /\ r.state = "magic" => r.udpclient = 0
    /\ r.state = "login" => ~r.udp_port
    /\ r.udpclient # 0 => udpclient[r.udpclient].refcount > 0
    /\ portaccount' \in Seq(Acc) /\ Len(portaccount') = Len(portaccount)
    /\ udpclient' \in Seq(Udp) /\ Len(udpclient') = Len(udpclient)
    /\ \A a \in DOMAIN portaccount :
         portaccount'[a].refcount =
           portaccount[a].refcount + (IF a = r.portaccount THEN n ELSE 0)
           + (IF r.udp_port /\ a = udpclient[r.udpclient].portaccount THEN n ELSE 0)
    /\ \A l \in listen_list : l.slot = "tcp" =>
         portaccount'[l.portaccount].gauge =
           portaccount[l.portaccount].gauge + IF l.portaccount = r.portaccount THEN n ELSE 0
    /\ \A u \in DOMAIN udpclient :
         /\ udpclient'[u].refcount = udpclient[u].refcount + IF u = r.udpclient THEN n ELSE 0
         /\ udpclient'[u].portaccount = udpclient[u].portaccount
    /\ inbound_connects' = inbound_connects + IF r.portaccount # 0 THEN n ELSE 0
    /\ UNCHANGED listen_list

(* Clients that join are counted once everywhere. *)
LEMMA JoinObjects ==
    ASSUME ObjectsInv, NEW n \in Nat, NEW r, Joined(n, r)
    PROVE  ObjectsInv'
<1> DEFINE new == Len(client) + 1..Len(client) + n
<1>0. ObjectTypes /\ ObjectsShaped /\ RefsExact /\ GaugeExact
  BY ZenonT(30) DEF ObjectsInv
<1>1. /\ DOMAIN portaccount = 1..Len(portaccount) /\ Len(portaccount) \in Nat
      /\ DOMAIN udpclient = 1..Len(udpclient) /\ Len(udpclient) \in Nat
      /\ DOMAIN client = 1..Len(client) /\ Len(client) \in Nat
  BY <1>0, Each, ZenonT(30)
<1>2. /\ portaccount' \in Seq(Acc) /\ Len(portaccount') = Len(portaccount)
      /\ udpclient' \in Seq(Udp) /\ Len(udpclient') = Len(udpclient)
      /\ client' \in Seq(Client) /\ Len(client') = Len(client) + n
  BY ZenonT(30) DEF Joined
<1>3. /\ DOMAIN portaccount' = DOMAIN portaccount /\ DOMAIN udpclient' = DOMAIN udpclient
      /\ DOMAIN client' = DOMAIN client \cup new
  <2>1. DOMAIN portaccount' = DOMAIN portaccount
    BY <1>1, <1>2, SMTT(30)
  <2>2. DOMAIN udpclient' = DOMAIN udpclient
    BY <1>1, <1>2, SMTT(30)
  <2>3. DOMAIN client' = 1..Len(client) + n
    BY <1>2, SMTT(30)
  <2>4. 1..Len(client) + n = (1..Len(client)) \cup new
    BY <1>1, SMTT(30)
  <2> QED
    BY <1>1, <2>1, <2>2, <2>3, <2>4, ZenonT(30)
<1>4. /\ \A d \in DOMAIN client : client'[d] = client[d]
      /\ \A d \in new : client'[d] = r
  BY ZenonT(30) DEF Joined
<1>5. \A c \in DOMAIN client : client[c].udp_port => client[c].udpclient \in DOMAIN udpclient
  BY Referred, ZenonT(30)
<1>6. r.udpclient # 0 => r.udpclient \in DOMAIN udpclient
  <2>1. r.udpclient \in 0..Len(udpclient)
    BY ZenonT(30) DEF Joined
  <2> QED
    BY <1>1, <2>1, SMTT(30)
<1>7. \A u \in DOMAIN udpclient : udpclient'[u].portaccount = udpclient[u].portaccount
  BY ZenonT(30) DEF Joined
<1>8. ASSUME NEW S, NEW T, S \subseteq DOMAIN client, NEW b \in BOOLEAN, T = S \cup (IF b THEN new ELSE {})
      PROVE  Cardinality(T) = Cardinality(S) + IF b THEN n ELSE 0
  <2>1. CASE b
    BY <1>1, <1>8, <2>1, CountMany, ZenonT(30)
  <2>2. CASE ~b
    <3>1. T = S
      BY <1>8, <2>2, ZenonT(30)
    <3>2. Cardinality(S) \in Nat
      BY <1>1, <1>8, CountFinite, ZenonT(30)
    <3> QED
      BY <2>2, <3>1, <3>2, SMTT(30)
  <2> QED
    BY <2>1, <2>2, ZenonT(30)
<1>9. ASSUME NEW a \in DOMAIN portaccount
      PROVE  /\ Cardinality(Through(a)') = Cardinality(Through(a)) + IF a = r.portaccount THEN n ELSE 0
             /\ Cardinality(Fed(a)') = Cardinality(Fed(a))
                  + IF r.udp_port /\ a = udpclient[r.udpclient].portaccount THEN n ELSE 0
             /\ Holders(a)' = Holders(a)
  <2>1. Through(a)' = Through(a) \cup (IF a = r.portaccount THEN new ELSE {})
    BY <1>3, <1>4, ZenonT(30) DEF Through
  <2>2. Fed(a)' = Fed(a) \cup (IF r.udp_port /\ a = udpclient[r.udpclient].portaccount THEN new ELSE {})
    <3>1. r.udp_port => udpclient'[r.udpclient].portaccount = udpclient[r.udpclient].portaccount
      BY <1>6, <1>7, ZenonT(30) DEF Joined
    <3>2. \A d \in DOMAIN client : d \in Fed(a)' <=> d \in Fed(a)
      BY <1>3, <1>4, <1>5, <1>7, ZenonT(30) DEF Fed
    <3> HIDE DEF new
    <3>3. \A d \in new : d \in Fed(a)' <=> r.udp_port /\ a = udpclient[r.udpclient].portaccount
      BY <1>3, <1>4, <3>1, ZenonT(30) DEF Fed
    <3>4. Fed(a)' \subseteq DOMAIN client \cup new /\ Fed(a) \subseteq DOMAIN client
      BY <1>3, ZenonT(30) DEF Fed
    <3> QED
      BY <3>2, <3>3, <3>4, ZenonT(30)
  <2>3. Through(a) \subseteq DOMAIN client /\ Fed(a) \subseteq DOMAIN client
    BY ZenonT(30) DEF Through, Fed
  <2>4. /\ (a = r.portaccount) \in BOOLEAN
        /\ (r.udp_port /\ a = udpclient[r.udpclient].portaccount) \in BOOLEAN
    BY ZenonT(30)
  <2> HIDE DEF new
  <2>5. Cardinality(Through(a)') = Cardinality(Through(a)) + IF a = r.portaccount THEN n ELSE 0
    BY <1>8, <2>1, <2>3, <2>4, ZenonT(30)
  <2>6. Cardinality(Fed(a)') = Cardinality(Fed(a))
                  + IF r.udp_port /\ a = udpclient[r.udpclient].portaccount THEN n ELSE 0
    BY <1>8, <2>2, <2>3, <2>4, ZenonT(30)
  <2>7. Holders(a)' = Holders(a)
    BY ZenonT(30) DEF Holders, Joined
  <2> QED
    BY <2>5, <2>6, <2>7, ZenonT(30)
<1>10. ASSUME NEW u \in DOMAIN udpclient
       PROVE  /\ Cardinality(Using(u)') = Cardinality(Using(u)) + IF u = r.udpclient THEN n ELSE 0
              /\ UdpHolders(u)' = UdpHolders(u)
  <2>1. Using(u)' = Using(u) \cup (IF u = r.udpclient THEN new ELSE {})
    BY <1>3, <1>4, ZenonT(30) DEF Using
  <2>2. Using(u) \subseteq DOMAIN client /\ (u = r.udpclient) \in BOOLEAN
    BY ZenonT(30) DEF Using
  <2> HIDE DEF new
  <2>3. Cardinality(Using(u)') = Cardinality(Using(u)) + IF u = r.udpclient THEN n ELSE 0
    BY <1>8, <2>1, <2>2, ZenonT(30)
  <2> QED
    BY <2>3, ZenonT(30) DEF UdpHolders, Joined
<1>11. Cardinality(Counted') = Cardinality(Counted) + IF r.portaccount # 0 THEN n ELSE 0
  <2>1. r.portaccount # 0 <=> r.state \in {"login", "connected"}
    BY ZenonT(30) DEF Joined
  <2>2. Counted' = Counted \cup (IF r.portaccount # 0 THEN new ELSE {})
    BY <1>3, <1>4, <2>1, ZenonT(30) DEF Counted, Inport
  <2>3. Counted \subseteq DOMAIN client /\ (r.portaccount # 0) \in BOOLEAN
    BY ZenonT(30) DEF Counted
  <2> HIDE DEF new
  <2> QED
    BY <1>8, <2>2, <2>3, ZenonT(30)
<1>12. RefsExact'
  <2>1. ASSUME NEW a \in DOMAIN portaccount
        PROVE  portaccount'[a].refcount = Cardinality(Holders(a)') + Cardinality(Through(a)') + Cardinality(Fed(a)')
    <3>1. /\ portaccount[a].refcount = Cardinality(Holders(a)) + Cardinality(Through(a)) + Cardinality(Fed(a))
          /\ Cardinality(Through(a)) \in Nat /\ Cardinality(Fed(a)) \in Nat
      BY <1>0, InWords, UsersFinite, ZenonT(30)
    <3>2. Cardinality(Holders(a)) \in Nat
      <4>1. 0 \in Nat /\ 1 \in Nat
        BY SMTT(30)
      <4> QED
        BY <4>1, <1>0, UsersFinite, ZenonT(30)
    <3>3. portaccount'[a].refcount =
           portaccount[a].refcount + (IF a = r.portaccount THEN n ELSE 0)
           + (IF r.udp_port /\ a = udpclient[r.udpclient].portaccount THEN n ELSE 0)
      BY ZenonT(30) DEF Joined
    <3> QED
      BY <1>9, <3>1, <3>2, <3>3, SMTT(30)
  <2>2. ASSUME NEW u \in DOMAIN udpclient
        PROVE  udpclient'[u].refcount = Cardinality(UdpHolders(u)') + Cardinality(Using(u)')
    <3>1. /\ udpclient[u].refcount = Cardinality(UdpHolders(u)) + Cardinality(Using(u))
          /\ Cardinality(Using(u)) \in Nat
      BY <1>0, InWords, UsersFinite, ZenonT(30)
    <3>2. Cardinality(UdpHolders(u)) \in Nat
      <4>1. 0 \in Nat /\ 1 \in Nat
        BY SMTT(30)
      <4> QED
        BY <4>1, <1>0, UsersFinite, ZenonT(30)
    <3>3. udpclient'[u].refcount = udpclient[u].refcount + IF u = r.udpclient THEN n ELSE 0
      BY ZenonT(30) DEF Joined
    <3> QED
      BY <1>10, <3>1, <3>2, <3>3, SMTT(30)
  <2> QED
    BY <1>3, <2>1, <2>2, ZenonT(30) DEF RefsExact, Holders, UdpHolders, Through, Fed, Using
<1>13. GaugeExact'
  <2>1. inbound_connects' = Cardinality(Counted')
    <3>1. /\ inbound_connects = Cardinality(Counted)
          /\ inbound_connects' = inbound_connects + IF r.portaccount # 0 THEN n ELSE 0
      BY <1>0, InWords, ZenonT(30) DEF Joined
    <3> QED
      BY <1>11, <3>1, ZenonT(30)
  <2>2. ASSUME NEW l \in listen_list, l.slot = "tcp"
        PROVE  portaccount'[l.portaccount].gauge = Cardinality(Through(l.portaccount)')
    <3>1. l.portaccount \in DOMAIN portaccount
      BY <1>0, ZenonT(30) DEF ObjectsShaped, ListenerShaped
    <3>2. /\ portaccount[l.portaccount].gauge = Cardinality(Through(l.portaccount))
          /\ portaccount'[l.portaccount].gauge =
               portaccount[l.portaccount].gauge + IF l.portaccount = r.portaccount THEN n ELSE 0
      BY <1>0, <2>2, InWords, ZenonT(30) DEF Joined
    <3> QED
      BY <1>9, <3>1, <3>2, ZenonT(30)
  <2> QED
    BY <2>1, <2>2, ZenonT(30) DEF GaugeExact, Counted, Through, Joined
<1>14. ObjectsShaped'
  <2>1. ASSUME NEW u \in DOMAIN udpclient PROVE UdpShaped(u)'
    <3>1. UdpShaped(u)
      BY <1>0, ZenonT(30) DEF ObjectsShaped
    <3>2. u = r.udpclient => udpclient[u].refcount > 0
      <4>1. u # 0
        BY <1>1, SMTT(30)
      <4> QED
        BY <4>1, ZenonT(30) DEF Joined
    <3>3. u # r.udpclient => udpclient'[u].refcount = udpclient[u].refcount
      <4>1. udpclient'[u].refcount = udpclient[u].refcount + IF u = r.udpclient THEN n ELSE 0
        BY ZenonT(30) DEF Joined
      <4>2. udpclient[u].refcount \in Nat
        BY <1>0, Each, ZenonT(30) DEF Udp
      <4> QED
        BY <4>1, <4>2, SMTT(30)
    <3> QED
      BY <1>2, <1>7, <3>1, <3>2, <3>3, ZenonT(30) DEF UdpShaped
  <2>2. ASSUME NEW d \in DOMAIN client' PROVE ClientShaped(d)'
    <3>1. CASE d \in DOMAIN client
      <4>1. ClientShaped(d) /\ client'[d] = client[d]
        BY <1>0, <1>4, <3>1, ZenonT(30) DEF ObjectsShaped
      <4> QED
        BY <1>2, <4>1, ZenonT(30) DEF ClientShaped, Inport
    <3>2. CASE d \in new
      <4>1. client'[d] = r
        BY <1>4, <3>2, ZenonT(30)
      <4> QED
        BY <1>2, <4>1, ZenonT(30) DEF ClientShaped, Inport, Joined
    <3> QED
      BY <1>3, <3>1, <3>2, ZenonT(30)
  <2>3. ASSUME NEW l \in listen_list PROVE ListenerShaped(l)'
    <3>1. ListenerShaped(l)
      BY <1>0, ZenonT(30) DEF ObjectsShaped
    <3> QED
      BY <1>2, <1>3, <1>7, <3>1, ZenonT(30) DEF ListenerShaped
  <2> QED
    BY <1>0, <1>3, <2>1, <2>2, <2>3, ZenonT(30) DEF ObjectsShaped, Unshared, Joined
<1>15. ObjectTypes'
  <2>1. inbound_connects' \in Int
    <3>1. inbound_connects' = inbound_connects + IF r.portaccount # 0 THEN n ELSE 0
      BY ZenonT(30) DEF Joined
    <3>2. inbound_connects \in Int
      BY <1>0, ZenonT(30) DEF ObjectTypes
    <3> QED
      BY <3>1, <3>2, SMTT(30)
  <2> QED
    BY <1>0, <1>2, <2>1, ZenonT(30) DEF ObjectTypes, Joined
<1> QED
  BY <1>12, <1>13, <1>14, <1>15, ZenonT(30) DEF ObjectsInv

(* What Login does to the objects. *)
LoggedIn(c, feed) ==
    /\ client[c].state = "login" /\ (feed => client[c].udpclient # 0)
    /\ client' = [client EXCEPT ![c].state = "connected", ![c].udp_port = feed]
    /\ portaccount' = IF feed
                      THEN port_accounter_add(portaccount, udpclient[client[c].udpclient].portaccount)
                      ELSE portaccount

(* login_setup_udp_feed: the accounter of the socket counts the feed. *)
LEMMA LoginObjects ==
    ASSUME ObjectsInv, NEW c \in DOMAIN client, NEW feed \in BOOLEAN, LoggedIn(c, feed),
           UNCHANGED <<udpclient, inbound_connects, listen_list>>
    PROVE  ObjectsInv'
<1> DEFINE r == [client[c] EXCEPT !.state = "connected", !.udp_port = feed]
           a1 == udpclient[client[c].udpclient].portaccount
<1>0. ObjectTypes /\ ObjectsShaped /\ RefsExact /\ GaugeExact /\ ClientShaped(c)
  BY ZenonT(30) DEF ObjectsInv, ObjectsShaped
<1>1. portaccount \in Seq(Acc) /\ udpclient \in Seq(Udp) /\ client \in Seq(Client) /\ client[c] \in Client
  BY <1>0, Each, ZenonT(30) DEF ObjectTypes
<1>2. ~client[c].udp_port /\ (feed => client[c].udpclient # 0 /\ client[c].udpclient \in DOMAIN udpclient /\ a1 \in DOMAIN portaccount)
  BY <1>0, Referred, ZenonT(30) DEF ClientShaped, LoggedIn
<1>3. /\ client' \in Seq(Client) /\ DOMAIN client' = DOMAIN client
      /\ client'[c] = r /\ \A d \in DOMAIN client : d # c => client'[d] = client[d]
  <2>1. client' = Put(client, c, r)
    BY ZenonT(30) DEF Put, LoggedIn
  <2>2. r \in Client
    BY <1>1, ZenonT(30) DEF Client, ClientState
  <2> HIDE DEF r
  <2>3. LET d == Put(client, c, r)
        IN  /\ d \in Seq(Client) /\ Len(d) = Len(client) /\ DOMAIN d = DOMAIN client /\ d[c] = r
            /\ \A j \in DOMAIN client : j # c => d[j] = client[j]
    BY <1>1, <2>2, Replaced, SMTT(30)
  <2> QED
    BY <2>1, <2>3, ZenonT(30)
<1>4. /\ r.portaccount = client[c].portaccount /\ r.udpclient = client[c].udpclient
      /\ r.udp_port = feed /\ r.state = "connected"
  BY <1>1, ZenonT(30) DEF Client
<1>5. /\ portaccount' \in Seq(Acc) /\ Len(portaccount') = Len(portaccount)
      /\ DOMAIN portaccount' = DOMAIN portaccount
      /\ feed => portaccount'[a1].refcount = portaccount[a1].refcount + 1
      /\ \A b \in DOMAIN portaccount : ~(feed /\ b = a1) => portaccount'[b] = portaccount[b]
  <2>1. CASE feed
    <3>1. portaccount' = Plus(portaccount, a1, 1) /\ a1 \in DOMAIN portaccount
      BY <1>2, <2>1, ZenonT(30) DEF port_accounter_add, Plus, LoggedIn
    <3>2. 1 \in Nat
      BY SMTT(30)
    <3> HIDE DEF a1
    <3> QED
      BY <1>1, <2>1, <3>1, <3>2, AddOne, ZenonT(30)
  <2>2. CASE ~feed
    <3>1. portaccount' = portaccount
      BY <2>2, ZenonT(30) DEF LoggedIn
    <3> QED
      BY <1>1, <2>2, <3>1, ZenonT(30)
  <2> QED
    BY <2>1, <2>2, ZenonT(30)
<1> HIDE DEF r
<1>6. Inport(c) /\ \A d \in DOMAIN client : Inport(d)' <=> Inport(d)
  BY <1>3, <1>4, ZenonT(30) DEF Inport, LoggedIn
<1>7. ASSUME NEW a \in DOMAIN portaccount
      PROVE  /\ Through(a)' = Through(a) /\ Holders(a)' = Holders(a) /\ c \notin Fed(a)
             /\ feed /\ a = a1 => Fed(a)' = Fed(a) \cup {c}
             /\ ~(feed /\ a = a1) => Fed(a)' = Fed(a)
  <2>1. Through(a)' = Through(a)
    BY <1>3, <1>4, ZenonT(30) DEF Through
  <2>2. Holders(a)' = Holders(a)
    BY ZenonT(30) DEF Holders
  <2>3. c \notin Fed(a)
    BY <1>2, ZenonT(30) DEF Fed
  <2>4. \A d \in DOMAIN client : d # c => (d \in Fed(a)' <=> d \in Fed(a))
    BY <1>3, ZenonT(30) DEF Fed
  <2>5. c \in Fed(a)' <=> feed /\ a = a1
    BY <1>3, <1>4, ZenonT(30) DEF Fed
  <2>6. Fed(a)' \subseteq DOMAIN client /\ Fed(a) \subseteq DOMAIN client
    BY <1>3, ZenonT(30) DEF Fed
  <2> HIDE DEF a1
  <2>7. feed /\ a = a1 => Fed(a)' = Fed(a) \cup {c}
    BY <2>4, <2>5, <2>6, ZenonT(30)
  <2>8. ASSUME ~(feed /\ a = a1) PROVE Fed(a)' = Fed(a)
    <3>1. \A d \in DOMAIN client : d \in Fed(a)' <=> d \in Fed(a)
      BY <2>3, <2>4, <2>5, <2>8, ZenonT(30)
    <3> QED
      BY <2>6, <3>1, ZenonT(30)
  <2> QED
    BY <2>1, <2>2, <2>3, <2>7, <2>8, ZenonT(30)
<1>8. \A u : Using(u)' = Using(u) /\ UdpHolders(u)' = UdpHolders(u)
  <2>1. \A d \in DOMAIN client : client'[d].udpclient = client[d].udpclient
    BY <1>3, <1>4, ZenonT(30)
  <2> QED
    BY <1>3, <2>1, ZenonT(30) DEF Using, UdpHolders
<1>9. Counted' = Counted
  BY <1>3, <1>6, ZenonT(30) DEF Counted
<1>10. RefsExact'
  <2>1. ASSUME NEW a \in DOMAIN portaccount
        PROVE  portaccount'[a].refcount = Cardinality(Holders(a)') + Cardinality(Through(a)') + Cardinality(Fed(a)')
    <3>1. /\ portaccount[a].refcount = Cardinality(Holders(a)) + Cardinality(Through(a)) + Cardinality(Fed(a))
          /\ Cardinality(Through(a)) \in Nat /\ Cardinality(Fed(a)) \in Nat /\ IsFiniteSet(Fed(a))
      BY <1>0, InWords, UsersFinite, ZenonT(30)
    <3>2. CASE feed /\ a = a1
      <4>1. Cardinality(Fed(a)') = Cardinality(Fed(a)) + 1
        BY <1>7, <3>1, <3>2, CountAdd, ZenonT(30)
      <4>2. portaccount'[a].refcount = portaccount[a].refcount + 1
        BY <1>5, <3>2, ZenonT(30)
      <4>3. Cardinality(Holders(a)) \in Nat
        <5>1. 0 \in Nat /\ 1 \in Nat
          BY SMTT(30)
        <5> QED
          BY <5>1, <1>0, UsersFinite, ZenonT(30)
      <4>4. Through(a)' = Through(a) /\ Holders(a)' = Holders(a)
        BY <1>7, ZenonT(30)
      <4> QED
        BY <3>1, <4>1, <4>2, <4>3, <4>4, SMTT(30)
    <3>3. CASE ~(feed /\ a = a1)
      BY <1>5, <1>7, <3>1, <3>3, ZenonT(30)
    <3> QED
      BY <3>2, <3>3, ZenonT(30)
  <2>2. \A u \in DOMAIN udpclient :
          udpclient[u].refcount = Cardinality(UdpHolders(u)') + Cardinality(Using(u)')
    BY <1>0, <1>8, InWords, ZenonT(30)
  <2> QED
    BY <1>5, <2>1, <2>2, ZenonT(30) DEF RefsExact, Holders, UdpHolders, Through, Fed, Using
<1>11. GaugeExact'
  <2>1. inbound_connects = Cardinality(Counted')
    BY <1>0, <1>9, InWords, ZenonT(30)
  <2>2. ASSUME NEW l \in listen_list, l.slot = "tcp"
        PROVE  portaccount'[l.portaccount].gauge = Cardinality(Through(l.portaccount)')
    <3>1. l.portaccount \in DOMAIN portaccount /\ ~(feed /\ l.portaccount = a1)
      BY <1>0, <1>2, <2>2, ZenonT(30) DEF ObjectsShaped, ListenerShaped
    <3> QED
      BY <1>0, <1>5, <1>7, <2>2, <3>1, InWords, ZenonT(30)
  <2> QED
    BY <2>1, <2>2, ZenonT(30) DEF GaugeExact, Counted, Through
<1>12. ObjectsShaped'
  <2>1. ASSUME NEW u \in DOMAIN udpclient PROVE UdpShaped(u)'
    BY <1>0, <1>5, ZenonT(30) DEF ObjectsShaped, UdpShaped
  <2>2. ASSUME NEW d \in DOMAIN client PROVE ClientShaped(d)'
    <3>1. ClientShaped(d)
      BY <1>0, ZenonT(30) DEF ObjectsShaped
    <3>2. CASE d = c
      BY <1>2, <1>3, <1>4, <1>5, <1>6, <3>1, <3>2, ZenonT(30) DEF ClientShaped
    <3>3. CASE d # c
      <4>1. client'[d] = client[d]
        BY <1>3, <3>3, ZenonT(30)
      <4> QED
        BY <1>5, <3>1, <4>1, ZenonT(30) DEF ClientShaped, Inport
    <3> QED
      BY <3>2, <3>3, ZenonT(30)
  <2>3. ASSUME NEW l \in listen_list PROVE ListenerShaped(l)'
    BY <1>0, <1>5, ZenonT(30) DEF ObjectsShaped, ListenerShaped
  <2> QED
    BY <1>0, <1>3, <2>1, <2>2, <2>3, ZenonT(30) DEF ObjectsShaped, Unshared
<1> QED
  BY <1>0, <1>3, <1>5, <1>10, <1>11, <1>12, ZenonT(30) DEF ObjectsInv, ObjectTypes

(* listener_free takes back what the listener holds, and only that. *)
LEMMA ListenerFreeObjects ==
    ASSUME ObjectsInv, NEW l \in listen_list, listener_free(l), UNCHANGED <<client, inbound_connects>>
    PROVE  ObjectsInv'
<1> DEFINE a0 == l.portaccount
           u0 == l.udp
<1>0. ObjectTypes /\ ObjectsShaped /\ RefsExact /\ GaugeExact /\ ListenerShaped(l)
  BY ZenonT(30) DEF ObjectsInv, ObjectsShaped
<1>1. portaccount \in Seq(Acc) /\ udpclient \in Seq(Udp) /\ client \in Seq(Client)
  BY <1>0, ZenonT(30) DEF ObjectTypes
<1>2. listen_list' = listen_list \ {l}
  BY ZenonT(30) DEF listener_free
<1>3. a0 \in DOMAIN portaccount /\ (u0 # 0 => u0 \in DOMAIN udpclient)
  <2>1. a0 \in DOMAIN portaccount /\ u0 \in 0..Len(udpclient)
    BY <1>0, ZenonT(30) DEF ListenerShaped
  <2>2. DOMAIN udpclient = 1..Len(udpclient) /\ Len(udpclient) \in Nat
    BY <1>0, Each, ZenonT(30)
  <2> HIDE DEF a0, u0
  <2> QED
    BY <2>1, <2>2, SMTT(30)
<1>4. \A a \in DOMAIN portaccount :
        /\ portaccount[a].refcount = Cardinality(Holders(a)) + Cardinality(Through(a)) + Cardinality(Fed(a))
        /\ Cardinality(Through(a)) \in Nat /\ Cardinality(Fed(a)) \in Nat
        /\ a = a0 => Cardinality(Holders(a)) = 1
  BY <1>0, InWords, UsersFinite, ZenonT(30)
<1>5. \A u \in DOMAIN udpclient :
        /\ udpclient[u].refcount = Cardinality(UdpHolders(u)) + Cardinality(Using(u))
        /\ Cardinality(Using(u)) \in Nat /\ IsFiniteSet(Using(u))
        /\ u = u0 => Cardinality(UdpHolders(u)) = 1
  BY <1>0, InWords, UsersFinite, ZenonT(30)
<1>6. portaccount[a0].refcount >= 1
  <2>1. portaccount[a0].refcount = 1 + Cardinality(Through(a0)) + Cardinality(Fed(a0))
    BY <1>3, <1>4, ZenonT(30)
  <2>2. Cardinality(Through(a0)) \in Nat /\ Cardinality(Fed(a0)) \in Nat
    BY <1>3, <1>4, ZenonT(30)
  <2> HIDE DEF a0
  <2> QED
    BY <2>1, <2>2, SMTT(30)
<1>7. u0 # 0 => udpclient[u0].refcount >= 1 /\ (udpclient[u0].refcount = 1 => Using(u0) = {})
  <2> SUFFICES ASSUME u0 # 0 PROVE udpclient[u0].refcount >= 1 /\ (udpclient[u0].refcount = 1 => Using(u0) = {})
    BY ZenonT(30)
  <2>1. /\ udpclient[u0].refcount = 1 + Cardinality(Using(u0))
        /\ Cardinality(Using(u0)) \in Nat /\ IsFiniteSet(Using(u0))
    BY <1>3, <1>5, ZenonT(30)
  <2> HIDE DEF u0
  <2>2. udpclient[u0].refcount >= 1 /\ (udpclient[u0].refcount = 1 => Cardinality(Using(u0)) = 0)
    BY <2>1, SMTT(30)
  <2> QED
    BY <2>1, <2>2, FS_EmptySet, ZenonT(30)
<1>8. /\ portaccount' \in Seq(Acc) /\ Len(portaccount') = Len(portaccount)
      /\ DOMAIN portaccount' = DOMAIN portaccount
      /\ portaccount'[a0].refcount = portaccount[a0].refcount - 1
      /\ \A b \in DOMAIN portaccount : b # a0 => portaccount'[b] = portaccount[b]
  <2>1. portaccount' = port_accounter_drop(portaccount, a0)
    BY ZenonT(30) DEF listener_free
  <2> QED
    BY <1>1, <1>3, <1>6, <2>1, DropOne, ZenonT(30)
<1>9. /\ udpclient' \in Seq(Udp) /\ Len(udpclient') = Len(udpclient) /\ DOMAIN udpclient' = DOMAIN udpclient
      /\ u0 # 0 => udpclient'[u0].refcount = udpclient[u0].refcount - 1
      /\ u0 # 0 => udpclient'[u0].portaccount = IF udpclient[u0].refcount = 1 THEN 0 ELSE udpclient[u0].portaccount
      /\ \A v \in DOMAIN udpclient : v # u0 => udpclient'[v] = udpclient[v]
  <2>1. udpclient' = client_udp_free(udpclient, u0)
    BY ZenonT(30) DEF listener_free
  <2>2. CASE u0 = 0
    BY <1>1, <2>1, <2>2, ZenonT(30) DEF client_udp_free
  <2>3. CASE u0 # 0
    BY <1>1, <1>3, <1>7, <2>1, <2>3, UdpFreeOne, ZenonT(30)
  <2> QED
    BY <2>2, <2>3, ZenonT(30)
<1>10. ASSUME NEW d \in DOMAIN client, client[d].udp_port
       PROVE  udpclient'[client[d].udpclient].portaccount = udpclient[client[d].udpclient].portaccount
  <2>1. client[d].udpclient # 0 /\ client[d].udpclient \in DOMAIN udpclient /\ d \in Using(client[d].udpclient)
    BY <1>10, Referred, ZenonT(30)
  <2> QED
    BY <1>7, <1>9, <2>1, ZenonT(30)
<1>11. ASSUME NEW a \in DOMAIN portaccount
       PROVE  /\ a # 0
              /\ Through(a)' = Through(a) /\ Fed(a)' = Fed(a)
              /\ a = a0 => Cardinality(Holders(a)') = 0
              /\ a # a0 => Holders(a)' = Holders(a)
  <2>1. a # 0
    BY <1>0, Each, SMTT(30)
  <2>2. Through(a)' = Through(a)
    BY ZenonT(30) DEF Through
  <2>3. Fed(a)' = Fed(a)
    BY <1>10, ZenonT(30) DEF Fed
  <2>4. a # a0 => Holders(a)' = Holders(a)
    BY <1>2, ZenonT(30) DEF Holders
  <2>5. a = a0 => Holders(a)' = {}
    BY <1>0, <1>2, ZenonT(30) DEF Holders, ObjectsShaped, Unshared
  <2> QED
    BY <2>1, <2>2, <2>3, <2>4, <2>5, FS_EmptySet, ZenonT(30)
<1>12. ASSUME NEW u \in DOMAIN udpclient
       PROVE  /\ u # 0
              /\ Using(u)' = Using(u)
              /\ u = u0 => Cardinality(UdpHolders(u)') = 0
              /\ u # u0 => UdpHolders(u)' = UdpHolders(u)
  <2>1. u # 0
    BY <1>0, Each, SMTT(30)
  <2>2. Using(u)' = Using(u)
    BY ZenonT(30) DEF Using
  <2>3. u # u0 => UdpHolders(u)' = UdpHolders(u)
    BY <1>2, ZenonT(30) DEF UdpHolders
  <2>4. u = u0 => UdpHolders(u)' = {}
    BY <1>0, <1>2, <2>1, ZenonT(30) DEF UdpHolders, ObjectsShaped, Unshared
  <2> QED
    BY <2>1, <2>2, <2>3, <2>4, FS_EmptySet, ZenonT(30)
<1>13. RefsExact'
  <2>1. ASSUME NEW a \in DOMAIN portaccount
        PROVE  portaccount'[a].refcount = Cardinality(Holders(a)') + Cardinality(Through(a)') + Cardinality(Fed(a)')
    <3>1. CASE a = a0
      <4>1. /\ portaccount[a].refcount = 1 + Cardinality(Through(a)) + Cardinality(Fed(a))
            /\ Cardinality(Through(a)) \in Nat /\ Cardinality(Fed(a)) \in Nat
            /\ portaccount'[a].refcount = portaccount[a].refcount - 1
            /\ Cardinality(Holders(a)') = 0 /\ Through(a)' = Through(a) /\ Fed(a)' = Fed(a)
        BY <1>4, <1>8, <1>11, <3>1, ZenonT(30)
      <4> QED
        BY <4>1, SMTT(30)
    <3>2. CASE a # a0
      BY <1>4, <1>8, <1>11, <3>2, ZenonT(30)
    <3> QED
      BY <3>1, <3>2, ZenonT(30)
  <2>2. ASSUME NEW u \in DOMAIN udpclient
        PROVE  udpclient'[u].refcount = Cardinality(UdpHolders(u)') + Cardinality(Using(u)')
    <3>1. CASE u = u0
      <4>1. /\ udpclient[u].refcount = 1 + Cardinality(Using(u)) /\ Cardinality(Using(u)) \in Nat
            /\ udpclient'[u].refcount = udpclient[u].refcount - 1
            /\ Cardinality(UdpHolders(u)') = 0 /\ Using(u)' = Using(u)
        BY <1>5, <1>9, <1>12, <3>1, ZenonT(30)
      <4> QED
        BY <4>1, SMTT(30)
    <3>2. CASE u # u0
      BY <1>5, <1>9, <1>12, <3>2, ZenonT(30)
    <3> QED
      BY <3>1, <3>2, ZenonT(30)
  <2> QED
    BY <1>8, <1>9, <2>1, <2>2, ZenonT(30) DEF RefsExact, Holders, UdpHolders, Through, Fed, Using
<1>14. GaugeExact'
  <2>1. inbound_connects = Cardinality(Counted)
    BY <1>0, InWords, ZenonT(30)
  <2>2. ASSUME NEW m \in listen_list', m.slot = "tcp"
        PROVE  portaccount'[m.portaccount].gauge = Cardinality(Through(m.portaccount)')
    <3>1. m \in listen_list /\ m # l /\ m.portaccount # a0 /\ m.portaccount \in DOMAIN portaccount
      BY <1>0, <1>2, <2>2, ZenonT(30) DEF ObjectsShaped, Unshared, ListenerShaped
    <3> QED
      BY <1>0, <1>8, <1>11, <2>2, <3>1, InWords, ZenonT(30)
  <2> QED
    BY <2>1, <2>2, ZenonT(30) DEF GaugeExact, Counted, Through, Inport
<1>15. ObjectsShaped'
  <2>1. ASSUME NEW u \in DOMAIN udpclient PROVE UdpShaped(u)'
    <3>1. UdpShaped(u) /\ 0 \in 0..Len(portaccount)
      BY <1>0, Each, SMTT(30) DEF ObjectsShaped
    <3>2. CASE u # u0
      BY <1>8, <1>9, <3>1, <3>2, ZenonT(30) DEF UdpShaped
    <3>3. CASE u = u0 /\ udpclient[u].refcount = 1
      <4>1. udpclient'[u].refcount = udpclient[u].refcount - 1 /\ udpclient'[u].portaccount = 0
        BY <1>9, <1>12, <3>3, ZenonT(30)
      <4>2. ~(udpclient'[u].refcount > 0)
        BY <3>3, <4>1, SMTT(30)
      <4> QED
        BY <1>8, <3>1, <4>1, <4>2, ZenonT(30) DEF UdpShaped
    <3>4. CASE u = u0 /\ udpclient[u].refcount # 1
      <4>1. udpclient'[u].portaccount = udpclient[u].portaccount /\ udpclient[u].refcount >= 1
        BY <1>7, <1>9, <1>12, <3>4, ZenonT(30)
      <4>2. udpclient[u].refcount > 0
        <5>1. udpclient[u].refcount \in Nat
          BY <1>0, Each, ZenonT(30) DEF Udp
        <5> QED
          BY <4>1, <5>1, SMTT(30)
      <4> QED
        BY <1>8, <3>1, <4>1, <4>2, ZenonT(30) DEF UdpShaped
    <3> QED
      BY <3>2, <3>3, <3>4, ZenonT(30)
  <2>2. ASSUME NEW d \in DOMAIN client PROVE ClientShaped(d)'
    BY <1>0, <1>8, <1>9, ZenonT(30) DEF ObjectsShaped, ClientShaped, Inport
  <2>3. ASSUME NEW m \in listen_list' PROVE ListenerShaped(m)'
    <3>1. ListenerShaped(m)
      BY <1>0, <1>2, ZenonT(30) DEF ObjectsShaped
    <3>2. ASSUME NEW u \in DOMAIN udpclient, m.slot = "tcp" PROVE udpclient'[u].portaccount # m.portaccount
      <4>1. m.portaccount # 0
        BY <1>11, <3>1, ZenonT(30) DEF ListenerShaped
      <4>2. udpclient'[u].portaccount \in {0, udpclient[u].portaccount}
        BY <1>9, <1>12, ZenonT(30)
      <4> QED
        BY <3>1, <3>2, <4>1, <4>2, ZenonT(30) DEF ListenerShaped
    <3> QED
      BY <1>8, <1>9, <3>1, <3>2, ZenonT(30) DEF ListenerShaped
  <2>4. \A m, k \in listen_list' : Unshared(m, k)'
    BY <1>0, <1>2, ZenonT(30) DEF ObjectsShaped, Unshared
  <2> QED
    BY <1>9, <2>1, <2>2, <2>3, <2>4, ZenonT(30) DEF ObjectsShaped
<1> QED
  BY <1>0, <1>2, <1>8, <1>9, <1>13, <1>14, <1>15, ZenonT(30) DEF ObjectsInv, ObjectTypes

(* What open_listener adds: numbers that no one has used. *)
Opened(n, a, u) ==
    /\ n \in Listener /\ n.portaccount = a /\ n.udp = u
    /\ a = Len(portaccount) + 1 /\ portaccount' = Append(portaccount, port_accounter_alloc)
    /\ IF n.slot = "tcp"
       THEN u = 0 /\ udpclient' = udpclient
       ELSE u = Len(udpclient) + 1 /\ udpclient' = Append(udpclient, client_udp_alloc(n.slot, a))
    /\ listen_list' = listen_list \cup {n}

(* A sequence with one element more. *)
LEMMA Appended ==
    ASSUME NEW S, NEW q \in Seq(S), NEW e \in S
    PROVE  LET d == Append(q, e)
           IN  /\ d \in Seq(S) /\ Len(d) = Len(q) + 1 /\ DOMAIN d = DOMAIN q \cup {Len(q) + 1}
               /\ Len(q) + 1 \notin DOMAIN q /\ Len(q) + 1 # 0 /\ d[Len(q) + 1] = e
               /\ \A j \in DOMAIN q : d[j] = q[j]
               /\ DOMAIN q = 1..Len(q) /\ Len(q) \in Nat
               /\ Len(q) + 1 \notin 0..Len(q) /\ Len(q) + 1 \in 0..Len(d)
               /\ 0..Len(q) \subseteq 0..Len(d) /\ 0 \in 0..Len(d)
  BY SMTT(30)

(* A new listener has a new accounter and a new socket. *)
LEMMA OpenListenerObjects ==
    ASSUME ObjectsInv, NEW n, NEW a, NEW u, Opened(n, a, u), UNCHANGED <<client, inbound_connects>>
    PROVE  ObjectsInv'
<1>0. ObjectTypes /\ ObjectsShaped /\ RefsExact /\ GaugeExact
  BY ZenonT(30) DEF ObjectsInv, ObjectsShaped
<1>1. portaccount \in Seq(Acc) /\ udpclient \in Seq(Udp) /\ client \in Seq(Client)
  BY <1>0, ZenonT(30) DEF ObjectTypes
<1>2. /\ portaccount' \in Seq(Acc) /\ DOMAIN portaccount' = DOMAIN portaccount \cup {a}
      /\ a \notin DOMAIN portaccount /\ a # 0 /\ portaccount'[a] = port_accounter_alloc
      /\ \A b \in DOMAIN portaccount : portaccount'[b] = portaccount[b]
      /\ a \notin 0..Len(portaccount) /\ a \in 0..Len(portaccount')
      /\ 0..Len(portaccount) \subseteq 0..Len(portaccount')
  <2>1. a = Len(portaccount) + 1 /\ portaccount' = Append(portaccount, port_accounter_alloc)
    BY ZenonT(30) DEF Opened
  <2>2. port_accounter_alloc \in Acc
    BY SMTT(30) DEF port_accounter_alloc, Acc
  <2> HIDE DEF port_accounter_alloc
  <2>3. LET d == Append(portaccount, port_accounter_alloc)
            k == Len(portaccount) + 1
        IN  /\ d \in Seq(Acc) /\ DOMAIN d = DOMAIN portaccount \cup {k}
            /\ k \notin DOMAIN portaccount /\ k # 0 /\ d[k] = port_accounter_alloc
            /\ \A b \in DOMAIN portaccount : d[b] = portaccount[b]
            /\ k \notin 0..Len(portaccount) /\ k \in 0..Len(d)
            /\ 0..Len(portaccount) \subseteq 0..Len(d)
    BY <1>1, <2>2, Appended, SMTT(30)
  <2> QED
    BY <2>1, <2>3, ZenonT(30)
<1>fresh. port_accounter_alloc.refcount = 1 /\ port_accounter_alloc.gauge = 0
  BY ZenonT(30) DEF port_accounter_alloc
<1>3. /\ udpclient' \in Seq(Udp)
      /\ DOMAIN udpclient' = DOMAIN udpclient \cup ({u} \ {0})
      /\ u \notin DOMAIN udpclient /\ u \in 0..Len(udpclient')
      /\ \A v \in DOMAIN udpclient : udpclient'[v] = udpclient[v]
      /\ 0..Len(udpclient) \subseteq 0..Len(udpclient')
      /\ u # 0 => /\ u \notin 0..Len(udpclient)
                  /\ udpclient'[u].portaccount = a /\ udpclient'[u].refcount = 1
      /\ n.slot = "tcp" <=> u = 0
  <2>1. CASE n.slot = "tcp"
    <3>1. u = 0 /\ udpclient' = udpclient
      BY <2>1, ZenonT(30) DEF Opened
    <3>2. 0 \notin DOMAIN udpclient /\ 0 \in 0..Len(udpclient)
      BY <1>1, SMTT(30)
    <3> QED
      BY <1>1, <2>1, <3>1, <3>2, ZenonT(30)
  <2>2. CASE n.slot # "tcp"
    <3> DEFINE r == client_udp_alloc(n.slot, a)
    <3>1. u = Len(udpclient) + 1 /\ udpclient' = Append(udpclient, r) /\ n.slot \in Slot
      BY <2>2, ZenonT(30) DEF Opened, Listener
    <3>2. r \in Udp /\ r.portaccount = a /\ r.refcount = 1
      <4>1. a \in Nat /\ 1 \in Nat
        BY <1>2, SMTT(30)
      <4> QED
        BY <3>1, <4>1, ZenonT(30) DEF client_udp_alloc, Udp
    <3> HIDE DEF r
    <3>3. LET d == Append(udpclient, r)
              k == Len(udpclient) + 1
          IN  /\ d \in Seq(Udp) /\ DOMAIN d = DOMAIN udpclient \cup {k}
              /\ k \notin DOMAIN udpclient /\ k # 0 /\ d[k] = r
              /\ \A v \in DOMAIN udpclient : d[v] = udpclient[v]
              /\ k \notin 0..Len(udpclient) /\ k \in 0..Len(d)
              /\ 0..Len(udpclient) \subseteq 0..Len(d)
      BY <1>1, <3>2, Appended, SMTT(30)
    <3>4. u # 0 => {u} \ {0} = {u}
      BY ZenonT(30)
    <3> QED
      BY <2>2, <3>1, <3>2, <3>3, <3>4, ZenonT(30)
  <2> QED
    BY <2>1, <2>2, ZenonT(30)
<1>4. /\ listen_list' = listen_list \cup {n} /\ n \in Listener /\ n.portaccount = a /\ n.udp = u
      /\ n \notin listen_list
  <2>1. listen_list' = listen_list \cup {n} /\ n \in Listener /\ n.portaccount = a /\ n.udp = u
    BY ZenonT(30) DEF Opened
  <2> QED
    BY <1>0, <1>2, <2>1, ZenonT(30) DEF ObjectsShaped, ListenerShaped
<1>5. \A c \in DOMAIN client :
        /\ client[c].portaccount # a
        /\ client[c].udpclient = u => u = 0
        /\ client[c].udp_port =>
             /\ client[c].udpclient \in DOMAIN udpclient
             /\ udpclient[client[c].udpclient].portaccount # a
  BY <1>0, <1>2, <1>3, Referred, ZenonT(30) DEF ObjectsShaped, ClientShaped
<1>6. ASSUME NEW b \in DOMAIN portaccount
      PROVE  Holders(b)' = Holders(b) /\ Through(b)' = Through(b) /\ Fed(b)' = Fed(b)
  <2>1. Holders(b)' = Holders(b)
    BY <1>2, <1>4, ZenonT(30) DEF Holders
  <2>2. Through(b)' = Through(b)
    BY ZenonT(30) DEF Through
  <2>3. Fed(b)' = Fed(b)
    BY <1>3, <1>5, ZenonT(30) DEF Fed
  <2> QED
    BY <2>1, <2>2, <2>3, ZenonT(30)
<1>7. Holders(a)' = {n} /\ Through(a)' = {} /\ Fed(a)' = {}
  <2>1. Holders(a)' = {n}
    BY <1>0, <1>2, <1>4, ZenonT(30) DEF Holders, ObjectsShaped, ListenerShaped
  <2>2. Through(a)' = {}
    BY <1>5, ZenonT(30) DEF Through
  <2>3. Fed(a)' = {}
    BY <1>3, <1>5, ZenonT(30) DEF Fed
  <2> QED
    BY <2>1, <2>2, <2>3, ZenonT(30)
<1>8. ASSUME NEW v \in DOMAIN udpclient
      PROVE  UdpHolders(v)' = UdpHolders(v) /\ Using(v)' = Using(v)
  <2>1. UdpHolders(v)' = UdpHolders(v)
    BY <1>3, <1>4, ZenonT(30) DEF UdpHolders
  <2>2. Using(v)' = Using(v)
    BY ZenonT(30) DEF Using
  <2> QED
    BY <2>1, <2>2, ZenonT(30)
<1>9. u # 0 => UdpHolders(u)' = {n} /\ Using(u)' = {}
  <2>1. u # 0 => UdpHolders(u)' = {n}
    BY <1>0, <1>3, <1>4, ZenonT(30) DEF UdpHolders, ObjectsShaped, ListenerShaped
  <2>2. u # 0 => Using(u)' = {}
    BY <1>5, ZenonT(30) DEF Using
  <2> QED
    BY <2>1, <2>2, ZenonT(30)
<1>10. /\ portaccount'[a].refcount = Cardinality(Holders(a)') + Cardinality(Through(a)') + Cardinality(Fed(a)')
       /\ u # 0 => udpclient'[u].refcount = Cardinality(UdpHolders(u)') + Cardinality(Using(u)')
  <2>1. Cardinality({n}) = 1
    BY FS_Singleton, ZenonT(30)
  <2>2. Cardinality({}) = 0
    BY FS_EmptySet, ZenonT(30)
  <2>3. portaccount'[a].refcount = 1 /\ 1 = 1 + 0 /\ 1 = 1 + 0 + 0
    <3>1. portaccount'[a].refcount = 1
      BY <1>2, <1>fresh, ZenonT(30)
    <3> QED
      BY <3>1, SMTT(30)
  <2> QED
    BY <1>3, <1>7, <1>9, <2>1, <2>2, <2>3, ZenonT(30)
<1>11. RefsExact'
  <2>1. ASSUME NEW b \in DOMAIN portaccount'
        PROVE  portaccount'[b].refcount = Cardinality(Holders(b)') + Cardinality(Through(b)') + Cardinality(Fed(b)')
    <3>1. CASE b = a
      BY <1>10, <3>1, ZenonT(30)
    <3>2. CASE b \in DOMAIN portaccount
      BY <1>0, <1>2, <1>6, <3>2, InWords, ZenonT(30)
    <3> QED
      BY <1>2, <3>1, <3>2, ZenonT(30)
  <2>2. ASSUME NEW v \in DOMAIN udpclient'
        PROVE  udpclient'[v].refcount = Cardinality(UdpHolders(v)') + Cardinality(Using(v)')
    <3>1. CASE v = u /\ u # 0
      BY <1>10, <3>1, ZenonT(30)
    <3>2. CASE v \in DOMAIN udpclient
      BY <1>0, <1>3, <1>8, <3>2, InWords, ZenonT(30)
    <3> QED
      BY <1>3, <3>1, <3>2, ZenonT(30)
  <2> QED
    BY <2>1, <2>2, ZenonT(30) DEF RefsExact, Holders, UdpHolders, Through, Fed, Using
<1>12. GaugeExact'
  <2>1. inbound_connects = Cardinality(Counted)
    BY <1>0, InWords, ZenonT(30)
  <2>2. ASSUME NEW m \in listen_list', m.slot = "tcp"
        PROVE  portaccount'[m.portaccount].gauge = Cardinality(Through(m.portaccount)')
    <3>1. CASE m = n
      <4>1. Cardinality({}) = 0
        BY FS_EmptySet, ZenonT(30)
      <4> QED
        BY <1>2, <1>4, <1>7, <1>fresh, <3>1, <4>1, ZenonT(30)
    <3>2. CASE m \in listen_list
      <4>1. m.portaccount \in DOMAIN portaccount
        BY <1>0, <3>2, ZenonT(30) DEF ObjectsShaped, ListenerShaped
      <4> QED
        BY <1>0, <1>2, <1>6, <2>2, <3>2, <4>1, InWords, ZenonT(30)
    <3> QED
      BY <1>4, <3>1, <3>2, ZenonT(30)
  <2> QED
    BY <2>1, <2>2, ZenonT(30) DEF GaugeExact, Counted, Through, Inport
<1>13. ObjectsShaped'
  <2>1. ASSUME NEW v \in DOMAIN udpclient' PROVE UdpShaped(v)'
    <3>1. CASE v = u /\ u # 0
      BY <1>2, <1>3, <3>1, ZenonT(30) DEF UdpShaped
    <3>2. CASE v \in DOMAIN udpclient
      BY <1>0, <1>2, <1>3, <3>2, ZenonT(30) DEF ObjectsShaped, UdpShaped
    <3> QED
      BY <1>3, <3>1, <3>2, ZenonT(30)
  <2>2. ASSUME NEW c \in DOMAIN client PROVE ClientShaped(c)'
    <3>1. ClientShaped(c)
      BY <1>0, ZenonT(30) DEF ObjectsShaped
    <3> QED
      BY <1>2, <1>3, <3>1, ZenonT(30) DEF ClientShaped, Inport
  <2>3. ASSUME NEW m \in listen_list' PROVE ListenerShaped(m)'
    <3>1. CASE m = n
      <4>1. \A v \in DOMAIN udpclient : udpclient[v].portaccount # a
        BY <1>0, <1>2, ZenonT(30) DEF ObjectsShaped, UdpShaped
      <4> QED
        BY <1>2, <1>3, <1>4, <3>1, <4>1, ZenonT(30) DEF ListenerShaped
    <3>2. CASE m \in listen_list
      <4>1. ListenerShaped(m)
        BY <1>0, <3>2, ZenonT(30) DEF ObjectsShaped
      <4>2. m.portaccount # a
        BY <1>2, <4>1, ZenonT(30) DEF ListenerShaped
      <4> QED
        BY <1>2, <1>3, <4>1, <4>2, ZenonT(30) DEF ListenerShaped
    <3> QED
      BY <1>4, <3>1, <3>2, ZenonT(30)
  <2>4. ASSUME NEW m \in listen_list', NEW k \in listen_list' PROVE Unshared(m, k)'
    <3>1. \A j \in listen_list : j.portaccount # a /\ (u # 0 => j.udp # u)
      BY <1>0, <1>2, <1>3, ZenonT(30) DEF ObjectsShaped, ListenerShaped
    <3>2. CASE m = n \/ k = n
      BY <1>4, <3>1, <3>2, ZenonT(30) DEF Unshared
    <3>3. CASE m \in listen_list /\ k \in listen_list
      BY <1>0, <3>3, ZenonT(30) DEF ObjectsShaped, Unshared
    <3> QED
      BY <1>4, <3>2, <3>3, ZenonT(30)
  <2> QED
    BY <2>1, <2>2, <2>3, <2>4, ZenonT(30) DEF ObjectsShaped
<1>14. ObjectTypes'
  BY <1>0, <1>2, <1>3, <1>4, ZenonT(30) DEF ObjectTypes
<1> QED
  BY <1>11, <1>12, <1>13, <1>14, ZenonT(30) DEF ObjectsInv

(* Listeners, each counted once. *)
LEMMA CountSole ==
    ASSUME NEW S, \A x, y \in S : x = y
    PROVE  Cardinality(S) = IF S = {} THEN 0 ELSE 1
<1>1. CASE S = {}
  BY <1>1, FS_EmptySet, ZenonT(30)
<1>2. CASE S # {}
  <2>1. PICK x : x \in S
    BY <1>2, ZenonT(30)
  <2>2. S = {x}
    BY <2>1, ZenonT(30)
  <2>3. Cardinality(S) = 1
    BY <2>2, FS_Singleton, ZenonT(30)
  <2> QED
    BY <1>2, <2>3, ZenonT(30)
<1> QED
  BY <1>1, <1>2, ZenonT(30)

(* listener_update_config changes what a listener allows, not what it holds. *)
LEMMA UpdateConfigObjects ==
    ASSUME ObjectsInv, listener_update_config, acl \in BOOLEAN, UNCHANGED objectVars
    PROVE  ObjectsInv'
<1> DEFINE f(l) == [l EXCEPT !.deny = acl]
<1>0. ObjectTypes /\ ObjectsShaped /\ RefsExact /\ GaugeExact
  BY ZenonT(30) DEF ObjectsInv, ObjectsShaped
<1>1. UNCHANGED <<portaccount, udpclient, client, inbound_connects>>
  BY ZenonT(30) DEF objectVars
<1>2. listen_list' = {f(l) : l \in listen_list}
  BY ZenonT(30) DEF listener_update_config
<1>3. ASSUME NEW l \in listen_list
      PROVE  /\ f(l) \in Listener /\ f(l) \in listen_list'
             /\ f(l).portaccount = l.portaccount /\ f(l).udp = l.udp /\ f(l).slot = l.slot
  <2>1. l \in Listener
    BY <1>0, ZenonT(30) DEF ObjectTypes
  <2> QED
    BY <1>2, <2>1, ZenonT(30) DEF Listener
<1>4. \A m \in listen_list' : \E l \in listen_list : m = f(l)
  BY <1>2, ZenonT(30)
<1> HIDE DEF f
<1>5. ObjectTypes'
  BY <1>0, <1>1, <1>3, <1>4, ZenonT(30) DEF ObjectTypes
<1>6. ASSUME NEW m \in listen_list', NEW k \in listen_list' PROVE Unshared(m, k)
  <2>1. PICK l \in listen_list : m = f(l)
    BY <1>4, ZenonT(30)
  <2>2. PICK j \in listen_list : k = f(j)
    BY <1>4, ZenonT(30)
  <2>3. Unshared(l, j)
    BY <1>0, ZenonT(30) DEF ObjectsShaped
  <2> QED
    BY <1>3, <2>1, <2>2, <2>3, ZenonT(30) DEF Unshared
<1>7. ASSUME NEW m \in listen_list' PROVE ListenerShaped(m)
  <2>1. PICK l \in listen_list : m = f(l)
    BY <1>4, ZenonT(30)
  <2>2. ListenerShaped(l)
    BY <1>0, ZenonT(30) DEF ObjectsShaped
  <2> QED
    BY <1>3, <2>1, <2>2, ZenonT(30) DEF ListenerShaped
<1>8. ObjectsShaped'
  <2>1. \A u \in DOMAIN udpclient : UdpShaped(u)'
    BY <1>0, <1>1, ZenonT(30) DEF ObjectsShaped, UdpShaped
  <2>2. \A c \in DOMAIN client : ClientShaped(c)'
    BY <1>0, <1>1, ZenonT(30) DEF ObjectsShaped, ClientShaped, Inport
  <2>3. \A m \in listen_list' : ListenerShaped(m)'
    BY <1>1, <1>7, ZenonT(30) DEF ListenerShaped
  <2>4. \A m, k \in listen_list' : Unshared(m, k)'
    BY <1>6, ZenonT(30) DEF Unshared
  <2> QED
    BY <1>1, <2>1, <2>2, <2>3, <2>4, ZenonT(30) DEF ObjectsShaped
<1>9. ASSUME NEW a PROVE Cardinality(Holders(a)') = Cardinality(Holders(a))
  <2>1. \A x, y \in Holders(a) : x = y
    BY <1>0, ZenonT(30) DEF Holders, ObjectsShaped, Unshared
  <2>2. \A x, y \in Holders(a)' : x = y
    BY <1>6, ZenonT(30) DEF Holders, Unshared
  <2>3. Holders(a) = {} <=> Holders(a)' = {}
    <3>1. ASSUME NEW x \in Holders(a) PROVE Holders(a)' # {}
      <4>1. f(x) \in Holders(a)'
        BY <1>3, ZenonT(30) DEF Holders
      <4> QED
        BY <4>1, ZenonT(30)
    <3>2. ASSUME NEW x \in Holders(a)' PROVE Holders(a) # {}
      <4>1. PICK l \in listen_list : x = f(l)
        BY <1>4, ZenonT(30) DEF Holders
      <4>2. l \in Holders(a)
        BY <1>3, <4>1, ZenonT(30) DEF Holders
      <4> QED
        BY <4>2, ZenonT(30)
    <3> QED
      BY <3>1, <3>2, ZenonT(30)
  <2>4. Cardinality(Holders(a)) = IF Holders(a) = {} THEN 0 ELSE 1
    BY <2>1, CountSole, ZenonT(30)
  <2>5. Cardinality(Holders(a)') = IF Holders(a)' = {} THEN 0 ELSE 1
    BY <2>2, CountSole, ZenonT(30)
  <2> QED
    BY <2>3, <2>4, <2>5, ZenonT(30)
<1>10. ASSUME NEW u \in DOMAIN udpclient PROVE Cardinality(UdpHolders(u)') = Cardinality(UdpHolders(u))
  <2>0. u # 0
    BY <1>0, Each, SMTT(30)
  <2>1. \A x, y \in UdpHolders(u) : x = y
    BY <1>0, <2>0, ZenonT(30) DEF UdpHolders, ObjectsShaped, Unshared
  <2>2. \A x, y \in UdpHolders(u)' : x = y
    BY <1>6, <2>0, ZenonT(30) DEF UdpHolders, Unshared
  <2>3. UdpHolders(u) = {} <=> UdpHolders(u)' = {}
    <3>1. ASSUME NEW x \in UdpHolders(u) PROVE UdpHolders(u)' # {}
      <4>1. f(x) \in UdpHolders(u)'
        BY <1>3, ZenonT(30) DEF UdpHolders
      <4> QED
        BY <4>1, ZenonT(30)
    <3>2. ASSUME NEW x \in UdpHolders(u)' PROVE UdpHolders(u) # {}
      <4>1. PICK l \in listen_list : x = f(l)
        BY <1>4, ZenonT(30) DEF UdpHolders
      <4>2. l \in UdpHolders(u)
        BY <1>3, <4>1, ZenonT(30) DEF UdpHolders
      <4> QED
        BY <4>2, ZenonT(30)
    <3> QED
      BY <3>1, <3>2, ZenonT(30)
  <2>4. Cardinality(UdpHolders(u)) = IF UdpHolders(u) = {} THEN 0 ELSE 1
    BY <2>1, CountSole, ZenonT(30)
  <2>5. Cardinality(UdpHolders(u)') = IF UdpHolders(u)' = {} THEN 0 ELSE 1
    BY <2>2, CountSole, ZenonT(30)
  <2> QED
    BY <2>3, <2>4, <2>5, ZenonT(30)
<1>11. \A x : Through(x)' = Through(x) /\ Fed(x)' = Fed(x) /\ Using(x)' = Using(x)
  BY <1>1, ZenonT(30) DEF Through, Fed, Using
<1>12. RefsExact'
  <2>1. \A a \in DOMAIN portaccount :
          portaccount[a].refcount = Cardinality(Holders(a)') + Cardinality(Through(a)') + Cardinality(Fed(a)')
    BY <1>0, <1>9, <1>11, InWords, ZenonT(30)
  <2>2. \A u \in DOMAIN udpclient :
          udpclient[u].refcount = Cardinality(UdpHolders(u)') + Cardinality(Using(u)')
    BY <1>0, <1>10, <1>11, InWords, ZenonT(30)
  <2> QED
    BY <1>1, <2>1, <2>2, ZenonT(30) DEF RefsExact, Holders, UdpHolders, Through, Fed, Using
<1>13. GaugeExact'
  <2>1. inbound_connects = Cardinality(Counted)
    BY <1>0, InWords, ZenonT(30)
  <2>2. ASSUME NEW m \in listen_list', m.slot = "tcp"
        PROVE  portaccount[m.portaccount].gauge = Cardinality(Through(m.portaccount))
    <3>1. PICK l \in listen_list : m = f(l)
      BY <1>4, ZenonT(30)
    <3> QED
      BY <1>0, <1>3, <2>2, <3>1, InWords, ZenonT(30)
  <2> QED
    BY <1>1, <2>1, <2>2, ZenonT(30) DEF GaugeExact, Counted, Through, Inport
<1> QED
  BY <1>5, <1>8, <1>12, <1>13, ZenonT(30) DEF ObjectsInv
-----------------------------------------------------------------------------
(***************************************************************************)
(* The objects, action by action.                                          *)
(***************************************************************************)
UdpPlus(udp, u, n) == [udp EXCEPT ![u].refcount = @ + n]

(* Steps that leave the objects alone. *)
LEMMA SameObjects ==
    ASSUME ObjectsInv, UNCHANGED <<objectVars, listen_list>>
    PROVE  ObjectsInv'
<1>1. UNCHANGED <<portaccount, udpclient, client, inbound_connects, listen_list>>
  BY ZenonT(30) DEF objectVars
<1>2. ObjectTypes' /\ RefsExact' /\ GaugeExact'
  BY <1>1, ZenonT(30) DEF ObjectsInv, ObjectTypes, RefsExact, GaugeExact, Inport
<1>3. ObjectsShaped'
  BY <1>1, ZenonT(30) DEF ObjectsInv, ObjectsShaped, UdpShaped, ClientShaped, ListenerShaped, Unshared, Inport
<1> QED
  BY <1>2, <1>3, ZenonT(30) DEF ObjectsInv

(* client_udp_find and client_udp_alloc's callers take references. *)
LEMMA UdpAddOne ==
    ASSUME NEW udp \in Seq(Udp), NEW u \in DOMAIN udp, NEW n \in Nat
    PROVE  LET d == UdpPlus(udp, u, n)
           IN  /\ d \in Seq(Udp) /\ Len(d) = Len(udp) /\ DOMAIN d = DOMAIN udp
               /\ d[u].refcount = udp[u].refcount + n /\ d[u].portaccount = udp[u].portaccount
               /\ \A v \in DOMAIN udp : v # u => d[v] = udp[v]
<1> DEFINE r == [udp[u] EXCEPT !.refcount = @ + n]
           d == UdpPlus(udp, u, n)
<1>0. udp[u] \in Udp
  BY SMTT(30)
<1>1. udp[u].refcount \in Nat
  BY <1>0, ZenonT(30) DEF Udp
<1>2. d = [udp EXCEPT ![u] = r]
  BY ZenonT(30) DEF UdpPlus
<1>3. r \in Udp /\ r.refcount = udp[u].refcount + n /\ r.portaccount = udp[u].portaccount
  <2>1. udp[u].refcount + n \in Nat
    BY <1>1, SMTT(30)
  <2> QED
    BY <1>0, <2>1, ZenonT(30) DEF Udp
<1> HIDE DEF d, r
<1>4. d \in Seq(Udp) /\ Len(d) = Len(udp) /\ DOMAIN d = DOMAIN udp
  BY <1>2, <1>3, SMTT(30)
<1>5. d[u] = r /\ \A v \in DOMAIN udp : v # u => d[v] = udp[v]
  BY <1>2, SMTT(30)
<1> QED
  BY <1>3, <1>4, <1>5, ZenonT(30) DEF d

(* Steps that change one client, but not what it holds. *)
LEMMA ChangeOne ==
    ASSUME ObjectsInv, NEW c \in DOMAIN client, NEW r \in Client, client' = Put(client, c, r),
           r.portaccount = client[c].portaccount, r.udpclient = client[c].udpclient,
           r.udp_port = client[c].udp_port,
           r.state = client[c].state \/ (r.state = "freed" /\ ~Inport(c)),
           udpclient' \in Seq(Udp), Len(udpclient') = Len(udpclient),
           DOMAIN udpclient' = DOMAIN udpclient,
           \A u \in DOMAIN udpclient : /\ udpclient'[u].portaccount = udpclient[u].portaccount
                                       /\ udpclient'[u].refcount = udpclient[u].refcount,
           UNCHANGED <<portaccount, listen_list, inbound_connects>>
    PROVE  ObjectsInv'
<1>1. ObjectTypes /\ client \in Seq(Client)
  BY ZenonT(30) DEF ObjectsInv, ObjectTypes
<1>2. LET d == Put(client, c, r)
      IN  /\ d \in Seq(Client) /\ DOMAIN d = DOMAIN client /\ d[c] = r
          /\ \A j \in DOMAIN client : j # c => d[j] = client[j]
  BY <1>1, Replaced, SMTT(30)
<1>3. /\ client' \in Seq(Client) /\ DOMAIN client' = DOMAIN client /\ client'[c] = r
      /\ \A j \in DOMAIN client : j # c => client'[j] = client[j]
  BY <1>2, ZenonT(30)
<1>4. ObjectTypes'
  BY <1>1, <1>3, ZenonT(30) DEF ObjectTypes
<1>5. \A d \in DOMAIN client :
        /\ client'[d].portaccount = client[d].portaccount
        /\ client'[d].udpclient = client[d].udpclient
        /\ client'[d].udp_port = client[d].udp_port
        /\ client'[d].state \in {client[d].state, "freed"}
        /\ client'[d].state = client[d].state \/ ~Inport(d)
  BY <1>3, ZenonT(30)
<1> QED
  BY <1>3, <1>4, <1>5, KeepObjects, ZenonT(30)

(* close_removed_listeners takes back what the removed listener holds. *)
LEMMA CloseRemovedKeeps ==
    ASSUME ObjectsInv, close_removed_listeners
    PROVE  ObjectsInv'
<1>0. UNCHANGED <<client, inbound_connects>>
  BY ZenonT(30) DEF close_removed_listeners
<1>1. CASE \E l \in Removed : listener_free(l)
  BY <1>0, <1>1, ListenerFreeObjects, ZenonT(30) DEF Removed
<1>2. CASE UNCHANGED <<listen_list, udpclient, portaccount>>
  BY <1>0, <1>2, SameObjects, ZenonT(30) DEF objectVars
<1> QED
  BY <1>1, <1>2, ZenonT(30) DEF close_removed_listeners

(* open_missing_listeners gives new objects to new listeners. *)
LEMMA OpenMissingKeeps ==
    ASSUME ObjectsInv, ThreadTypes, open_missing_listeners
    PROVE  ObjectsInv'
<1>0. UNCHANGED <<client, inbound_connects>> /\ acl \in BOOLEAN /\ ObjectTypes
  BY ZenonT(30) DEF open_missing_listeners, ThreadTypes, ConfigTyped, QueuesTyped, ObjectsInv
<1>1. CASE \E s \in Missing : open_listener(s)
  <2>1. PICK s \in Slot : open_listener(s)
    BY <1>1, ZenonT(30) DEF Missing
  <2> DEFINE a == Len(portaccount) + 1
             u == IF s = "tcp" THEN 0 ELSE Len(udpclient) + 1
             n == [id |-> listen_config[s], slot |-> s, portaccount |-> a, udp |-> u, deny |-> acl]
  <2>2. listen_config[s] \in Nat
    BY ZenonT(30) DEF ThreadTypes, ConfigTyped, QueuesTyped
  <2>3. a \in Nat /\ u \in Nat
    <3>1. Len(portaccount) \in Nat /\ Len(udpclient) \in Nat
      BY <1>0, Each, ZenonT(30)
    <3> QED
      BY <3>1, SMTT(30)
  <2>4. /\ portaccount' = Append(portaccount, port_accounter_alloc)
        /\ udpclient' = IF u = 0 THEN udpclient ELSE Append(udpclient, client_udp_alloc(s, a))
        /\ listen_list' = listen_list \cup {n}
    BY <2>1, ZenonT(30) DEF open_listener
  <2>5. s # "tcp" => u # 0
    <3>1. Len(udpclient) \in Nat
      BY <1>0, Each, ZenonT(30)
    <3> QED
      BY <3>1, SMTT(30)
  <2>6. n \in Listener /\ n.portaccount = a /\ n.udp = u /\ n.slot = s
    <3> HIDE DEF a, u
    <3> QED
      BY <1>0, <2>2, <2>3, ZenonT(30) DEF Listener
  <2>7. a = Len(portaccount) + 1 /\ u = IF s = "tcp" THEN 0 ELSE Len(udpclient) + 1
    BY ZenonT(30)
  <2> HIDE DEF n, a, u
  <2>8. Opened(n, a, u)
    BY <2>4, <2>5, <2>6, <2>7, ZenonT(30) DEF Opened
  <2> QED
    BY <1>0, <2>8, OpenListenerObjects, ZenonT(30)
<1>2. CASE listener_update_config /\ UNCHANGED <<udpclient, portaccount>>
  BY <1>0, <1>2, UpdateConfigObjects, ZenonT(30) DEF objectVars
<1> QED
  BY <1>1, <1>2, ZenonT(30) DEF open_missing_listeners

(* rescan_client_acls shuts connections down and frees nothing. *)
LEMMA RescanKeeps ==
    ASSUME ObjectsInv, rescan_client_acls
    PROVE  ObjectsInv'
<1> DEFINE g(c) == IF Denied /\ c \in Scanned /\ Inport(c) THEN [client[c] EXCEPT !.shut = TRUE] ELSE client[c]
<1>0. /\ ObjectTypes /\ client \in Seq(Client)
      /\ UNCHANGED <<portaccount, udpclient, listen_list, inbound_connects>>
  BY ZenonT(30) DEF rescan_client_acls, ObjectsInv, ObjectTypes
<1>1. client' = [c \in DOMAIN client |-> g(c)]
  BY ZenonT(30) DEF rescan_client_acls
<1>2. ASSUME NEW c \in DOMAIN client
      PROVE  /\ g(c) \in Client /\ g(c).portaccount = client[c].portaccount
             /\ g(c).udpclient = client[c].udpclient /\ g(c).udp_port = client[c].udp_port
             /\ g(c).state = client[c].state
  <2>1. client[c] \in Client
    BY <1>0, Each, ZenonT(30)
  <2> QED
    BY <2>1, ZenonT(30) DEF Client
<1> HIDE DEF g
<1>3. DOMAIN client' = DOMAIN client /\ \A c \in DOMAIN client : client'[c] = g(c)
  BY <1>1, ZenonT(30)
<1>4. client' \in Seq(Client)
  BY <1>0, <1>1, <1>2, SMTT(30)
<1>5. ObjectTypes'
  BY <1>0, <1>4, ZenonT(30) DEF ObjectTypes
<1>6. \A d \in DOMAIN client :
        /\ client'[d].portaccount = client[d].portaccount
        /\ client'[d].udpclient = client[d].udpclient
        /\ client'[d].udp_port = client[d].udp_port
        /\ client'[d].state \in {client[d].state, "freed"}
        /\ client'[d].state = client[d].state \/ ~Inport(d)
  BY <1>2, <1>3, ZenonT(30)
<1> QED
  BY <1>0, <1>3, <1>5, <1>6, KeepObjects, ZenonT(30)

(* The pseudo client that tells the first worker to close the peers holds nothing. *)
LEMMA PeersCloseKeeps ==
    ASSUME ObjectsInv, peerip_clients_close
    PROVE  ObjectsInv'
<1> DEFINE r == client_alloc("magic", 0, 0)
<1>0. /\ ObjectTypes /\ client \in Seq(Client) /\ portaccount \in Seq(Acc) /\ udpclient \in Seq(Udp)
      /\ UNCHANGED <<portaccount, udpclient, listen_list, inbound_connects>>
      /\ client' = Append(client, r)
  BY ZenonT(30) DEF peerip_clients_close, ObjectsInv, ObjectTypes
<1>1. 0 \in Nat /\ 1 \in Nat /\ 0 \in 0..Len(portaccount) /\ 0 \in 0..Len(udpclient)
  BY <1>0, SMTT(30)
<1>2. /\ r \in Client /\ r.portaccount = 0 /\ r.udpclient = 0 /\ ~r.udp_port /\ r.state = "magic"
  BY <1>1, ZenonT(30) DEF client_alloc, Freed, Client, ClientState
<1> HIDE DEF r
<1>3. /\ client' \in Seq(Client) /\ Len(client') = Len(client) + 1
      /\ \A d \in DOMAIN client : client'[d] = client[d]
      /\ \A d \in Len(client) + 1..Len(client) + 1 : client'[d] = r
  BY <1>0, <1>2, SMTT(30)
<1>4. /\ \A a \in DOMAIN portaccount : a # 0 /\ portaccount[a].refcount = portaccount[a].refcount + 0 + 0
      /\ \A u \in DOMAIN udpclient : u # 0 /\ udpclient[u].refcount = udpclient[u].refcount + 0
      /\ inbound_connects = inbound_connects + 0
  <2>1. /\ \A a \in DOMAIN portaccount : a # 0 /\ portaccount[a].refcount \in Nat
        /\ \A u \in DOMAIN udpclient : u # 0 /\ udpclient[u].refcount \in Nat
        /\ inbound_connects \in Int
    <3>1. 0 \notin DOMAIN portaccount /\ 0 \notin DOMAIN udpclient
      BY <1>0, SMTT(30)
    <3> QED
      BY <1>0, <3>1, Each, ZenonT(30) DEF ObjectTypes, Udp
  <2> QED
    BY <2>1, SMTT(30)
<1>5. \A l \in listen_list : /\ l.portaccount # 0
                             /\ portaccount[l.portaccount].gauge = portaccount[l.portaccount].gauge + 0
  <2>1. \A l \in listen_list : l.portaccount \in DOMAIN portaccount
    BY ZenonT(30) DEF ObjectsInv, ObjectsShaped, ListenerShaped
  <2>2. \A l \in listen_list : portaccount[l.portaccount].gauge \in Int
    BY <1>0, <2>1, Each, ZenonT(30)
  <2> QED
    BY <1>4, <2>1, <2>2, SMTT(30)
<1>6. Joined(1, r)
  BY <1>0, <1>1, <1>2, <1>3, <1>4, <1>5, ZenonT(30) DEF Joined
<1> QED
  BY <1>1, <1>6, JoinObjects, ZenonT(30)

(* A sequence with n elements more, all the same. *)
LEMMA Lengthened ==
    ASSUME NEW S, NEW q \in Seq(S), NEW n \in Nat, NEW e \in S
    PROVE  LET d == q \o [i \in 1..n |-> e]
           IN  /\ d \in Seq(S) /\ Len(d) = Len(q) + n
               /\ \A j \in DOMAIN q : d[j] = q[j]
               /\ \A j \in Len(q) + 1..Len(q) + n : d[j] = e
<1> DEFINE t == [i \in 1..n |-> e]
<1>1. t \in Seq(S) /\ Len(t) = n /\ \A i \in 1..n : t[i] = e
  BY SMTT(30)
<1> HIDE DEF t
<1>2. /\ q \o t \in Seq(S) /\ Len(q \o t) = Len(q) + Len(t)
      /\ \A j \in 1..Len(q) + Len(t) : (q \o t)[j] = IF j <= Len(q) THEN q[j] ELSE t[j - Len(q)]
  BY <1>1, SMTT(30)
<1>3. DOMAIN q = 1..Len(q) /\ Len(q) \in Nat
  BY SMTT(30)
<1>4. \A j \in Len(q) + 1..Len(q) + n : (q \o t)[j] = e
  BY <1>1, <1>2, <1>3, SMTT(30)
<1>5. \A j \in DOMAIN q : (q \o t)[j] = q[j]
  BY <1>1, <1>2, <1>3, SMTT(30)
<1> QED
  BY <1>1, <1>2, <1>4, <1>5, ZenonT(30) DEF t

(* peerip_clients_config: every peer refers to the socket and counts as a feed of its accounter. *)
LEMMA PeersConfigKeeps ==
    ASSUME ObjectsInv, ThreadTypes, peerip_clients_config
    PROVE  ObjectsInv'
<1> DEFINE u == client_udp_find("peer")
           n == IF u = 0 THEN 0 ELSE peerip_config
           peer == [client_alloc("corepeer", 0, u) EXCEPT !.udp_port = TRUE]
           none == client_alloc("magic", 0, 0)
           a1 == udpclient[u].portaccount
<1>0. /\ ObjectTypes /\ client \in Seq(Client) /\ portaccount \in Seq(Acc) /\ udpclient \in Seq(Udp)
      /\ UNCHANGED <<listen_list, inbound_connects>>
      /\ client' = client \o [i \in 1..n |-> peer]
  BY ZenonT(30) DEF peerip_clients_config, ObjectsInv, ObjectTypes
<1>1. 0 \in Nat /\ 0 \in 0..Len(portaccount) /\ 0 \in 0..Len(udpclient)
  BY <1>0, SMTT(30)
<1>2. n \in Nat /\ (u # 0 => u \in DOMAIN udpclient /\ udpclient[u].refcount > 0) /\ u \in Nat
  <2>1. peerip_config \in Nat /\ "peer" \in Slot
    BY ZenonT(30) DEF ThreadTypes, ConfigTyped, QueuesTyped, Slot
  <2>2. u # 0 => u \in DOMAIN udpclient /\ udpclient[u].refcount > 0
    BY <1>0, <2>1, FindFinds, ZenonT(30)
  <2> HIDE DEF u
  <2>3. u # 0 => u \in Nat
    BY <1>0, <2>2, SMTT(30)
  <2> QED
    BY <1>1, <2>1, <2>2, <2>3, ZenonT(30)
<1>3. /\ udpclient' = IF n = 0 THEN udpclient ELSE UdpPlus(udpclient, u, n)
      /\ portaccount' = IF n = 0 THEN portaccount ELSE Plus(portaccount, a1, n)
  BY ZenonT(30) DEF peerip_clients_config, UdpPlus, Plus
<1> HIDE DEF u
<1>4. /\ peer \in Client /\ peer.portaccount = 0 /\ peer.udpclient = u /\ peer.udp_port /\ peer.state = "corepeer"
  BY <1>1, <1>2, ZenonT(30) DEF client_alloc, Freed, Client, ClientState
<1>5. /\ none \in Client /\ none.portaccount = 0 /\ none.udpclient = 0 /\ ~none.udp_port /\ none.state = "magic"
  BY <1>1, ZenonT(30) DEF client_alloc, Freed, Client, ClientState
<1> HIDE DEF peer, none
<1>6. /\ client' \in Seq(Client) /\ Len(client') = Len(client) + n
      /\ \A d \in DOMAIN client : client'[d] = client[d]
      /\ \A d \in Len(client) + 1..Len(client) + n : client'[d] = peer
  <2> HIDE DEF n
  <2>1. LET d == client \o [i \in 1..n |-> peer]
        IN  /\ d \in Seq(Client) /\ Len(d) = Len(client) + n
            /\ \A j \in DOMAIN client : d[j] = client[j]
            /\ \A j \in Len(client) + 1..Len(client) + n : d[j] = peer
    BY <1>0, <1>2, <1>4, Lengthened, SMTT(30)
  <2> QED
    BY <1>0, <2>1, ZenonT(30)
<1>7. /\ \A a \in DOMAIN portaccount : a # 0 /\ portaccount[a].refcount \in Nat
      /\ \A v \in DOMAIN udpclient : v # 0 /\ udpclient[v].refcount \in Nat
      /\ inbound_connects = inbound_connects + 0
  <2>1. 0 \notin DOMAIN portaccount /\ 0 \notin DOMAIN udpclient
    BY <1>0, SMTT(30)
  <2>2. inbound_connects \in Int
    BY <1>0, ZenonT(30) DEF ObjectTypes
  <2>3. inbound_connects = inbound_connects + 0
    BY <2>2, SMTT(30)
  <2> QED
    BY <1>0, <2>1, <2>3, Each, ZenonT(30) DEF Udp
<1>8. \A l \in listen_list : /\ l.portaccount \in DOMAIN portaccount
                             /\ portaccount[l.portaccount].gauge = portaccount[l.portaccount].gauge + 0
  <2>1. \A l \in listen_list : l.portaccount \in DOMAIN portaccount
    BY ZenonT(30) DEF ObjectsInv, ObjectsShaped, ListenerShaped
  <2>2. \A l \in listen_list : portaccount[l.portaccount].gauge \in Int
    BY <1>0, <2>1, Each, ZenonT(30)
  <2> QED
    BY <2>1, <2>2, SMTT(30)
<1>9. CASE n = 0
  <2>1. UNCHANGED <<udpclient, portaccount>>
    BY <1>3, <1>9, ZenonT(30)
  <2>2. /\ Len(client') = Len(client) + 0 /\ \A d \in Len(client) + 1..Len(client) + 0 : client'[d] = none
    <3>1. Len(client) \in Nat /\ Len(client') = Len(client) + 0
      BY <1>0, <1>6, <1>9, Each, ZenonT(30)
    <3> QED
      BY <3>1, SMTT(30)
  <2>3. /\ \A a \in DOMAIN portaccount : portaccount[a].refcount = portaccount[a].refcount + 0 + 0
        /\ \A v \in DOMAIN udpclient : udpclient[v].refcount = udpclient[v].refcount + 0
    BY <1>7, SMTT(30)
  <2>4. Joined(0, none)
    BY <1>0, <1>1, <1>5, <1>6, <1>7, <1>8, <2>1, <2>2, <2>3, ZenonT(30) DEF Joined
  <2> QED
    BY <1>1, <2>4, JoinObjects, ZenonT(30)
<1>10. CASE n # 0
  <2>1. u # 0 /\ u \in DOMAIN udpclient /\ udpclient[u].refcount > 0 /\ u \in 0..Len(udpclient)
    <3>1. u # 0 /\ u \in DOMAIN udpclient /\ udpclient[u].refcount > 0
      BY <1>2, <1>10, ZenonT(30)
    <3> QED
      BY <1>0, <3>1, SMTT(30)
  <2>2. a1 \in DOMAIN portaccount
    <3>1. a1 \in 0..Len(portaccount) /\ a1 # 0
      BY <2>1, ZenonT(30) DEF ObjectsInv, ObjectsShaped, UdpShaped
    <3> HIDE DEF a1
    <3> QED
      BY <1>0, <3>1, SMTT(30)
  <2>3. udpclient' = UdpPlus(udpclient, u, n) /\ portaccount' = Plus(portaccount, a1, n)
    BY <1>3, <1>10, ZenonT(30)
  <2> HIDE DEF n
  <2>4. /\ udpclient' \in Seq(Udp) /\ Len(udpclient') = Len(udpclient)
        /\ udpclient'[u].refcount = udpclient[u].refcount + n /\ udpclient'[u].portaccount = udpclient[u].portaccount
        /\ \A v \in DOMAIN udpclient : v # u => udpclient'[v] = udpclient[v]
    BY <1>0, <1>2, <2>1, <2>3, UdpAddOne, ZenonT(30)
  <2>5. /\ portaccount' \in Seq(Acc) /\ Len(portaccount') = Len(portaccount)
        /\ portaccount'[a1].refcount = portaccount[a1].refcount + n
        /\ \A b \in DOMAIN portaccount : b # a1 => portaccount'[b] = portaccount[b]
    <3> HIDE DEF a1
    <3> QED
      BY <1>0, <1>2, <2>2, <2>3, AddOne, ZenonT(30)
  <2>6. ASSUME NEW a \in DOMAIN portaccount
        PROVE  portaccount'[a].refcount = portaccount[a].refcount + 0 + (IF a = a1 THEN n ELSE 0)
    <3> HIDE DEF a1
    <3>1. portaccount[a].refcount \in Nat
      BY <1>7, ZenonT(30)
    <3>2. CASE a = a1
      BY <1>2, <2>5, <3>1, <3>2, SMTT(30)
    <3>3. CASE a # a1
      <4>1. portaccount'[a] = portaccount[a]
        BY <2>5, <3>3, ZenonT(30)
      <4> QED
        BY <3>1, <3>3, <4>1, SMTT(30)
    <3> QED
      BY <3>2, <3>3, ZenonT(30)
  <2>7. ASSUME NEW v \in DOMAIN udpclient
        PROVE  /\ udpclient'[v].refcount = udpclient[v].refcount + (IF v = u THEN n ELSE 0)
               /\ udpclient'[v].portaccount = udpclient[v].portaccount
    <3>1. CASE v = u
      BY <2>4, <3>1, ZenonT(30)
    <3>2. CASE v # u
      <4>1. udpclient'[v] = udpclient[v]
        BY <2>4, <3>2, ZenonT(30)
      <4>2. udpclient[v].refcount = udpclient[v].refcount + 0
        BY <1>7, SMTT(30)
      <4> QED
        BY <3>2, <4>1, <4>2, ZenonT(30)
    <3> QED
      BY <3>1, <3>2, ZenonT(30)
  <2>8. ASSUME NEW l \in listen_list, l.slot = "tcp"
        PROVE  portaccount'[l.portaccount].gauge = portaccount[l.portaccount].gauge + 0 /\ l.portaccount # 0
    <3>1. l.portaccount # a1
      BY <2>1, <2>8, ZenonT(30) DEF ObjectsInv, ObjectsShaped, ListenerShaped
    <3> QED
      BY <1>7, <1>8, <2>5, <3>1, ZenonT(30)
  <2>9. \A a \in DOMAIN portaccount : a # 0
    BY <1>7, ZenonT(30)
  <2>10. \A a \in DOMAIN portaccount :
           portaccount'[a].refcount =
             portaccount[a].refcount + (IF a = peer.portaccount THEN n ELSE 0)
             + (IF peer.udp_port /\ a = udpclient[peer.udpclient].portaccount THEN n ELSE 0)
    BY <1>4, <2>6, <2>9, ZenonT(30)
  <2>11. \A l \in listen_list : l.slot = "tcp" =>
           portaccount'[l.portaccount].gauge =
             portaccount[l.portaccount].gauge + IF l.portaccount = peer.portaccount THEN n ELSE 0
    BY <1>4, <2>8, ZenonT(30)
  <2>12. \A v \in DOMAIN udpclient :
           /\ udpclient'[v].refcount = udpclient[v].refcount + IF v = peer.udpclient THEN n ELSE 0
           /\ udpclient'[v].portaccount = udpclient[v].portaccount
    BY <1>4, <2>7, ZenonT(30)
  <2>13. inbound_connects' = inbound_connects + IF peer.portaccount # 0 THEN n ELSE 0
    BY <1>0, <1>4, <1>7, ZenonT(30)
  <2>14. Joined(n, peer)
    BY <1>0, <1>1, <1>4, <1>6, <2>1, <2>4, <2>5, <2>10, <2>11, <2>12, <2>13, ZenonT(30) DEF Joined
  <2> QED
    BY <1>2, <2>14, JoinObjects, ZenonT(30)
<1> QED
  BY <1>9, <1>10, ZenonT(30)

(* accept_client_for_listener: the client refers to the accounter of its listener and to the socket it may be fed from. *)
LEMMA AcceptedKeeps ==
    ASSUME ObjectsInv, NEW l \in listen_list, l.slot = "tcp", client' = Append(client, Accepted(l)),
           AccountAccepted(l), UNCHANGED listen_list
    PROVE  ObjectsInv'
<1> DEFINE u == client_udp_find("udp")
           a1 == l.portaccount
           r == Accepted(l)
<1>0. /\ ObjectTypes /\ client \in Seq(Client) /\ portaccount \in Seq(Acc) /\ udpclient \in Seq(Udp)
      /\ inbound_connects \in Int /\ l \in Listener /\ a1 \in DOMAIN portaccount
      /\ \A m \in listen_list : m.portaccount \in DOMAIN portaccount
  BY ZenonT(30) DEF ObjectsInv, ObjectTypes, ObjectsShaped, ListenerShaped
<1>1. /\ 0 \in Nat /\ 1 \in Nat /\ 0 \in 0..Len(udpclient) /\ a1 \in Nat /\ a1 # 0 /\ a1 \in 0..Len(portaccount)
  <2> HIDE DEF a1
  <2> QED
    BY <1>0, SMTT(30)
<1>2. (u # 0 => u \in DOMAIN udpclient /\ udpclient[u].refcount > 0) /\ u \in Nat /\ u \in 0..Len(udpclient)
  <2>1. "udp" \in Slot
    BY ZenonT(30) DEF Slot
  <2>2. u # 0 => u \in DOMAIN udpclient /\ udpclient[u].refcount > 0
    BY <1>0, <2>1, FindFinds, ZenonT(30)
  <2> HIDE DEF u
  <2>3. u # 0 => u \in Nat /\ u \in 0..Len(udpclient)
    BY <1>0, <2>2, SMTT(30)
  <2> QED
    BY <1>1, <2>2, <2>3, ZenonT(30)
<1>3. /\ udpclient' = IF u = 0 THEN udpclient ELSE UdpPlus(udpclient, u, 1)
      /\ portaccount' = Plus(portaccount, a1, 1)
      /\ inbound_connects' = inbound_connects + 1
  BY ZenonT(30) DEF AccountAccepted, UdpPlus, Plus, port_accounter_add
<1>4. r = client_alloc("login", a1, u)
  BY ZenonT(30) DEF Accepted
<1> HIDE DEF u, a1, r
<1>5. r \in Client /\ r.portaccount = a1 /\ r.udpclient = u /\ ~r.udp_port /\ r.state = "login"
  BY <1>1, <1>2, <1>4, ZenonT(30) DEF client_alloc, Freed, Client, ClientState
<1>6. /\ client' \in Seq(Client) /\ Len(client') = Len(client) + 1
      /\ \A d \in DOMAIN client : client'[d] = client[d]
      /\ \A d \in Len(client) + 1..Len(client) + 1 : client'[d] = r
  <2>1. client' = Append(client, r)
    BY ZenonT(30) DEF r
  <2> QED
    BY <1>0, <1>5, <2>1, SMTT(30)
<1>7. /\ \A a \in DOMAIN portaccount : portaccount[a].refcount \in Nat /\ portaccount[a].gauge \in Int
      /\ \A v \in DOMAIN udpclient : v # 0 /\ udpclient[v].refcount \in Nat
  <2>1. 0 \notin DOMAIN udpclient
    BY <1>0, SMTT(30)
  <2> QED
    BY <1>0, <2>1, Each, ZenonT(30) DEF Udp
<1>8. /\ portaccount' \in Seq(Acc) /\ Len(portaccount') = Len(portaccount)
      /\ portaccount'[a1].refcount = portaccount[a1].refcount + 1
      /\ portaccount'[a1].gauge = portaccount[a1].gauge + 1
      /\ \A b \in DOMAIN portaccount : b # a1 => portaccount'[b] = portaccount[b]
  BY <1>0, <1>1, <1>3, AddOne, ZenonT(30)
<1>9. ASSUME NEW a \in DOMAIN portaccount
      PROVE  /\ portaccount'[a].refcount = portaccount[a].refcount + (IF a = a1 THEN 1 ELSE 0) + 0
             /\ portaccount'[a].gauge = portaccount[a].gauge + (IF a = a1 THEN 1 ELSE 0)
  <2>1. portaccount[a].refcount \in Nat /\ portaccount[a].gauge \in Int
    BY <1>7, ZenonT(30)
  <2>2. CASE a = a1
    BY <1>8, <2>1, <2>2, SMTT(30)
  <2>3. CASE a # a1
    <3>1. portaccount'[a] = portaccount[a]
      BY <1>8, <2>3, ZenonT(30)
    <3> QED
      BY <2>1, <2>3, <3>1, SMTT(30)
  <2> QED
    BY <2>2, <2>3, ZenonT(30)
<1>10. /\ udpclient' \in Seq(Udp) /\ Len(udpclient') = Len(udpclient)
       /\ \A v \in DOMAIN udpclient :
            /\ udpclient'[v].refcount = udpclient[v].refcount + (IF v = u THEN 1 ELSE 0)
            /\ udpclient'[v].portaccount = udpclient[v].portaccount
  <2>1. CASE u = 0
    <3>1. \A v \in DOMAIN udpclient : udpclient[v].refcount = udpclient[v].refcount + 0
      BY <1>7, SMTT(30)
    <3>2. udpclient' = udpclient
      BY <1>3, <2>1, ZenonT(30)
    <3> QED
      BY <1>0, <1>7, <2>1, <3>1, <3>2, ZenonT(30)
  <2>2. CASE u # 0
    <3>1. udpclient' = UdpPlus(udpclient, u, 1) /\ u \in DOMAIN udpclient
      BY <1>2, <1>3, <2>2, ZenonT(30)
    <3>2. /\ udpclient' \in Seq(Udp) /\ Len(udpclient') = Len(udpclient)
          /\ udpclient'[u].refcount = udpclient[u].refcount + 1 /\ udpclient'[u].portaccount = udpclient[u].portaccount
          /\ \A v \in DOMAIN udpclient : v # u => udpclient'[v] = udpclient[v]
      BY <1>0, <1>1, <3>1, UdpAddOne, ZenonT(30)
    <3>3. ASSUME NEW v \in DOMAIN udpclient
          PROVE  /\ udpclient'[v].refcount = udpclient[v].refcount + (IF v = u THEN 1 ELSE 0)
                 /\ udpclient'[v].portaccount = udpclient[v].portaccount
      <4>1. CASE v = u
        BY <3>2, <4>1, ZenonT(30)
      <4>2. CASE v # u
        <5>1. udpclient'[v] = udpclient[v]
          BY <3>2, <4>2, ZenonT(30)
        <5>2. udpclient[v].refcount = udpclient[v].refcount + 0
          BY <1>7, SMTT(30)
        <5> QED
          BY <4>2, <5>1, <5>2, ZenonT(30)
      <4> QED
        BY <4>1, <4>2, ZenonT(30)
    <3> QED
      BY <3>2, <3>3, ZenonT(30)
  <2> QED
    BY <2>1, <2>2, ZenonT(30)
<1>11. \A a \in DOMAIN portaccount :
         portaccount'[a].refcount =
           portaccount[a].refcount + (IF a = r.portaccount THEN 1 ELSE 0)
           + (IF r.udp_port /\ a = udpclient[r.udpclient].portaccount THEN 1 ELSE 0)
  BY <1>5, <1>9, ZenonT(30)
<1>12. \A m \in listen_list : m.slot = "tcp" =>
         portaccount'[m.portaccount].gauge =
           portaccount[m.portaccount].gauge + IF m.portaccount = r.portaccount THEN 1 ELSE 0
  BY <1>0, <1>5, <1>9, ZenonT(30)
<1>13. /\ \A v \in DOMAIN udpclient :
            /\ udpclient'[v].refcount = udpclient[v].refcount + IF v = r.udpclient THEN 1 ELSE 0
            /\ udpclient'[v].portaccount = udpclient[v].portaccount
       /\ inbound_connects' = inbound_connects + IF r.portaccount # 0 THEN 1 ELSE 0
  BY <1>1, <1>3, <1>5, <1>10, ZenonT(30)
<1>14. Joined(1, r)
  BY <1>1, <1>2, <1>5, <1>6, <1>8, <1>10, <1>11, <1>12, <1>13, ZenonT(30) DEF Joined
<1> QED
  BY <1>1, <1>14, JoinObjects, ZenonT(30)

(* do_accept accounts the client that it hands over, and no other. *)
LEMMA ArrivalKeeps ==
    ASSUME ObjectsInv, NEW l \in listen_list, Arrival(l)
    PROVE  ObjectsInv'
<1>0. UNCHANGED listen_list /\ l.slot = "tcp"
  BY ZenonT(30) DEF Arrival, DoAcceptReject, DoAccept, DoAcceptTlsFails, DoAcceptError, Connect
<1>1. CASE UNCHANGED objectVars
  BY <1>0, <1>1, SameObjects, ZenonT(30)
<1>2. CASE client' = Append(client, Accepted(l)) /\ AccountAccepted(l)
  BY <1>0, <1>2, AcceptedKeeps, ZenonT(30)
<1> QED
  BY <1>1, <1>2, ZenonT(30) DEF Arrival, DoAcceptReject, DoAccept, DoAcceptTlsFails, DoAcceptError

(* What is taken off a queue. *)
LEMMA HeadTail ==
    ASSUME NEW S, NEW q \in Seq(S), q # <<>>
    PROVE  Head(q) \in S /\ Tail(q) \in Seq(S)
  BY SMTT(30)

(* collect_new_clients takes a client over, or closes it at once. *)
LEMMA CollectTcpKeeps ==
    ASSUME ObjectsInv, ThreadTypes, NEW w \in Worker, NEW broken \in BOOLEAN, CollectTcp(w, broken)
    PROVE  ObjectsInv'
<1> DEFINE c == Head(new_clients[w])
<1>0. new_clients[w] # <<>> /\ UNCHANGED listen_list
  BY ZenonT(30) DEF CollectTcp
<1>1. c \in DOMAIN client
  <2>1. new_clients[w] \in Seq(DOMAIN client)
    BY ZenonT(30) DEF ThreadTypes, ConfigTyped, QueuesTyped
  <2> QED
    BY <1>0, <2>1, HeadTail, ZenonT(30)
<1>2. CASE broken
  <2>1. Release(c)
    BY <1>2, ZenonT(30) DEF CollectTcp
  <2> HIDE DEF c
  <2> QED
    BY <1>0, <1>1, <2>1, ReleaseObjects, ZenonT(30)
<1>3. CASE ~broken
  <2>1. client' = [client EXCEPT ![c].xfd = TRUE] /\ UNCHANGED <<portaccount, udpclient, inbound_connects>>
    BY <1>3, ZenonT(30) DEF CollectTcp
  <2> HIDE DEF c
  <2> DEFINE r == [client[c] EXCEPT !.xfd = TRUE]
  <2>2. client[c] \in Client /\ udpclient \in Seq(Udp)
    BY <1>1, Each, ZenonT(30) DEF ObjectsInv, ObjectTypes
  <2>3. /\ client' = Put(client, c, r) /\ r \in Client /\ r.portaccount = client[c].portaccount
        /\ r.udpclient = client[c].udpclient /\ r.udp_port = client[c].udp_port /\ r.state = client[c].state
    BY <2>1, <2>2, ZenonT(30) DEF Put, Client
  <2> HIDE DEF r
  <2> QED
    BY <1>0, <1>1, <2>1, <2>2, <2>3, ChangeOne, ZenonT(30)
<1> QED
  BY <1>2, <1>3, ZenonT(30)

(* corepeer_added: the peer is put into the poll set, or its socket is there already. *)
LEMMA CollectPeerKeeps ==
    ASSUME ObjectsInv, ThreadTypes, 1 \in Worker, CollectPeer
    PROVE  ObjectsInv'
<1> DEFINE c == Head(new_clients[1])
           u == client[c].udpclient
           r == [client[c] EXCEPT !.xfd = ~udpclient[u].polled]
           e == [udpclient[u] EXCEPT !.polled = TRUE]
<1>0. /\ new_clients[1] # <<>> /\ UNCHANGED <<portaccount, listen_list, inbound_connects>>
      /\ client' = [client EXCEPT ![c].xfd = ~udpclient[u].polled]
      /\ udpclient' = [udpclient EXCEPT ![u].polled = TRUE]
  BY ZenonT(30) DEF CollectPeer
<1>1. c \in DOMAIN client
  <2>1. new_clients[1] \in Seq(DOMAIN client)
    BY ZenonT(30) DEF ThreadTypes, ConfigTyped, QueuesTyped
  <2> QED
    BY <1>0, <2>1, HeadTail, ZenonT(30)
<1> HIDE DEF c
<1>2. ObjectTypes /\ udpclient \in Seq(Udp) /\ client[c] \in Client
  BY <1>1, Each, ZenonT(30) DEF ObjectsInv, ObjectTypes
<1>3. /\ client' = Put(client, c, r) /\ r \in Client /\ r.portaccount = client[c].portaccount
      /\ r.udpclient = client[c].udpclient /\ r.udp_port = client[c].udp_port /\ r.state = client[c].state
  BY <1>0, <1>2, ZenonT(30) DEF Put, Client
<1>4. udpclient' = Put(udpclient, u, e)
  BY <1>0, ZenonT(30) DEF Put
<1>5. u \in DOMAIN udpclient => e \in Udp /\ e.portaccount = udpclient[u].portaccount /\ e.refcount = udpclient[u].refcount
  <2>1. u \in DOMAIN udpclient => udpclient[u] \in Udp
    BY <1>2, Each, ZenonT(30)
  <2> QED
    BY <2>1, ZenonT(30) DEF Udp
<1> HIDE DEF r, e, u
<1>6. /\ udpclient' \in Seq(Udp) /\ Len(udpclient') = Len(udpclient) /\ DOMAIN udpclient' = DOMAIN udpclient
      /\ \A v \in DOMAIN udpclient : /\ udpclient'[v].portaccount = udpclient[v].portaccount
                                     /\ udpclient'[v].refcount = udpclient[v].refcount
  <2>1. CASE u \in DOMAIN udpclient
    <3>1. LET d == Put(udpclient, u, e)
          IN  /\ d \in Seq(Udp) /\ Len(d) = Len(udpclient) /\ DOMAIN d = DOMAIN udpclient /\ d[u] = e
              /\ \A j \in DOMAIN udpclient : j # u => d[j] = udpclient[j]
      BY <1>2, <1>5, <2>1, Replaced, SMTT(30)
    <3>2. /\ udpclient' \in Seq(Udp) /\ Len(udpclient') = Len(udpclient) /\ DOMAIN udpclient' = DOMAIN udpclient
          /\ udpclient'[u] = e /\ \A j \in DOMAIN udpclient : j # u => udpclient'[j] = udpclient[j]
      BY <1>4, <3>1, ZenonT(30)
    <3> QED
      BY <1>5, <2>1, <3>2, ZenonT(30)
  <2>2. CASE u \notin DOMAIN udpclient
    <3>1. udpclient' = udpclient
      BY <1>2, <1>4, <2>2, SMTT(30) DEF Put
    <3> QED
      BY <1>2, <3>1, ZenonT(30)
  <2> QED
    BY <2>1, <2>2, ZenonT(30)
<1> QED
  BY <1>0, <1>1, <1>3, <1>6, ChangeOne, ZenonT(30)

(* corepeer_close_all closes the peers one by one, then frees the pseudo client. *)
LEMMA CorepeerCloseKeeps ==
    ASSUME ObjectsInv, ThreadTypes, 1 \in Worker, corepeer_close_all
    PROVE  ObjectsInv'
<1> DEFINE c == Head(new_clients[1])
<1>0. new_clients[1] # <<>> /\ UNCHANGED listen_list /\ client[c].state = "magic"
  BY ZenonT(30) DEF corepeer_close_all
<1>1. c \in DOMAIN client
  <2>1. new_clients[1] \in Seq(DOMAIN client)
    BY ZenonT(30) DEF ThreadTypes, ConfigTyped, QueuesTyped
  <2> QED
    BY <1>0, <2>1, HeadTail, ZenonT(30)
<1>2. CASE corepeers # <<>>
  <2>1. Release(Head(corepeers))
    BY <1>2, ZenonT(30) DEF corepeer_close_all
  <2>2. corepeers \in Seq(DOMAIN client)
    BY ZenonT(30) DEF ThreadTypes, ConfigTyped, QueuesTyped
  <2>3. Head(corepeers) \in DOMAIN client
    BY <1>2, <2>2, HeadTail, ZenonT(30)
  <2> QED
    BY <1>0, <2>1, <2>3, ReleaseObjects, ZenonT(30)
<1>3. CASE corepeers = <<>>
  <2>1. FreeOnly(c) /\ UNCHANGED <<portaccount, inbound_connects>>
    BY <1>3, ZenonT(30) DEF corepeer_close_all
  <2> HIDE DEF c
  <2>2. ObjectTypes /\ udpclient \in Seq(Udp) /\ client[c] \in Client
    BY <1>1, Each, ZenonT(30) DEF ObjectsInv, ObjectTypes
  <2>3. client[c].udpclient = 0 /\ client[c].portaccount = 0 /\ client[c].udp_port = FALSE /\ ~Inport(c)
    <3>1. ~Inport(c) /\ client[c].udp_port \in BOOLEAN
      BY <1>0, <2>2, ZenonT(30) DEF Inport, Client
    <3> QED
      BY <1>0, <1>1, <3>1, ZenonT(30) DEF ObjectsInv, ObjectsShaped, ClientShaped
  <2>4. client' = Put(client, c, Freed) /\ udpclient' = udpclient
    BY <2>1, <2>3, ZenonT(30) DEF FreeOnly, Put, client_udp_free
  <2>5. Freed \in Client /\ Freed.state = "freed" /\ Freed.portaccount = 0 /\ Freed.udpclient = 0 /\ Freed.udp_port = FALSE
    <3>1. 0 \in Nat
      BY SMTT(30)
    <3> QED
      BY <3>1, ZenonT(30) DEF Freed, Client, ClientState
  <2> QED
    BY <1>0, <1>1, <2>1, <2>2, <2>3, <2>4, <2>5, ChangeOne, ZenonT(30)
<1> QED
  BY <1>2, <1>3, ZenonT(30)

(* Login, and client_close. *)
LEMMA ClientStepKeeps ==
    ASSUME ObjectsInv, ThreadTypes, NEW w \in Worker, NEW c \in clients[w],
           (\E feed \in BOOLEAN : Login(w, c, feed)) \/ client_close(w, c)
    PROVE  ObjectsInv'
<1>0. c \in DOMAIN client
  BY ZenonT(30) DEF ThreadTypes, ConfigTyped, QueuesTyped
<1>1. ASSUME NEW feed \in BOOLEAN, Login(w, c, feed) PROVE ObjectsInv'
  <2>1. LoggedIn(c, feed) /\ UNCHANGED <<udpclient, inbound_connects, listen_list>>
    BY <1>1, ZenonT(30) DEF Login, LoggedIn
  <2> QED
    BY <1>0, <2>1, LoginObjects, ZenonT(30)
<1>2. CASE client_close(w, c)
  <2>1. Release(c) /\ UNCHANGED listen_list
    BY <1>2, ZenonT(30) DEF client_close
  <2> QED
    BY <1>0, <2>1, ReleaseObjects, ZenonT(30)
<1> QED
  BY <1>1, <1>2, ZenonT(30)
-----------------------------------------------------------------------------
(***************************************************************************)
(* The queues.                                                             *)
(***************************************************************************)
(* Clients are never renumbered. *)
LEMMA SeqGrows ==
    ASSUME NEW S, NEW T, S \subseteq T, NEW q \in Seq(S)
    PROVE  q \in Seq(T)
  BY SMTT(30)

(* One queue, the clients of one worker and the array of peers change at most. *)
LEMMA QueueStep ==
    ASSUME QueuesTyped, UNCHANGED scenario, DOMAIN client \subseteq DOMAIN client',
           \/ new_clients' = new_clients
           \/ \E w \in Worker, q \in Seq(DOMAIN client') : new_clients' = Put(new_clients, w, q),
           \/ clients' = clients
           \/ \E w \in Worker, S \in SUBSET DOMAIN client' : clients' = Put(clients, w, S),
           corepeers' = corepeers \/ corepeers' \in Seq(DOMAIN client')
    PROVE  QueuesTyped'
<1>0. Worker' = Worker
  BY ZenonT(30) DEF Worker, MaxWorkers
<1>1. corepeers' \in Seq(DOMAIN client')
  BY SeqGrows, ZenonT(30) DEF QueuesTyped
<1>2. \A w \in Worker : new_clients[w] \in Seq(DOMAIN client')
  BY SeqGrows, ZenonT(30) DEF QueuesTyped
<1>3. \A w \in Worker : clients[w] \subseteq DOMAIN client'
  BY ZenonT(30) DEF QueuesTyped
<1>4. DOMAIN new_clients = Worker /\ DOMAIN clients = Worker
  BY ZenonT(30) DEF QueuesTyped
<1>5. DOMAIN new_clients' = Worker /\ \A w \in Worker : new_clients'[w] \in Seq(DOMAIN client')
  BY <1>2, <1>4, ZenonT(30) DEF Put
<1>6. DOMAIN clients' = Worker /\ \A w \in Worker : clients'[w] \subseteq DOMAIN client'
  BY <1>3, <1>4, ZenonT(30) DEF Put
<1> QED
  BY <1>0, <1>1, <1>5, <1>6, ZenonT(30) DEF QueuesTyped

(* The client after the last one. *)
LEMMA ClientAppended ==
    ASSUME ObjectTypes, NEW r, client' = Append(client, r)
    PROVE  DOMAIN client \subseteq DOMAIN client' /\ Len(client) + 1 \in DOMAIN client'
<1>1. client \in Seq(Client)
  BY ZenonT(30) DEF ObjectTypes
<1> QED
  BY <1>1, SMTT(30)

(* A queue with one client more. *)
LEMMA Queued ==
    ASSUME NEW S, NEW T, S \subseteq T, NEW q \in Seq(S), NEW e \in T
    PROVE  Append(q, e) \in Seq(T)
  BY SMTT(30)

(* There is a first worker. *)
LEMMA FirstWorker ==
    ASSUME scenario \in Scenarios
    PROVE  1 \in Worker /\ MaxWorkers \in Nat
<1>1. MaxWorkers \in Nat \ {0}
  BY ConstantsAssumption, ZenonT(30) DEF MaxWorkers
<1> QED
  BY <1>1, SMTT(30) DEF Worker

(* The accept thread puts its clients into a queue of a worker that exists. *)
LEMMA AcceptQueues ==
    ASSUME PortsIInv, AcceptStep \/ (\E l \in listen_list : Arrival(l)), UNCHANGED scenario
    PROVE  QueuesTyped'
<1>0. QueuesTyped /\ ConfigTyped /\ ObjectTypes /\ scenario \in Scenarios
  BY ZenonT(30) DEF PortsIInv, ThreadTypes, ConfigTyped, ObjectsInv
<1>1. 1 \in Worker /\ MaxWorkers \in Nat
  BY <1>0, FirstWorker, ZenonT(30)
<1>2. CASE UNCHANGED <<client, new_clients, clients, corepeers>>
  BY <1>0, <1>2, QueueStep, ZenonT(30)
<1>3. CASE rescan_client_acls
  <2>1. DOMAIN client' = DOMAIN client /\ UNCHANGED <<new_clients, clients, corepeers>>
    BY <1>3, ZenonT(30) DEF rescan_client_acls, workerVars
  <2> QED
    BY <1>0, <2>1, QueueStep, ZenonT(30)
<1>4. CASE WorkerJoined
  <2>1. /\ UNCHANGED <<client, clients, corepeers>> /\ shutting_down
        /\ new_clients' = Put(new_clients, workers_running, <<>>)
    BY <1>4, ZenonT(30) DEF WorkerJoined, objectVars, Put
  <2>2. workers_running \in Worker
    <3>1. workers_running \in 0..MaxWorkers /\ workers_running > 0
      BY <1>0, <2>1, ZenonT(30) DEF ConfigTyped
    <3> QED
      BY <1>1, <3>1, SMTT(30) DEF Worker
  <2>3. <<>> \in Seq(DOMAIN client')
    BY SMTT(30)
  <2> QED
    BY <1>0, <2>1, <2>2, <2>3, QueueStep, ZenonT(30)
<1>5. CASE peerip_clients_close
  <2>1. /\ client' = Append(client, client_alloc("magic", 0, 0)) /\ UNCHANGED <<clients, corepeers>>
        /\ new_clients' = Put(new_clients, 1, Append(new_clients[1], Len(client) + 1))
    BY <1>5, ZenonT(30) DEF peerip_clients_close, pass_client_to_worker, workerVars, Put
  <2>2. DOMAIN client \subseteq DOMAIN client' /\ Len(client) + 1 \in DOMAIN client'
    BY <1>0, <2>1, ClientAppended, ZenonT(30)
  <2>3. Append(new_clients[1], Len(client) + 1) \in Seq(DOMAIN client')
    <3>1. new_clients[1] \in Seq(DOMAIN client)
      BY <1>0, <1>1, ZenonT(30) DEF QueuesTyped
    <3> QED
      BY <2>2, <3>1, Queued, ZenonT(30)
  <2> QED
    BY <1>0, <1>1, <2>1, <2>2, <2>3, QueueStep, ZenonT(30)
<1>6. CASE peerip_clients_config
  <2> DEFINE n == IF client_udp_find("peer") = 0 THEN 0 ELSE peerip_config
             peer == [client_alloc("corepeer", 0, client_udp_find("peer")) EXCEPT !.udp_port = TRUE]
             more == [i \in 1..n |-> Len(client) + i]
  <2>1. /\ client' = client \o [i \in 1..n |-> peer] /\ UNCHANGED <<clients, corepeers>>
        /\ new_clients' = Put(new_clients, 1, new_clients[1] \o more)
    BY <1>6, ZenonT(30) DEF peerip_clients_config, workerVars, Put
  <2>2. n \in Nat
    <3>1. 0 \in Nat /\ peerip_config \in Nat
      BY <1>0, SMTT(30) DEF ConfigTyped
    <3> QED
      BY <3>1, ZenonT(30)
  <2>3. client \in Seq(Client) /\ new_clients[1] \in Seq(DOMAIN client)
    BY <1>0, <1>1, ZenonT(30) DEF ObjectTypes, QueuesTyped
  <2> HIDE DEF n, peer
  <2>4. Len(client') = Len(client) + n /\ DOMAIN client' = 1..Len(client) + n /\ DOMAIN client = 1..Len(client)
        /\ Len(client) \in Nat
    <3>1. [i \in 1..n |-> peer] \in Seq({peer}) /\ Len([i \in 1..n |-> peer]) = n
      BY <2>2, SMTT(30)
    <3> QED
      BY <2>1, <2>2, <2>3, <3>1, SMTT(30)
  <2>5. more \in Seq(DOMAIN client')
    <3>1. \A i \in 1..n : Len(client) + i \in 1..Len(client) + n
      BY <2>2, <2>4, SMTT(30)
    <3>2. more \in [1..n -> 1..Len(client) + n]
      BY <3>1, ZenonT(30)
    <3> HIDE DEF more
    <3> QED
      BY <2>2, <2>4, <3>2, SMTT(30)
  <2> HIDE DEF more
  <2>6. DOMAIN client \subseteq DOMAIN client'
    BY <2>2, <2>4, SMTT(30)
  <2>7. new_clients[1] \in Seq(DOMAIN client')
    BY <2>3, <2>6, SeqGrows, ZenonT(30)
  <2>8. new_clients[1] \o more \in Seq(DOMAIN client')
    BY <2>5, <2>7, SMTT(30)
  <2> QED
    BY <1>0, <1>1, <2>1, <2>6, <2>8, QueueStep, ZenonT(30)
<1>7. ASSUME NEW l \in listen_list, DoAccept(l) PROVE QueuesTyped'
  <2> DEFINE w == pick_next_worker
  <2>1. /\ client' = Append(client, Accepted(l)) /\ UNCHANGED <<clients, corepeers>>
        /\ new_clients' = Put(new_clients, w, Append(new_clients[w], Len(client) + 1))
    BY <1>7, ZenonT(30) DEF DoAccept, Connect, pass_client_to_worker, workerVars, Put
  <2>2. DOMAIN client \subseteq DOMAIN client' /\ Len(client) + 1 \in DOMAIN client'
    BY <1>0, <2>1, ClientAppended, ZenonT(30)
  <2>3. w \in Worker
    <3>1. next_receiving_worker \in 0..MaxWorkers /\ workers_running \in 0..MaxWorkers
      BY <1>0, ZenonT(30) DEF ConfigTyped
    <3> QED
      BY <1>1, <3>1, SMTT(30) DEF Worker, pick_next_worker
  <2> HIDE DEF w
  <2>4. Append(new_clients[w], Len(client) + 1) \in Seq(DOMAIN client')
    <3>1. new_clients[w] \in Seq(DOMAIN client)
      BY <1>0, <2>3, ZenonT(30) DEF QueuesTyped
    <3> QED
      BY <2>2, <3>1, Queued, ZenonT(30)
  <2> QED
    BY <1>0, <2>1, <2>2, <2>3, <2>4, QueueStep, ZenonT(30)
<1>8. ASSUME NEW l \in listen_list, DoAcceptTlsFails(l) PROVE QueuesTyped'
  <2>1. client' = Append(client, Accepted(l)) /\ UNCHANGED <<new_clients, clients, corepeers>>
    BY <1>8, ZenonT(30) DEF DoAcceptTlsFails, Connect, workerVars
  <2>2. DOMAIN client \subseteq DOMAIN client'
    BY <1>0, <2>1, ClientAppended, ZenonT(30)
  <2> QED
    BY <1>0, <2>1, <2>2, QueueStep, ZenonT(30)
<1>9. CASE ReconfigureStart \/ close_removed_listeners \/ open_missing_listeners \/ workers_stop \/ workers_start
  <2>1. UNCHANGED <<client, new_clients, clients, corepeers>>
    BY <1>9, ZenonT(30) DEF ReconfigureStart, close_removed_listeners, open_missing_listeners,
                            workers_stop, workers_start, objectVars, workerVars
  <2> QED
    BY <1>2, <2>1, ZenonT(30)
<1>10. ASSUME NEW l \in listen_list, DoAcceptReject(l) \/ DoAcceptError(l) PROVE QueuesTyped'
  <2>1. UNCHANGED <<client, new_clients, clients, corepeers>>
    BY <1>10, ZenonT(30) DEF DoAcceptReject, DoAcceptError, Connect, objectVars, workerVars
  <2> QED
    BY <1>2, <2>1, ZenonT(30)
<1> QED
  BY <1>3, <1>4, <1>5, <1>6, <1>7, <1>8, <1>9, <1>10, ZenonT(30) DEF AcceptStep, Arrival

(* A worker takes clients off its queue into its list, and off its list. *)
LEMMA WorkerQueues ==
    ASSUME PortsIInv, UNCHANGED scenario, NEW w \in Worker,
           \/ Collect(w)
           \/ \E c \in clients[w] : (\E feed \in BOOLEAN : Login(w, c, feed)) \/ client_close(w, c)
    PROVE  QueuesTyped'
<1>0. QueuesTyped /\ ConfigTyped /\ ObjectTypes /\ scenario \in Scenarios
  BY ZenonT(30) DEF PortsIInv, ThreadTypes, ConfigTyped, ObjectsInv
<1>1. new_clients[w] \in Seq(DOMAIN client) /\ clients[w] \subseteq DOMAIN client /\ corepeers \in Seq(DOMAIN client)
  BY <1>0, ZenonT(30) DEF QueuesTyped
<1>2. ASSUME NEW broken \in BOOLEAN, CollectTcp(w, broken) PROVE QueuesTyped'
  <2> DEFINE c == Head(new_clients[w])
  <2>1. /\ DOMAIN client' = DOMAIN client /\ UNCHANGED corepeers /\ new_clients[w] # <<>>
        /\ new_clients' = Put(new_clients, w, Tail(new_clients[w]))
        /\ clients' = clients \/ clients' = Put(clients, w, clients[w] \cup {c})
    BY <1>2, ZenonT(30) DEF CollectTcp, Release, Put
  <2>2. c \in DOMAIN client /\ Tail(new_clients[w]) \in Seq(DOMAIN client)
    BY <1>1, <2>1, HeadTail, ZenonT(30)
  <2>3. clients[w] \cup {c} \in SUBSET DOMAIN client
    BY <1>1, <2>2, ZenonT(30)
  <2> HIDE DEF c
  <2> QED
    BY <1>0, <2>1, <2>2, <2>3, QueueStep, ZenonT(30)
<1>3. CASE w = 1 /\ CollectPeer
  <2> DEFINE c == Head(new_clients[w])
  <2>1. /\ DOMAIN client' = DOMAIN client /\ new_clients[w] # <<>>
        /\ new_clients' = Put(new_clients, w, Tail(new_clients[w]))
        /\ clients' = Put(clients, w, clients[w] \cup {c})
        /\ corepeers' = Append(corepeers, c)
    BY <1>3, ZenonT(30) DEF CollectPeer, Put
  <2>2. c \in DOMAIN client /\ Tail(new_clients[w]) \in Seq(DOMAIN client)
    BY <1>1, <2>1, HeadTail, ZenonT(30)
  <2>3. clients[w] \cup {c} \in SUBSET DOMAIN client
    BY <1>1, <2>2, ZenonT(30)
  <2> HIDE DEF c
  <2>4. Append(corepeers, c) \in Seq(DOMAIN client)
    BY <1>1, <2>2, SMTT(30)
  <2> QED
    BY <1>0, <2>1, <2>2, <2>3, <2>4, QueueStep, ZenonT(30)
<1>4. CASE w = 1 /\ corepeer_close_all
  <2>1. DOMAIN client' = DOMAIN client /\ new_clients[w] # <<>>
    BY <1>4, ZenonT(30) DEF corepeer_close_all, Release, FreeOnly
  <2>2. CASE corepeers # <<>>
    <3>1. /\ clients' = Put(clients, w, clients[w] \ {Head(corepeers)})
          /\ corepeers' = Tail(corepeers) /\ UNCHANGED new_clients
      BY <1>4, <2>2, ZenonT(30) DEF corepeer_close_all, Put
    <3>2. Tail(corepeers) \in Seq(DOMAIN client)
      BY <1>1, <2>2, HeadTail, ZenonT(30)
    <3>3. clients[w] \ {Head(corepeers)} \in SUBSET DOMAIN client
      BY <1>1, ZenonT(30)
    <3> QED
      BY <1>0, <2>1, <3>1, <3>2, <3>3, QueueStep, ZenonT(30)
  <2>3. CASE corepeers = <<>>
    <3>1. UNCHANGED <<clients, corepeers>> /\ new_clients' = Put(new_clients, w, Tail(new_clients[w]))
      BY <1>4, <2>3, ZenonT(30) DEF corepeer_close_all, Put
    <3>2. Tail(new_clients[w]) \in Seq(DOMAIN client)
      BY <1>1, <2>1, HeadTail, ZenonT(30)
    <3> QED
      BY <1>0, <2>1, <3>1, <3>2, QueueStep, ZenonT(30)
  <2> QED
    BY <2>2, <2>3, ZenonT(30)
<1>5. ASSUME NEW c \in clients[w], NEW feed \in BOOLEAN, Login(w, c, feed) PROVE QueuesTyped'
  <2>1. DOMAIN client' = DOMAIN client /\ UNCHANGED <<new_clients, clients, corepeers>>
    BY <1>5, ZenonT(30) DEF Login, workerVars
  <2> QED
    BY <1>0, <2>1, QueueStep, ZenonT(30)
<1>6. ASSUME NEW c \in clients[w], client_close(w, c) PROVE QueuesTyped'
  <2>1. /\ DOMAIN client' = DOMAIN client /\ UNCHANGED <<new_clients, corepeers>>
        /\ clients' = Put(clients, w, clients[w] \ {c})
    BY <1>6, ZenonT(30) DEF client_close, Release, Put
  <2>2. clients[w] \ {c} \in SUBSET DOMAIN client
    BY <1>1, ZenonT(30)
  <2> QED
    BY <1>0, <2>1, <2>2, QueueStep, ZenonT(30)
<1> QED
  BY <1>2, <1>3, <1>4, <1>5, <1>6, ZenonT(30) DEF Collect

(* The configuration and the number of workers. *)
LEMMA ConfigStep ==
    ASSUME ConfigTyped, Next
    PROVE  ConfigTyped'
<1>0. UNCHANGED scenario /\ Worker' = Worker /\ MaxWorkers' = MaxWorkers /\ MaxWorkers \in Nat /\ 1 \in Worker
  BY FirstWorker, ZenonT(30) DEF Next, Worker, MaxWorkers, ConfigTyped
<1>1. ASSUME NEW cfg \in Configs, NEW n \in Worker, ReadConfig(cfg, n) PROVE ConfigTyped'
  <2>1. cfg.peers \in Nat /\ cfg.deny \in BOOLEAN
    BY ConstantsAssumption, ZenonT(30) DEF Configs, ConfigTyped
  <2>2. last_id \in Nat /\ \A s \in Slot : listen_config[s] \in Nat
    BY ZenonT(30) DEF ConfigTyped
  <2>3. 0 \in Nat /\ last_id + 1 \in Nat /\ last_id + 2 \in Nat /\ last_id + 3 \in Nat
    BY <2>2, SMTT(30)
  <2>4. listen_config' \in [Slot -> Nat]
    <3> DEFINE b(s) == CASE s = "tcp" -> cfg.tcp [] s = "udp" -> cfg.udp [] s = "peer" -> cfg.peers > 0
    <3>1. listen_config' = [s \in Slot |-> ListenId(s, b(s))]
      BY <1>1, ZenonT(30) DEF ReadConfig
    <3>2. \A s \in Slot : ListenId(s, b(s)) \in Nat
      <4> HIDE DEF b
      <4> QED
        BY <2>2, <2>3, ZenonT(30) DEF ListenId, Slot
    <3> QED
      BY <3>1, <3>2, ZenonT(30)
  <2>5. /\ last_id' = last_id + 3 /\ peerip_config' = cfg.peers /\ acl' = cfg.deny /\ workers_configured' = n
        /\ UNCHANGED <<workers_running, shutting_down, next_receiving_worker>>
    BY <1>1, ZenonT(30) DEF ReadConfig, workerVars
  <2> QED
    BY <1>0, <2>1, <2>3, <2>4, <2>5, ZenonT(30) DEF ConfigTyped
<1>2. CASE workers_stop
  <2>1. UNCHANGED <<configVars, workers_running, next_receiving_worker>> /\ workers_running > workers_configured
    BY <1>2, ZenonT(30) DEF workers_stop
  <2>2. workers_running > 0
    <3>1. workers_running \in 0..MaxWorkers /\ workers_configured \in Worker
      BY ZenonT(30) DEF ConfigTyped
    <3> QED
      BY <1>0, <2>1, <3>1, SMTT(30) DEF Worker
  <2> QED
    BY <1>0, <2>1, <2>2, ZenonT(30) DEF ConfigTyped, configVars
<1>3. CASE WorkerJoined
  <2>1. /\ UNCHANGED <<configVars, next_receiving_worker>> /\ workers_running' = workers_running - 1
        /\ shutting_down /\ shutting_down' = FALSE
    BY <1>3, ZenonT(30) DEF WorkerJoined
  <2>2. workers_running - 1 \in 0..MaxWorkers
    <3>1. workers_running \in 0..MaxWorkers /\ workers_running > 0
      BY <2>1, ZenonT(30) DEF ConfigTyped
    <3> QED
      BY <1>0, <3>1, SMTT(30)
  <2> QED
    BY <1>0, <2>1, <2>2, ZenonT(30) DEF ConfigTyped, configVars
<1>4. CASE workers_start
  <2>1. /\ UNCHANGED <<configVars, next_receiving_worker, shutting_down>> /\ ~shutting_down
        /\ \/ workers_running < workers_configured /\ workers_running' = workers_running + 1
           \/ workers_running' = workers_running
    BY <1>4, ZenonT(30) DEF workers_start
  <2>2. workers_running' \in 0..MaxWorkers
    <3>1. workers_running \in 0..MaxWorkers /\ workers_configured \in Worker
      BY ZenonT(30) DEF ConfigTyped
    <3> QED
      BY <1>0, <2>1, <3>1, SMTT(30) DEF Worker
  <2> QED
    BY <1>0, <2>1, <2>2, ZenonT(30) DEF ConfigTyped, configVars
<1>5. ASSUME NEW l \in listen_list, Arrival(l) PROVE ConfigTyped'
  <2>1. /\ UNCHANGED <<configVars, workers_running, shutting_down>>
        /\ next_receiving_worker' \in {next_receiving_worker, pick_next_worker}
    BY <1>5, ZenonT(30) DEF Arrival, DoAcceptReject, DoAccept, DoAcceptTlsFails, DoAcceptError, Connect, workerVars
  <2>2. next_receiving_worker' \in 0..MaxWorkers
    <3>1. next_receiving_worker \in 0..MaxWorkers /\ workers_running \in 0..MaxWorkers
      BY ZenonT(30) DEF ConfigTyped
    <3>2. pick_next_worker \in 0..MaxWorkers
      BY <1>0, <3>1, SMTT(30) DEF Worker, pick_next_worker
    <3> QED
      BY <2>1, <3>1, <3>2, ZenonT(30)
  <2> QED
    BY <1>0, <2>1, <2>2, ZenonT(30) DEF ConfigTyped, configVars
<1>6. CASE UNCHANGED <<configVars, workers_running, shutting_down, next_receiving_worker>>
  BY <1>0, <1>6, ZenonT(30) DEF ConfigTyped, configVars
<1>7. CASE ReconfigureStart \/ close_removed_listeners \/ open_missing_listeners \/ rescan_client_acls
           \/ peerip_clients_close \/ peerip_clients_config
  <2>1. UNCHANGED <<configVars, workers_running, shutting_down, next_receiving_worker>>
    BY <1>7, ZenonT(30) DEF ReconfigureStart, close_removed_listeners, open_missing_listeners, rescan_client_acls,
                            peerip_clients_close, peerip_clients_config, workerVars
  <2> QED
    BY <1>6, <2>1, ZenonT(30)
<1>8. ASSUME NEW w \in Worker, Collect(w) PROVE ConfigTyped'
  <2>1. UNCHANGED <<configVars, workers_running, shutting_down, next_receiving_worker>>
    BY <1>8, ZenonT(30) DEF Collect, CollectTcp, CollectPeer, corepeer_close_all
  <2> QED
    BY <1>6, <2>1, ZenonT(30)
<1>9. ASSUME NEW w \in Worker, NEW c \in clients[w], (\E feed \in BOOLEAN : Login(w, c, feed)) \/ client_close(w, c)
      PROVE  ConfigTyped'
  <2>1. UNCHANGED <<configVars, workers_running, shutting_down, next_receiving_worker>>
    BY <1>9, ZenonT(30) DEF Login, client_close, workerVars
  <2> QED
    BY <1>6, <2>1, ZenonT(30)
<1> QED
  BY <1>1, <1>2, <1>3, <1>4, <1>5, <1>7, <1>8, <1>9, ZenonT(30) DEF Next, Step, AcceptStep
-----------------------------------------------------------------------------
(* At program start nothing is open. *)
LEMMA PortsInit ==
    ASSUME Init
    PROVE  PortsIInv
<1>0. /\ scenario \in Scenarios /\ listen_list = {} /\ inbound_connects = 0
      /\ portaccount = <<>> /\ udpclient = <<>> /\ client = <<>>
      /\ new_clients = [w \in Worker |-> <<>>] /\ clients = [w \in Worker |-> {}] /\ corepeers = <<>>
      /\ workers_configured \in Worker /\ workers_running = 0 /\ next_receiving_worker = 0
      /\ shutting_down = FALSE /\ last_id = 3
  BY ZenonT(30) DEF Init
<1>1. 1 \in Worker /\ MaxWorkers \in Nat
  BY <1>0, FirstWorker, ZenonT(30)
<1>2. 0 \in 0..MaxWorkers /\ 0 \in Nat /\ 1 \in Nat /\ 2 \in Nat /\ 3 \in Nat /\ 0 \in Int
  BY <1>1, SMTT(30)
<1>3. DOMAIN <<>> = {} /\ \A S : <<>> \in Seq(S)
  BY SMTT(30)
<1>4. QueuesTyped
  BY <1>0, <1>3, ZenonT(30) DEF QueuesTyped
<1>5. ConfigTyped
  <2>1. PICK cfg \in Configs :
          /\ listen_config = [s \in Slot |->
                 CASE s = "tcp" -> IF cfg.tcp THEN 1 ELSE 0
                   [] s = "udp" -> IF cfg.udp THEN 2 ELSE 0
                   [] s = "peer" -> IF cfg.peers > 0 THEN 3 ELSE 0]
          /\ peerip_config = cfg.peers /\ acl = cfg.deny
    BY ZenonT(30) DEF Init
  <2>2. cfg.peers \in Nat /\ cfg.deny \in BOOLEAN
    BY <1>0, ConstantsAssumption, ZenonT(30) DEF Configs
  <2>3. listen_config \in [Slot -> Nat]
    <3> DEFINE k(s) == CASE s = "tcp" -> IF cfg.tcp THEN 1 ELSE 0
                         [] s = "udp" -> IF cfg.udp THEN 2 ELSE 0
                         [] s = "peer" -> IF cfg.peers > 0 THEN 3 ELSE 0
    <3>1. \A s \in Slot : k(s) \in Nat
      BY <1>2, ZenonT(30) DEF Slot
    <3>2. listen_config = [s \in Slot |-> k(s)]
      BY <2>1, ZenonT(30)
    <3> HIDE DEF k
    <3> QED
      BY <3>1, <3>2, ZenonT(30)
  <2> QED
    BY <1>0, <1>2, <2>1, <2>2, <2>3, ZenonT(30) DEF ConfigTyped
<1>6. ObjectTypes /\ ObjectsShaped
  BY <1>0, <1>2, <1>3, ZenonT(30) DEF ObjectTypes, ObjectsShaped
<1>7. RefsExact
  BY <1>0, <1>3, ZenonT(30) DEF RefsExact
<1>8. GaugeExact
  <2>1. {c \in DOMAIN client : Inport(c)} = {}
    BY <1>0, <1>3, ZenonT(30)
  <2>2. Cardinality({c \in DOMAIN client : Inport(c)}) = 0
    BY <2>1, FS_EmptySet, ZenonT(30)
  <2> QED
    BY <1>0, <2>2, ZenonT(30) DEF GaugeExact
<1> QED
  BY <1>4, <1>5, <1>6, <1>7, <1>8, ZenonT(30) DEF PortsIInv, ThreadTypes, ObjectsInv

(* Every step of every thread keeps the counts. *)
LEMMA PortsNext ==
    ASSUME PortsIInv, Next
    PROVE  PortsIInv'
<1>0. ObjectsInv /\ ThreadTypes /\ ConfigTyped /\ QueuesTyped /\ UNCHANGED scenario /\ Step /\ ObjectTypes
  BY ZenonT(30) DEF PortsIInv, ThreadTypes, ObjectsInv, Next
<1>1. ConfigTyped'
  BY <1>0, ConfigStep, ZenonT(30)
<1>2. 1 \in Worker
  BY <1>0, FirstWorker, ZenonT(30) DEF ConfigTyped
<1>3. ASSUME NEW cfg \in Configs, NEW n \in Worker, ReadConfig(cfg, n) PROVE ObjectsInv' /\ QueuesTyped'
  <2>1. UNCHANGED <<objectVars, listen_list, client, new_clients, clients, corepeers>>
    BY <1>3, ZenonT(30) DEF ReadConfig, objectVars, workerVars
  <2> QED
    BY <1>0, <2>1, SameObjects, QueueStep, ZenonT(30)
<1>4. ObjectsInv'
  <2>1. CASE AcceptStep
    <3>1. CASE ReconfigureStart \/ workers_stop \/ WorkerJoined \/ workers_start
      <4>1. UNCHANGED <<objectVars, listen_list>>
        BY <3>1, ZenonT(30) DEF ReconfigureStart, workers_stop, WorkerJoined, workers_start
      <4> QED
        BY <1>0, <4>1, SameObjects, ZenonT(30)
    <3> QED
      BY <1>0, <2>1, <3>1, CloseRemovedKeeps, OpenMissingKeeps, RescanKeeps, PeersCloseKeeps, PeersConfigKeeps,
         ZenonT(30) DEF AcceptStep
  <2>2. CASE \E l \in listen_list : Arrival(l)
    BY <1>0, <2>2, ArrivalKeeps, ZenonT(30)
  <2>3. CASE \E w \in Worker : Collect(w)
    BY <1>0, <1>2, <2>3, CollectTcpKeeps, CollectPeerKeeps, CorepeerCloseKeeps, ZenonT(30) DEF Collect
  <2>4. CASE \E w \in Worker : \E c \in clients[w] : (\E feed \in BOOLEAN : Login(w, c, feed)) \/ client_close(w, c)
    BY <1>0, <2>4, ClientStepKeeps, ZenonT(30)
  <2> QED
    BY <1>0, <1>3, <2>1, <2>2, <2>3, <2>4, ZenonT(30) DEF Step
<1>5. QueuesTyped'
  <2>1. CASE AcceptStep \/ \E l \in listen_list : Arrival(l)
    BY <1>0, <2>1, AcceptQueues, ZenonT(30)
  <2>2. CASE \E w \in Worker : \/ Collect(w)
                               \/ \E c \in clients[w] : (\E feed \in BOOLEAN : Login(w, c, feed)) \/ client_close(w, c)
    BY <1>0, <2>2, WorkerQueues, ZenonT(30)
  <2> QED
    BY <1>0, <1>3, <2>1, <2>2, ZenonT(30) DEF Step
<1> QED
  BY <1>1, <1>4, <1>5, ZenonT(30) DEF PortsIInv, ThreadTypes

(***************************************************************************)
(* The shared objects are counted right for every number of workers,       *)
(* reloads, connections and peers: an accounter or a UDP socket is freed   *)
(* by the last of its users and not before, whichever thread drops it      *)
(* (port_accounter_drop, client_udp_free), and the gauges that do_accept   *)
(* compares with the limits are the numbers of clients not yet freed.      *)
(***************************************************************************)
THEOREM PortsInvariant == Spec => []PortsIInv
<1>1. Init => PortsIInv
  BY PortsInit, ZenonT(30)
<1>2. PortsIInv /\ [Next]_<<scenario, vars>> => PortsIInv'
  <2>1. CASE Next
    BY <2>1, PortsNext, ZenonT(30)
  <2>2. ASSUME PortsIInv, UNCHANGED <<scenario, vars>> PROVE PortsIInv'
    <3>1. UNCHANGED <<scenario, configVars, objectVars, listen_list, client, new_clients, clients, corepeers,
                      workers_running, shutting_down, next_receiving_worker>>
      BY <2>2, ZenonT(30) DEF vars, objectVars, workerVars
    <3>2. ObjectsInv' /\ QueuesTyped'
      BY <2>2, <3>1, SameObjects, QueueStep, ZenonT(30) DEF PortsIInv, ThreadTypes
    <3>3. ConfigTyped'
      BY <2>2, <3>1, ZenonT(30) DEF PortsIInv, ThreadTypes, ConfigTyped, configVars, Worker, MaxWorkers
    <3> QED
      BY <3>2, <3>3, ZenonT(30) DEF PortsIInv, ThreadTypes
  <2> QED
    BY <2>1, <2>2, ZenonT(30)
<1> QED
  BY <1>1, <1>2, PTL DEF Spec

(* RefsExact in every reachable state: no object is freed in use, none is left over. *)
THEOREM RefsAlwaysExact == Spec => []RefsExact
<1>1. PortsIInv => RefsExact
  BY ZenonT(30) DEF PortsIInv, ObjectsInv
<1> QED
  BY <1>1, PortsInvariant, PTL

(* GaugeExact in every reachable state: the limits of do_accept are compared with the real numbers. *)
THEOREM GaugesAlwaysExact == Spec => []GaugeExact
<1>1. PortsIInv => GaugeExact
  BY ZenonT(30) DEF PortsIInv, ObjectsInv
<1> QED
  BY <1>1, PortsInvariant, PTL
=============================================================================
