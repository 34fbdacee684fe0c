-------------------------- MODULE BierNetworkProofs --------------------------
(***************************************************************************)
(* Type correctness of BierNetwork, and for every topology and all tables, *)
(* also ones that contradict each other or lead in a circle: copies that   *)
(* exist at one time are for different hosts, no host gets the packet      *)
(* twice, and where every port of a table leads to a switch no host is     *)
(* forgotten.  Where the tables lead the packet along a tree no link       *)
(* carries it twice, and tables of the form of the committed ones do, on a *)
(* ring of any size.                                                       *)
(***************************************************************************)
EXTENDS MCBierNetwork, TLAPS, FiniteSetTheorems

(***************************************************************************)
(* Ports.                                                                  *)
(***************************************************************************)

\* The links of a network are counted from 1 and join its switches.
LEMMA LinksShape ==
    ASSUME net \in Networks
    PROVE  /\ net.hosts \in Nat
           /\ \A l \in DOMAIN net.links :
                  l \in Nat \ {0} /\ net.links[l] \in Switches(net) \X Switches(net)
<1>1. net.hosts \in Nat /\ net.links \in Seq(Switches(net) \X Switches(net))
    BY NetworksAssumption
<1>2. DOMAIN net.links = 1 .. Len(net.links) /\ Len(net.links) \in Nat
    BY <1>1
<1>3. \A l \in 1 .. Len(net.links) : net.links[l] \in Switches(net) \X Switches(net)
    BY <1>1
<1>. QED BY <1>1, <1>2, <1>3

\* The two ends of a link are switches, and it has one far end.
LEMMA EndsAreSwitches ==
    ASSUME net \in Networks, NEW l \in DOMAIN net.links
    PROVE  /\ Ends(net.links[l]) \subseteq Switches(net)
           /\ \A s \in Ends(net.links[l]) :
                  \A t, u \in Ends(net.links[l]) \ {s} : t = u
<1>1. net.links[l] \in Switches(net) \X Switches(net)
    BY LinksShape
<1>. QED BY <1>1 DEF Ends

\* The links of s up to link m are finitely many.
LinksUpTo(s, m) == {i \in 1 .. m : s \in Ends(net.links[i])}

LEMMA UpToFinite ==
    ASSUME NEW s, NEW m \in Nat
    PROVE  IsFiniteSet(LinksUpTo(s, m)) /\ Cardinality(LinksUpTo(s, m)) \in Nat
<1>1. IsFiniteSet(1 .. m)
    BY FS_Interval
<1>2. LinksUpTo(s, m) \subseteq 1 .. m
    BY DEF LinksUpTo
<1>3. IsFiniteSet(LinksUpTo(s, m))
    BY <1>1, <1>2, FS_Subset
<1>. QED BY <1>3, FS_CardinalityType

LEMMA PortOnUpTo ==
    ASSUME NEW s, NEW m
    PROVE  PortOn(net.links, net.hosts, s, m) = net.hosts + Cardinality(LinksUpTo(s, m))
BY DEF PortOn, LinksUpTo

\* A later link of a switch has a higher port.
LEMMA PortsAscend ==
    ASSUME net \in Networks, NEW s, NEW l \in DOMAIN net.links,
           NEW m \in DOMAIN net.links, l < m, s \in Ends(net.links[m])
    PROVE  PortOn(net.links, net.hosts, s, l) # PortOn(net.links, net.hosts, s, m)
<1>. DEFINE Low == LinksUpTo(s, l)
            High == LinksUpTo(s, m)
<1>1. l \in Nat \ {0} /\ m \in Nat \ {0} /\ net.hosts \in Nat
    BY LinksShape
<1>2. Low \subseteq High /\ m \in High /\ m \notin Low
    BY <1>1 DEF LinksUpTo
<1>3. /\ IsFiniteSet(High)
      /\ Cardinality(High) \in Nat /\ Cardinality(Low) \in Nat
    BY <1>1, UpToFinite
<1>. HIDE DEF Low, High
<1>4. Low # High
    BY <1>2
<1>5. Cardinality(Low) < Cardinality(High)
    BY <1>2, <1>3, <1>4, FS_Subset
<1>6. net.hosts + Cardinality(Low) # net.hosts + Cardinality(High)
    BY <1>1, <1>3, <1>5
<1>. QED BY <1>6, PortOnUpTo DEF Low, High

\* Behind a port is one switch at most.
LEMMA OnePeer ==
    ASSUME net \in Networks, NEW s, NEW p
    PROVE  /\ Peers(net.links, net.hosts, s, p) \subseteq Switches(net)
           /\ \A t, u \in Peers(net.links, net.hosts, s, p) : t = u
<1>. DEFINE at == LinkAt(net.links, net.hosts, s, p)
<1>1. \A l \in at : /\ l \in DOMAIN net.links
                    /\ s \in Ends(net.links[l])
                    /\ PortOn(net.links, net.hosts, s, l) = p
    BY DEF LinkAt
<1>2. \A l \in at : l \in Nat
    BY <1>1, LinksShape
<1>. HIDE DEF at
<1>3. \A l, m \in at : ~(l < m)
  <2> SUFFICES ASSUME NEW l \in at, NEW m \in at, l < m PROVE FALSE
    OBVIOUS
  <2>1. /\ PortOn(net.links, net.hosts, s, l) # PortOn(net.links, net.hosts, s, m)
    BY <1>1, PortsAscend
  <2> QED BY <1>1, <2>1
<1>4. \A l, m \in at : l = m
    BY <1>2, <1>3
<1>5. Peers(net.links, net.hosts, s, p) = UNION {Ends(net.links[l]) \ {s} : l \in at}
    BY DEF Peers, at
<1>6. \A t \in Peers(net.links, net.hosts, s, p) :
          \E l \in at : t \in Ends(net.links[l]) \ {s}
    BY <1>5
<1>7. Peers(net.links, net.hosts, s, p) \subseteq Switches(net)
    BY <1>1, <1>6, EndsAreSwitches
<1>8. ASSUME NEW t \in Peers(net.links, net.hosts, s, p),
             NEW u \in Peers(net.links, net.hosts, s, p)
      PROVE  t = u
  <2>1. PICK l \in at : t \in Ends(net.links[l]) \ {s} /\ u \in Ends(net.links[l]) \ {s}
    BY <1>4, <1>6
  <2> QED BY <1>1, <2>1, EndsAreSwitches
<1>. QED BY <1>7, <1>8

(***************************************************************************)
(* Type correctness.                                                       *)
(***************************************************************************)

\* What a step puts in the place of copy c.
Split(c, new) ==
    /\ copies' = (copies \ {c}) \cup new
    /\ new \subseteq Copy
    /\ \A d \in new : d.todo \subseteq c.todo
    /\ \A d, e \in new : d # e => d.todo \cap e.todo = {}

\* What is left of a copy is a copy.
LEMMA LeftShape ==
    ASSUME NEW c \in Copy, NEW bits, NEW d \in Left(c, bits)
    PROVE  d \in Copy /\ d.todo = c.todo \ bits
BY DEF Left, Copy

LEMMA CountType ==
    ASSUME NEW k \in 0 .. 2
    PROVE  Count(k) \in 0 .. 2
BY DEF Count

LEMMA DeliverSplits ==
    ASSUME TypeOK, NEW c \in copies, Deliver(c)
    PROVE  Split(c, Left(c, {c.at}))
<1>1. c \in Copy
    BY DEF TypeOK
<1>2. \A d, e \in Left(c, {c.at}) : d = e
    BY DEF Left
<1>3. copies' = (copies \ {c}) \cup Left(c, {c.at})
    BY DEF Deliver
<1>4. \A d \in Left(c, {c.at}) : d \in Copy /\ d.todo \subseteq c.todo
    BY <1>1, LeftShape
<1>. QED BY <1>2, <1>3, <1>4 DEF Split

\* The switch behind the port that copy c takes for bit k.
There(c, k) == Peers(net.links, net.hosts, c.at, net.bift[c.at][k].nbr_port)

LEMMA ForwardSplits ==
    ASSUME TypeOK, NEW c \in copies, NEW k, Forward(c, k)
    PROVE  Split(c, Left(c, net.bift[c.at][k].f_bm)
                    \cup [at : There(c, k), todo : {c.todo \cap net.bift[c.at][k].f_bm}])
<1>. DEFINE f == net.bift[c.at][k].f_bm
            sent == [at : There(c, k), todo : {c.todo \cap f}]
<1>1. c \in Copy /\ c.todo \in SUBSET Bits(net) /\ net \in Networks
    BY DEF TypeOK, Copy
<1>2. There(c, k) \subseteq Switches(net) /\ \A t, u \in There(c, k) : t = u
    BY <1>1, OnePeer DEF There
<1>3. /\ sent \subseteq Copy
      /\ \A d \in sent : d.todo = c.todo \cap f
      /\ \A d, e \in sent : d = e
    BY <1>1, <1>2 DEF Copy
<1>4. \A d \in Left(c, f) : d \in Copy /\ d.todo = c.todo \ f
    BY <1>1, LeftShape
<1>5. \A d, e \in Left(c, f) : d = e
    BY DEF Left
<1>6. copies' = (copies \ {c}) \cup (Left(c, f) \cup sent)
    BY DEF Forward, There
<1>. HIDE DEF f, sent
<1>7. \A d \in Left(c, f) \cup sent : d \in Copy /\ d.todo \subseteq c.todo
    BY <1>3, <1>4
<1>8. \A d, e \in Left(c, f) \cup sent : d # e => d.todo \cap e.todo = {}
    BY <1>3, <1>4, <1>5
<1>9. Split(c, Left(c, f) \cup sent)
    BY <1>6, <1>7, <1>8 DEF Split
<1>. QED BY <1>9 DEF f, sent

\* A copy that leaves the domain is replaced by none.
LEMMA GoneSplits ==
    ASSUME NEW c \in copies, GiveUp(c) \/ Lose(c)
    PROVE  Split(c, {}) /\ lost' = Append(lost, c.todo)
                        /\ UNCHANGED <<net, want, got, carried>>
BY DEF GiveUp, Lose, Split

LEMMA NextKeepsTypes ==
    ASSUME TypeOK, [Next]_vars
    PROVE  TypeOK'
<1>1. ASSUME NEW c \in copies, Deliver(c) PROVE TypeOK'
  <2>1. Split(c, Left(c, {c.at}))
    BY <1>1, DeliverSplits
  <2>2. net' = net /\ want' = want /\ carried' = carried /\ lost' = lost
    BY <1>1 DEF Deliver
  <2>3. copies' \subseteq Copy
    BY <2>1 DEF Split, TypeOK
  <2>4. got' \in [Switches(net) -> 0 .. 2]
    BY <1>1, CountType DEF Deliver, TypeOK
  <2> QED BY <2>2, <2>3, <2>4 DEF TypeOK, Copy
<1>2. ASSUME NEW c \in copies, NEW k, Forward(c, k) PROVE TypeOK'
  <2>2. net' = net /\ want' = want /\ got' = got /\ lost' = lost
    BY <1>2 DEF Forward
  <2>3. copies' \subseteq Copy
    BY <1>2, ForwardSplits DEF Split, TypeOK
  <2>4. carried' \in [Switches(net) \X Switches(net) -> 0 .. 2]
    BY <1>2, CountType DEF Forward, TypeOK
  <2> QED BY <2>2, <2>3, <2>4 DEF TypeOK, Copy
<1>3. ASSUME NEW c \in copies, GiveUp(c) \/ Lose(c) PROVE TypeOK'
  <2>1. Split(c, {}) /\ lost' = Append(lost, c.todo)
        /\ UNCHANGED <<net, want, got, carried>>
    BY <1>3, GoneSplits
  <2>2. lost' \in Seq(SUBSET Bits(net))
    BY <2>1 DEF TypeOK, Copy
  <2> QED BY <2>1, <2>2 DEF Split, TypeOK, Copy
<1>4. CASE UNCHANGED vars
    BY <1>4 DEF vars, TypeOK, Copy
<1>. QED BY <1>1, <1>2, <1>3, <1>4 DEF Next, Serve

LEMMA InitTypes == Init => TypeOK
BY DEF Init, TypeOK, Copy

\* The types, for every topology and all tables: a copy is always with a switch
\* of the network, whatever port a table names.
THEOREM TypeCorrect == Spec => []TypeOK
BY InitTypes, NextKeepsTypes, PTL DEF Spec
(***************************************************************************)
(* What the copies are for.                                                *)
(***************************************************************************)

(* Copies are for different hosts, hosts that were asked for and not yet   *)
(* served.                                                                 *)
Apart ==
    /\ \A c, d \in copies : c # d => c.todo \cap d.todo = {}
    /\ \A c \in copies : c.todo \subseteq want
    /\ \A c \in copies : \A s \in c.todo \cap Switches(net) : got[s] = 0

IInv == TypeOK /\ Apart /\ AtMostOncePerHost

\* A copy may be split as long as each part goes to one place.
LEMMA SplitKeepsApart ==
    ASSUME Apart, NEW c \in copies, NEW new, Split(c, new)
    PROVE  /\ \A d, e \in copies' : d # e => d.todo \cap e.todo = {}
           /\ \A d \in copies' : \E e \in copies : d.todo \subseteq e.todo
<1>1. \A d \in copies' : d \in copies \ {c} \/ d \in new
    BY DEF Split
<1>2. \A d \in new : d.todo \subseteq c.todo
    BY DEF Split
<1>3. ASSUME NEW d \in copies', NEW e \in copies', d # e
      PROVE  d.todo \cap e.todo = {}
  <2>1. CASE d \in copies \ {c} /\ e \in copies \ {c}
    BY <1>3, <2>1 DEF Apart
  <2>2. CASE d \in copies \ {c} /\ e \in new
    <3>1. d.todo \cap c.todo = {}
      BY <2>2 DEF Apart
    <3> QED BY <1>2, <2>2, <3>1
  <2>3. CASE d \in new /\ e \in copies \ {c}
    <3>1. e.todo \cap c.todo = {}
      BY <2>3 DEF Apart
    <3> QED BY <1>2, <2>3, <3>1
  <2>4. CASE d \in new /\ e \in new
    BY <1>3, <2>4 DEF Split
  <2> QED BY <1>1, <2>1, <2>2, <2>3, <2>4
<1>. QED BY <1>1, <1>2, <1>3

LEMMA InitIInv == Init => IInv
<1> SUFFICES ASSUME Init PROVE IInv
    OBVIOUS
<1>1. TypeOK
    BY InitTypes
<1>2. \A s \in Switches(net) : got[s] = 0
    BY DEF Init
<1>3. \E s : copies = {[at |-> s, todo |-> want]}
    BY DEF Init
<1>. QED BY <1>1, <1>2, <1>3 DEF IInv, Apart, AtMostOncePerHost

\* A step that hands nothing to a host.
LEMMA QuietStep ==
    ASSUME Apart, AtMostOncePerHost, NEW c \in copies, NEW new, Split(c, new),
           UNCHANGED <<net, want, got>>
    PROVE  Apart' /\ AtMostOncePerHost'
<1>1. /\ \A d, e \in copies' : d # e => d.todo \cap e.todo = {}
      /\ \A d \in copies' : \E e \in copies : d.todo \subseteq e.todo
    BY SplitKeepsApart
<1>2. Apart'
    BY <1>1 DEF Apart
<1>. QED BY <1>2 DEF AtMostOncePerHost

LEMMA DeliverKeeps ==
    ASSUME IInv, NEW c \in copies, Deliver(c)
    PROVE  Apart' /\ AtMostOncePerHost'
<1>. DEFINE rest == Left(c, {c.at})
<1>1. /\ c \in Copy /\ c.at \in Switches(net) /\ c.at \in c.todo
      /\ got \in [Switches(net) -> 0 .. 2]
    BY DEF IInv, TypeOK, Copy, Deliver
<1>2. got[c.at] = 0 /\ c.at \in want
    BY <1>1 DEF IInv, Apart
<1>3. net' = net /\ want' = want /\ got' = [got EXCEPT ![c.at] = 1]
    BY <1>2 DEF Deliver, Count
<1>4. Split(c, rest)
    BY DeliverSplits DEF IInv
<1>5. \A d \in rest : d.todo = c.todo \ {c.at}
    BY <1>1, LeftShape
<1>6. copies' = (copies \ {c}) \cup rest
    BY DEF Deliver
<1>7. \A d \in copies' : c.at \notin d.todo
  <2>1. \A d \in copies \ {c} : d.todo \cap c.todo = {}
    BY DEF IInv, Apart
  <2> QED BY <1>1, <1>5, <1>6, <2>1
<1>8. /\ \A d, e \in copies' : d # e => d.todo \cap e.todo = {}
      /\ \A d \in copies' : \E e \in copies : d.todo \subseteq e.todo
    BY <1>4, SplitKeepsApart DEF IInv
<1>. HIDE DEF rest
<1>9. \A s \in Switches(net) : got'[s] = IF s = c.at THEN 1 ELSE got[s]
    BY <1>1, <1>3
<1>10. Apart'
  <2>1. \A d \in copies' : d.todo \subseteq want
    BY <1>8 DEF IInv, Apart
  <2>2. \A d \in copies' : \A s \in d.todo \cap Switches(net) : got'[s] = 0
    BY <1>7, <1>8, <1>9 DEF IInv, Apart
  <2> QED BY <1>3, <1>8, <2>1, <2>2 DEF Apart
<1>11. AtMostOncePerHost'
    BY <1>2, <1>3, <1>9 DEF IInv, AtMostOncePerHost
<1>. QED BY <1>10, <1>11

LEMMA NextKeepsIInv ==
    ASSUME IInv, [Next]_vars
    PROVE  IInv'
<1>1. TypeOK'
    BY NextKeepsTypes DEF IInv
<1>2. ASSUME NEW c \in copies, Deliver(c) PROVE Apart' /\ AtMostOncePerHost'
    BY <1>2, DeliverKeeps
<1>3. ASSUME NEW c \in copies, NEW k, Forward(c, k) PROVE Apart' /\ AtMostOncePerHost'
  <2>1. UNCHANGED <<net, want, got>>
    BY <1>3 DEF Forward
  <2>2. \E new : Split(c, new)
    BY <1>3, ForwardSplits DEF IInv
  <2> QED BY <2>1, <2>2, QuietStep DEF IInv
<1>4. ASSUME NEW c \in copies, GiveUp(c) \/ Lose(c) PROVE Apart' /\ AtMostOncePerHost'
    BY <1>4, GoneSplits, QuietStep DEF IInv
<1>5. ASSUME UNCHANGED vars PROVE Apart' /\ AtMostOncePerHost'
  <2>1. UNCHANGED <<net, want, copies, got>>
    BY <1>5 DEF vars
  <2> QED BY <2>1 DEF IInv, Apart, AtMostOncePerHost
<1>6. Apart' /\ AtMostOncePerHost'
    BY <1>2, <1>3, <1>4, <1>5 DEF Next, Serve
<1>. QED BY <1>1, <1>6 DEF IInv

LEMMA Invariance == Spec => []IInv
BY InitIInv, NextKeepsIInv, PTL DEF Spec

\* Copies in the domain at one time are for different hosts, none of which has
\* been served, for every topology and whatever the tables say.
THEOREM DisjointHolds == Spec => []Disjoint
<1>1. IInv => Disjoint
  <2> SUFFICES ASSUME IInv PROVE Disjoint
    OBVIOUS
  <2>1. \A s \in Pending : \E c \in copies : s \in c.todo
    BY DEF Pending
  <2> QED BY <2>1 DEF IInv, Apart, Disjoint
<1>. QED BY <1>1, Invariance, PTL

\* No host gets a packet twice, and none gets one it was not asked for, for
\* every topology and whatever the tables say: tables that contradict each other
\* can lose a packet or send it in a circle, but not duplicate it.
THEOREM AtMostOncePerHostHolds == Spec => []AtMostOncePerHost
BY Invariance, PTL DEF IInv

(***************************************************************************)
(* No host is forgotten where every port leads to a switch.                *)
(***************************************************************************)
PortsLead ==
    \A n \in Networks : \A s \in Switches(n) : \A k \in DOMAIN n.bift[s] \ {s} :
        Peers(n.links, n.hosts, s, n.bift[s][k].nbr_port) # {}

\* The hosts that are still to be served or were lost; all others are settled.
InHand(s) == (\E c \in copies : s \in c.todo)
                \/ (\E i \in DOMAIN lost : s \in lost[i])
Settled(s) == s \in Switches(net) /\ got[s] = 1
AllSeen == \A s \in want : InHand(s) \/ Settled(s)

LEMMA SeenIsAccounted == AllSeen <=> Accounted
BY DEF AllSeen, Accounted, InHand, Settled, Pending, Lost

LEMMA DeliverAccounts ==
    ASSUME IInv, AllSeen, NEW c \in copies, Deliver(c)
    PROVE  AllSeen'
<1>1. /\ c \in Copy /\ c.at \in Switches(net) /\ c.at \in c.todo
      /\ got \in [Switches(net) -> 0 .. 2]
    BY DEF IInv, TypeOK, Copy, Deliver
<1>2. got[c.at] = 0
    BY <1>1 DEF IInv, Apart
<1>3. /\ net' = net /\ want' = want /\ lost' = lost
      /\ got' = [got EXCEPT ![c.at] = 1]
      /\ copies' = (copies \ {c}) \cup Left(c, {c.at})
    BY <1>2 DEF Deliver, Count
<1>4. \A s \in c.todo \ {c.at} : \E d \in Left(c, {c.at}) : s \in d.todo
    BY <1>1 DEF Left, Copy
<1>5. \A s \in Switches(net) : got'[s] = IF s = c.at THEN 1 ELSE got[s]
    BY <1>1, <1>3
<1> SUFFICES ASSUME NEW s \in want PROVE InHand(s)' \/ Settled(s)'
    BY <1>3 DEF AllSeen
<1>6. CASE s = c.at
    BY <1>1, <1>3, <1>5, <1>6 DEF Settled
<1>7. CASE s # c.at /\ InHand(s)
  <2>1. CASE \E d \in copies : s \in d.todo
    BY <1>3, <1>4, <1>7, <2>1 DEF InHand
  <2>2. CASE \E i \in DOMAIN lost : s \in lost[i]
    BY <1>3, <2>2 DEF InHand
  <2> QED BY <1>7, <2>1, <2>2 DEF InHand
<1>8. CASE s # c.at /\ Settled(s)
    BY <1>3, <1>5, <1>8 DEF Settled
<1>. QED BY <1>6, <1>7, <1>8 DEF AllSeen

LEMMA ForwardAccounts ==
    ASSUME IInv, AllSeen, PortsLead, NEW c \in copies, NEW k \in c.todo \ {c.at},
           Forward(c, k)
    PROVE  AllSeen'
<1>. DEFINE f == net.bift[c.at][k].f_bm
            sent == [at : There(c, k), todo : {c.todo \cap f}]
<1>1. /\ c \in Copy /\ c.at \in Switches(net) /\ net \in Networks
      /\ k \in DOMAIN net.bift[c.at] \ {c.at}
    BY DEF IInv, TypeOK, Copy, Forward
<1>2. PICK t : t \in There(c, k)
    BY <1>1 DEF PortsLead, There
<1>3. /\ net' = net /\ want' = want /\ lost' = lost /\ got' = got
      /\ copies' = ((copies \ {c}) \cup Left(c, f)) \cup sent
    BY DEF Forward, There
<1>4. \A s \in c.todo \ f : \E d \in Left(c, f) : s \in d.todo
    BY <1>1 DEF Left, Copy
<1>5. \A s \in c.todo \cap f : \E d \in sent : s \in d.todo
  <2>1. [at |-> t, todo |-> c.todo \cap f] \in sent
    BY <1>2
  <2> QED BY <2>1
<1>. HIDE DEF f, sent
<1>6. \A s \in c.todo : \E d \in copies' : s \in d.todo
    BY <1>3, <1>4, <1>5
<1> SUFFICES ASSUME NEW s \in want PROVE InHand(s)' \/ Settled(s)'
    BY <1>3 DEF AllSeen
<1>7. CASE \E d \in copies : s \in d.todo
    BY <1>3, <1>6, <1>7 DEF InHand
<1>8. CASE \E i \in DOMAIN lost : s \in lost[i]
    BY <1>3, <1>8 DEF InHand
<1>9. CASE Settled(s)
    BY <1>3, <1>9 DEF Settled
<1>. QED BY <1>7, <1>8, <1>9 DEF AllSeen, InHand

LEMMA GoneAccounts ==
    ASSUME IInv, AllSeen, NEW c \in copies, GiveUp(c) \/ Lose(c)
    PROVE  AllSeen'
<1>1. /\ copies' = copies \ {c} /\ lost' = Append(lost, c.todo)
      /\ UNCHANGED <<net, want, got>>
    BY DEF GiveUp, Lose
<1>2. lost \in Seq(SUBSET Bits(net)) /\ c.todo \in SUBSET Bits(net)
    BY DEF IInv, TypeOK, Copy
<1>. DEFINE n == Len(lost) + 1
<1>3. lost' \in Seq(SUBSET Bits(net)) /\ Len(lost') = n /\ Len(lost) \in Nat
    BY <1>1, <1>2
<1>4. lost'[n] = c.todo /\ \A i \in 1 .. Len(lost) : lost'[i] = lost[i]
    BY <1>1, <1>2
<1>5. /\ n \in DOMAIN lost' /\ lost'[n] = c.todo
      /\ \A i \in DOMAIN lost : i \in DOMAIN lost' /\ lost'[i] = lost[i]
    BY <1>2, <1>3, <1>4
<1> SUFFICES ASSUME NEW s \in want PROVE InHand(s)' \/ Settled(s)'
    BY <1>1 DEF AllSeen
<1>6. CASE \E d \in copies : s \in d.todo
    BY <1>1, <1>5, <1>6 DEF InHand
<1>7. CASE \E i \in DOMAIN lost : s \in lost[i]
    BY <1>5, <1>7 DEF InHand
<1>8. CASE Settled(s)
    BY <1>1, <1>8 DEF Settled
<1>. QED BY <1>6, <1>7, <1>8 DEF AllSeen, InHand

\* A host that was asked for is served, or a copy for it is in the domain, or
\* that copy was lost in a queue or for want of an entry: for every topology
\* and all tables whose ports lead to switches.
THEOREM AccountedHolds ==
    ASSUME PortsLead
    PROVE  Spec => []Accounted
<1>1. Init => AllSeen
    BY DEF Init, AllSeen, InHand
<1>2. IInv /\ AllSeen /\ [Next]_vars => AllSeen'
  <2> SUFFICES ASSUME IInv, AllSeen, [Next]_vars PROVE AllSeen'
    OBVIOUS
  <2>1. ASSUME NEW c \in copies, Serve(c) \/ Lose(c) PROVE AllSeen'
    BY <2>1, DeliverAccounts, ForwardAccounts, GoneAccounts DEF Serve
  <2>2. CASE UNCHANGED vars
    BY <2>2 DEF vars, AllSeen, InHand, Settled
  <2> QED BY <2>1, <2>2 DEF Next
<1>3. AllSeen => Accounted
    BY SeenIsAccounted
<1>. QED BY <1>1, <1>2, <1>3, Invariance, PTL DEF Spec
(***************************************************************************)
(* Where the ways of the packet from its first switch form a tree, every   *)
(* link carries it once.                                                   *)
(***************************************************************************)

\* The switch behind the port of entry k of switch s in network n.
Behind(n, s, k) == Peers(n.links, n.hosts, s, n.bift[s][k].nbr_port)

\* The bits that switch s has an entry for.
Listed(n, s) == DOMAIN n.bift[s] \ {s}

(* Along the way of its bits, which holds <<s, k>> if bit k can come to s, *)
(* a packet comes to every switch t from the one switch up[t], and at none *)
(* are two bits for the same neighbour masked differently.                 *)
TreeFrom(n, first, way, up) ==
    /\ \A k \in Bits(n) : <<first, k>> \in way
    /\ \A s \in Switches(n) : \A k \in Listed(n, s) : <<s, k>> \in way =>
           /\ k \in n.bift[s][k].f_bm
           /\ \A t \in Behind(n, s, k) :
                  /\ t # first /\ up[t] = s
                  /\ \A j \in n.bift[s][k].f_bm : <<s, j>> \in way => <<t, j>> \in way
           /\ \A j \in Listed(n, s) :
                  <<s, j>> \in way /\ Behind(n, s, j) \cap Behind(n, s, k) # {} =>
                      n.bift[s][j].f_bm = n.bift[s][k].f_bm

TreesFromAll(n) == \A first \in Switches(n) : \E way, up : TreeFrom(n, first, way, up)

(* There is one copy at most at a switch, a switch that was sent none has  *)
(* sent none, and what was sent to a neighbour holds all the bits for it.  *)
OnTree(first, way, up) ==
    /\ \A c \in copies : \A k \in c.todo : <<c.at, k>> \in way
    /\ \A c, d \in copies : c.at = d.at => c = d
    /\ \A t \in Switches(net) \ {first} :
           (\A s \in Switches(net) : s = up[t] => carried[<<s, t>>] = 0) =>
               /\ \A c \in copies : c.at # t
               /\ \A u \in Switches(net) : carried[<<t, u>>] = 0
    /\ \A s, t \in Switches(net) : carried[<<s, t>>] # 0 =>
           /\ carried[<<s, t>>] = 1
           /\ \A c \in copies : c.at = s =>
                  \A k \in c.todo \cap Listed(net, s) : t \notin Behind(net, s, k)

TreeInv == \E first, way, up : TreeFrom(net, first, way, up) /\ OnTree(first, way, up)

LEMMA InitOnTree ==
    ASSUME Init, \A n \in Networks : TreesFromAll(n)
    PROVE  TreeInv
<1>1. PICK first \in Switches(net) : copies = {[at |-> first, todo |-> want]}
    BY DEF Init
<1>2. net \in Networks /\ want \in SUBSET Bits(net)
    BY DEF Init
<1>3. PICK way, up : TreeFrom(net, first, way, up)
    BY <1>1, <1>2 DEF TreesFromAll
<1>4. \A s, t \in Switches(net) : carried[<<s, t>>] = 0
    BY DEF Init
<1>5. \A c \in copies : c.at = first /\ c.todo = want
    BY <1>1
<1>6. OnTree(first, way, up)
    BY <1>1, <1>2, <1>3, <1>4, <1>5 DEF OnTree, TreeFrom
<1>. QED BY <1>3, <1>6 DEF TreeInv

\* A step in which nothing is sent.
LEMMA NothingSent ==
    ASSUME NEW first, NEW way, NEW up, OnTree(first, way, up),
           UNCHANGED <<net, carried>>,
           \A d \in copies' : \E c \in copies : d.at = c.at /\ d.todo \subseteq c.todo,
           \A d, e \in copies' : d.at = e.at => d = e
    PROVE  OnTree(first, way, up)'
<1>1. ASSUME NEW d \in copies', NEW k \in d.todo PROVE <<d.at, k>> \in way
  <2>1. PICK c \in copies : d.at = c.at /\ k \in c.todo
    OBVIOUS
  <2>2. <<c.at, k>> \in way
    BY <2>1 DEF OnTree
  <2> QED BY <2>1, <2>2
<1>2. ASSUME NEW t \in Switches(net) \ {first},
             \A s \in Switches(net) : s = up[t] => carried[<<s, t>>] = 0
      PROVE  /\ \A d \in copies' : d.at # t
             /\ \A u \in Switches(net) : carried[<<t, u>>] = 0
    BY <1>2 DEF OnTree
<1>3. ASSUME NEW s \in Switches(net), NEW t \in Switches(net), carried[<<s, t>>] # 0
      PROVE  /\ carried[<<s, t>>] = 1
             /\ \A d \in copies' : d.at = s =>
                    \A k \in d.todo \cap Listed(net, s) : t \notin Behind(net, s, k)
    BY <1>3 DEF OnTree
<1>. QED BY <1>1, <1>2, <1>3 DEF OnTree, Listed, Behind, Switches

\* The copies sent go down the tree, to a switch that was sent none.
LEMMA ForwardOnTree ==
    ASSUME TypeOK, NEW first, NEW way, NEW up,
           TreeFrom(net, first, way, up), OnTree(first, way, up),
           NEW c \in copies, NEW k, Forward(c, k)
    PROVE  OnTree(first, way, up)'
<1>. DEFINE s == c.at
            f == net.bift[s][k].f_bm
            there == Behind(net, s, k)
            sent == [at : there, todo : {c.todo \cap f}]
<1>1. /\ c \in Copy /\ s \in Switches(net) /\ net \in Networks
      /\ k \in c.todo \cap Listed(net, s)
    BY DEF TypeOK, Copy, Forward, Listed
<1>2. /\ copies' = (copies \ {c}) \cup Left(c, f) \cup sent
      /\ carried' = [e \in DOMAIN carried |->
                        IF e[1] = s /\ e[2] \in there THEN Count(carried[e])
                                                      ELSE carried[e]]
      /\ net' = net
    BY DEF Forward, Behind
<1>3. DOMAIN carried = Switches(net) \X Switches(net)
    BY DEF TypeOK
<1>4. there \subseteq Switches(net) \ {s} /\ \A t, u \in there : t = u
  <2>1. there \subseteq Switches(net) /\ \A t, u \in there : t = u
    BY <1>1, OnePeer DEF Behind
  <2>2. s \notin there
    BY DEF Behind, Peers
  <2> QED BY <2>1, <2>2
<1>5. <<s, k>> \in way
    BY <1>1 DEF OnTree
<1>6. /\ k \in f
      /\ \A t \in there :
             /\ t # first /\ up[t] = s
             /\ \A j \in f : <<s, j>> \in way => <<t, j>> \in way
      /\ \A j \in Listed(net, s) :
             <<s, j>> \in way /\ Behind(net, s, j) \cap there # {} =>
                 net.bift[s][j].f_bm = f
    BY <1>1, <1>5 DEF TreeFrom
<1>7. \A d \in Left(c, f) : d.at = s /\ d.todo = c.todo \ f
    BY <1>1 DEF Left, Copy
<1>8. \A d \in sent : d.at \in there /\ d.todo = c.todo \cap f
    OBVIOUS
<1>9. \A t \in there : carried[<<s, t>>] = 0
    BY <1>1, <1>4 DEF OnTree
<1>10. \A t \in there :
           /\ \A d \in copies : d.at # t
           /\ \A u \in Switches(net) : carried[<<t, u>>] = 0
    BY <1>4, <1>6, <1>9 DEF OnTree
<1>11. \A p, t \in Switches(net) :
           carried'[<<p, t>>] = IF p = s /\ t \in there THEN 1 ELSE carried[<<p, t>>]
    BY <1>2, <1>3, <1>9 DEF Count
<1>. HIDE DEF sent, there, f
<1>12. \A d \in copies' : \/ d \in copies \ {c}
                          \/ d.at = s /\ d.todo = c.todo \ f /\ d \in Left(c, f)
                          \/ d.at \in there /\ d.todo = c.todo \cap f /\ d \in sent
    BY <1>2, <1>7, <1>8
<1>13. \A d \in copies' : \A j \in d.todo : <<d.at, j>> \in way
    BY <1>6, <1>12 DEF OnTree
<1>14. ASSUME NEW d \in copies', NEW e \in copies', d.at = e.at
       PROVE  d = e
  <2>1. \A x, y \in Left(c, f) : x = y
    BY DEF Left
  <2>2. \A x, y \in sent : x.at = y.at => x = y
    BY DEF sent
  <2>3. \A x \in copies \ {c} : x.at # s /\ x.at \notin there
    BY <1>10 DEF OnTree
  <2> QED BY <1>4, <1>12, <1>14, <2>1, <2>2, <2>3 DEF OnTree
<1>15. ASSUME NEW t \in Switches(net) \ {first},
              \A p \in Switches(net) : p = up[t] => carried'[<<p, t>>] = 0
       PROVE  /\ \A d \in copies' : d.at # t
              /\ \A u \in Switches(net) : carried'[<<t, u>>] = 0
  <2>1. ASSUME t \in there PROVE FALSE
    <3>1. s \in Switches(net) /\ s = up[t]
      BY <1>1, <1>6, <2>1
    <3>2. carried'[<<s, t>>] = 0
      BY <1>15, <3>1
    <3>3. carried'[<<s, t>>] = 1
      BY <1>11, <2>1, <3>1
    <3> QED BY <3>2, <3>3
  <2>2. \A p \in Switches(net) : p = up[t] => carried[<<p, t>>] = 0
    BY <1>11, <1>15, <2>1
  <2>3. /\ \A d \in copies : d.at # t
        /\ \A u \in Switches(net) : carried[<<t, u>>] = 0
    BY <2>2 DEF OnTree
  <2> QED BY <1>11, <1>12, <2>1, <2>3
<1>16. ASSUME NEW p \in Switches(net), NEW t \in Switches(net), carried'[<<p, t>>] # 0
       PROVE  /\ carried'[<<p, t>>] = 1
              /\ \A d \in copies' : d.at = p =>
                     \A j \in d.todo \cap Listed(net, p) : t \notin Behind(net, p, j)
  <2>1. CASE p = s /\ t \in there
    <3>1. \A d \in copies' : d.at = s => d.todo = c.todo \ f
      BY <1>4, <1>12 DEF OnTree
    <3>2. \A j \in (c.todo \ f) \cap Listed(net, s) : t \notin Behind(net, s, j)
      <4> SUFFICES ASSUME NEW j \in (c.todo \ f) \cap Listed(net, s),
                          t \in Behind(net, s, j)
                   PROVE  FALSE
        OBVIOUS
      <4>1. <<s, j>> \in way
        BY DEF OnTree
      <4>2. net.bift[s][j].f_bm = f
        BY <1>6, <2>1, <4>1
      <4>3. j \in net.bift[s][j].f_bm
        BY <1>1, <4>1 DEF TreeFrom
      <4> QED BY <4>2, <4>3
    <3> QED BY <1>11, <2>1, <3>1, <3>2
  <2>2. CASE ~(p = s /\ t \in there)
    <3>1. carried'[<<p, t>>] = carried[<<p, t>>] /\ p \notin there
      BY <1>10, <1>11, <1>16, <2>2
    <3>2. \A d \in copies' : d.at = p =>
              \E e \in copies : e.at = p /\ d.todo \subseteq e.todo
      BY <1>12, <3>1
    <3> QED BY <1>16, <3>1, <3>2 DEF OnTree
  <2> QED BY <2>1, <2>2
<1>. QED BY <1>2, <1>13, <1>14, <1>15, <1>16 DEF OnTree, Listed, Behind, Switches

LEMMA NextKeepsTree ==
    ASSUME TypeOK, TreeInv, [Next]_vars
    PROVE  TreeInv'
<1>1. PICK first, way, up : TreeFrom(net, first, way, up) /\ OnTree(first, way, up)
    BY DEF TreeInv
<1>2. ASSUME net' = net, OnTree(first, way, up)' PROVE TreeInv'
  <2>1. TreeFrom(net', first, way, up)
    BY <1>1, <1>2
  <2> QED BY <1>2, <2>1 DEF TreeInv
<1>3. ASSUME NEW c \in copies, Deliver(c) PROVE TreeInv'
  <2>1. /\ copies' = (copies \ {c}) \cup Left(c, {c.at})
        /\ UNCHANGED <<net, carried>>
    BY <1>3 DEF Deliver
  <2>2. /\ \A d \in Left(c, {c.at}) : d.at = c.at /\ d.todo \subseteq c.todo
        /\ \A d, e \in Left(c, {c.at}) : d = e
    BY <1>3 DEF Left, TypeOK, Copy
  <2>3. ASSUME NEW d \in copies', NEW e \in copies', d.at = e.at PROVE d = e
    <3>1. \A x \in copies \ {c} : x.at # c.at
      BY <1>1 DEF OnTree
    <3>2. CASE d \in copies \ {c} /\ e \in copies \ {c}
      BY <1>1, <2>3, <3>2 DEF OnTree
    <3>3. CASE d \in Left(c, {c.at}) /\ e \in Left(c, {c.at})
      BY <2>2, <3>3
    <3> QED BY <2>1, <2>2, <2>3, <3>1, <3>2, <3>3
  <2> QED BY <1>1, <1>2, <2>1, <2>2, <2>3, NothingSent
<1>4. ASSUME NEW c \in copies, NEW k, Forward(c, k) PROVE TreeInv'
    BY <1>1, <1>2, <1>4, ForwardOnTree DEF Forward
<1>5. ASSUME NEW c \in copies, GiveUp(c) \/ Lose(c) PROVE TreeInv'
  <2>1. copies' = copies \ {c} /\ UNCHANGED <<net, carried>>
    BY <1>5 DEF GiveUp, Lose
  <2> QED BY <1>1, <1>2, <2>1, NothingSent DEF OnTree
<1>6. CASE UNCHANGED vars
  <2>1. UNCHANGED <<net, carried, copies>>
    BY <1>6 DEF vars
  <2> QED BY <1>1, <1>2, <2>1, NothingSent DEF OnTree
<1>. QED BY <1>3, <1>4, <1>5, <1>6 DEF Next, Serve

\* No link carries the packet twice in a direction, for every topology and all
\* tables that lead it from the switch it enters at along a tree.
THEOREM OneCopyPerLinkHolds ==
    ASSUME \A n \in Networks : TreesFromAll(n)
    PROVE  Spec => []OneCopyPerLink
<1>1. TypeOK /\ TreeInv => OneCopyPerLink
  <2> SUFFICES ASSUME TypeOK, TreeInv, NEW e \in DOMAIN carried
               PROVE  carried[e] <= 1
    BY DEF OneCopyPerLink
  <2>1. PICK s \in Switches(net), t \in Switches(net) : e = <<s, t>>
    BY DEF TypeOK
  <2>2. carried[e] \in 0 .. 2 /\ (carried[e] # 0 => carried[e] = 1)
    BY <2>1 DEF TypeOK, TreeInv, OnTree
  <2> QED BY <2>2
<1>2. Init => TreeInv
    BY InitOnTree
<1>. QED BY <1>1, <1>2, NextKeepsTree, TypeCorrect, PTL DEF Spec

(***************************************************************************)
(* The committed tables lead along a tree.                                 *)
(***************************************************************************)

\* The switches after and before switch s on a ring of n.
NextOf(n, s) == IF s = n THEN 1 ELSE s + 1
PrevOf(n, s) == IF s = 1 THEN n ELSE s - 1

\* How far switch k comes after switch s.
Distance(n, s, k) == IF k >= s THEN k - s ELSE k + n - s

\* What % does to the positions on a ring.
LEMMA SmallRemainder ==
    ASSUME NEW n \in Nat \ {0}, NEW x \in 0 .. n - 1
    PROVE  x % n = x /\ (x + n) % n = x
OBVIOUS

\* The next half are the bits up to n \div 2 ahead, the previous half the others.
LEMMA SidesOfRing ==
    ASSUME NEW n \in Nat \ (0 .. 2), NEW s \in 1 .. n
    PROVE  /\ NextBits(n, s) = {k \in 1 .. n : Distance(n, s, k) \in 1 .. n \div 2}
           /\ PrevBits(n, s) = {k \in 1 .. n : Distance(n, s, k) > n \div 2}
<1>. DEFINE h == n \div 2
            g == h - ((n + 1) % 2)
<1>1. h \in 1 .. n - 1 /\ g \in Nat /\ n - 1 - h = g
    OBVIOUS
<1>. HIDE DEF h, g
<1>2. ASSUME NEW j \in 1 .. h
      PROVE  After(n, s, j) = IF s + j <= n THEN s + j ELSE s + j - n
  <2>1. CASE s + j <= n
    BY <1>1, <2>1, SmallRemainder DEF After
  <2>2. CASE s + j > n
    BY <1>1, <2>2, SmallRemainder DEF After
  <2> QED BY <1>1, <2>1, <2>2
<1>3. ASSUME NEW j \in 1 .. g
      PROVE  Before(n, s, j) = IF j < s THEN s - j ELSE s + n - j
  <2>1. CASE j < s
    BY <1>1, <2>1, SmallRemainder DEF Before
  <2>2. CASE j >= s
    BY <1>1, <2>2, SmallRemainder DEF Before
  <2> QED BY <1>1, <2>1, <2>2
<1>4. NextBits(n, s) = {k \in 1 .. n : Distance(n, s, k) \in 1 .. h}
  <2>1. NextBits(n, s) = {After(n, s, j) : j \in 1 .. h}
    BY DEF NextBits, h
  <2>2. ASSUME NEW j \in 1 .. h
        PROVE  After(n, s, j) \in 1 .. n /\ Distance(n, s, After(n, s, j)) = j
    BY <1>1, <1>2 DEF Distance
  <2>3. ASSUME NEW k \in 1 .. n, Distance(n, s, k) \in 1 .. h
        PROVE  k = After(n, s, Distance(n, s, k))
    BY <1>1, <1>2, <2>3 DEF Distance
  <2> QED BY <2>1, <2>2, <2>3
<1>5. PrevBits(n, s) = {k \in 1 .. n : Distance(n, s, k) > h}
  <2>1. PrevBits(n, s) = {Before(n, s, j) : j \in 1 .. g}
    BY DEF PrevBits, g, h
  <2>2. ASSUME NEW j \in 1 .. g
        PROVE  Before(n, s, j) \in 1 .. n /\ Distance(n, s, Before(n, s, j)) > h
    BY <1>1, <1>3 DEF Distance
  <2>3. ASSUME NEW k \in 1 .. n, Distance(n, s, k) > h
        PROVE  \E j \in 1 .. g : k = Before(n, s, j)
    <3>1. n - Distance(n, s, k) \in 1 .. g
      BY <1>1, <2>3 DEF Distance
    <3>2. k = Before(n, s, n - Distance(n, s, k))
      BY <1>1, <1>3, <2>3, <3>1 DEF Distance
    <3> QED BY <3>1, <3>2
  <2> QED BY <2>1, <2>2, <2>3
<1>. QED BY <1>4, <1>5 DEF h

\* The two links of switch s, and what is at their other end.
LEMMA RingEnds ==
    ASSUME NEW n \in Nat \ (0 .. 2), NEW s \in 1 .. n
    PROVE  /\ DOMAIN RingLinks(n) = 1 .. n
           /\ \A l \in 1 .. n : s \in Ends(RingLinks(n)[l]) <=> l \in {s, PrevOf(n, s)}
           /\ Ends(RingLinks(n)[s]) \ {s} = {NextOf(n, s)}
           /\ Ends(RingLinks(n)[PrevOf(n, s)]) \ {s} = {PrevOf(n, s)}
<1>1. \A l \in 1 .. n : (l % n) + 1 = NextOf(n, l)
  <2> TAKE l \in 1 .. n
  <2>1. CASE l = n
    BY <2>1, SmallRemainder DEF NextOf
  <2>2. CASE l # n
    BY <2>2, SmallRemainder DEF NextOf
  <2> QED BY <2>1, <2>2
<1>2. \A l \in 1 .. n : Ends(RingLinks(n)[l]) = {l, NextOf(n, l)}
    BY <1>1 DEF Ends, RingLinks
<1>3. PrevOf(n, s) \in 1 .. n /\ PrevOf(n, s) # s /\ NextOf(n, s) # s
    BY DEF PrevOf, NextOf
<1>4. \A l \in 1 .. n : NextOf(n, l) = s <=> l = PrevOf(n, s)
    BY DEF PrevOf, NextOf
<1>5. DOMAIN RingLinks(n) = 1 .. n
    BY DEF RingLinks
<1>. QED BY <1>2, <1>3, <1>4, <1>5

\* Switch 1 has its link to the next switch first, the others to the previous.
LEMMA RingPorts ==
    ASSUME NEW n \in Nat \ (0 .. 2), NEW s \in 1 .. n
    PROVE  /\ PortOn(RingLinks(n), 2, s, s) = IF s = 1 THEN 3 ELSE 4
           /\ PortOn(RingLinks(n), 2, s, PrevOf(n, s)) = IF s = 1 THEN 4 ELSE 3
<1>. DEFINE r == PrevOf(n, s)
            Upto(l) == {m \in 1 .. l : s \in Ends(RingLinks(n)[m])}
<1>1. r \in 1 .. n /\ r # s /\ (r < s <=> s # 1)
    BY DEF PrevOf
<1>2. \A l \in 1 .. n : Upto(l) = {m \in 1 .. l : m \in {s, r}}
    BY RingEnds
<1>3. Cardinality({s}) = 1 /\ Cardinality({r}) = 1 /\ Cardinality({s, r}) = 2
  <2>1. Cardinality({s}) = 1 /\ Cardinality({r}) = 1 /\ IsFiniteSet({s})
    BY FS_Singleton
  <2>2. {s, r} = {s} \cup {r} /\ r \notin {s}
    BY <1>1
  <2>3. Cardinality({s} \cup {r}) = 2
    BY <2>1, <2>2, FS_AddElement
  <2> QED BY <2>1, <2>2, <2>3
<1>4. \A l \in 1 .. n : PortOn(RingLinks(n), 2, s, l) = 2 + Cardinality(Upto(l))
    BY DEF PortOn
<1>5. CASE s = 1
  <2>1. Upto(s) = {s}
    BY <1>1, <1>2, <1>5
  <2>2. Upto(r) = {s, r}
    BY <1>1, <1>2, <1>5
  <2> QED BY <1>1, <1>3, <1>4, <1>5, <2>1, <2>2
<1>6. CASE s # 1
  <2>1. Upto(s) = {s, r}
    BY <1>1, <1>2, <1>6
  <2>2. Upto(r) = {r}
    BY <1>1, <1>2, <1>6
  <2> QED BY <1>1, <1>3, <1>4, <1>6, <2>1, <2>2
<1>. QED BY <1>5, <1>6

\* On a ring with two hosts at a switch its ports 3 and 4 lead to its neighbours.
LEMMA RingPeers ==
    ASSUME NEW n \in Nat \ (0 .. 2), NEW s \in 1 .. n
    PROVE  /\ Peers(RingLinks(n), 2, s, 3) = {IF s = 1 THEN NextOf(n, s) ELSE PrevOf(n, s)}
           /\ Peers(RingLinks(n), 2, s, 4) = {IF s = 1 THEN PrevOf(n, s) ELSE NextOf(n, s)}
<1>. DEFINE r == PrevOf(n, s)
            At(p) == LinkAt(RingLinks(n), 2, s, p)
<1>1. r \in 1 .. n
    BY DEF PrevOf
<1>2. ASSUME NEW p, NEW l \in 1 .. n
      PROVE  l \in At(p) <=> l \in {s, r} /\ PortOn(RingLinks(n), 2, s, l) = p
    BY RingEnds DEF LinkAt
<1>3. \A p : At(p) \subseteq 1 .. n
    BY RingEnds DEF LinkAt
<1>4. At(3) = {IF s = 1 THEN s ELSE r} /\ At(4) = {IF s = 1 THEN r ELSE s}
    BY <1>1, <1>2, <1>3, RingPorts
<1>5. \A p, l : At(p) = {l} => Peers(RingLinks(n), 2, s, p) = Ends(RingLinks(n)[l]) \ {s}
    BY DEF Peers
<1>. DEFINE P(p) == Peers(RingLinks(n), 2, s, p)
            E(l) == Ends(RingLinks(n)[l]) \ {s}
<1>6. \A p, l : At(p) = {l} => P(p) = E(l)
    BY <1>5
<1>7. E(s) = {NextOf(n, s)} /\ E(r) = {r}
    BY RingEnds
<1>. HIDE DEF At, P, E
<1>8. CASE s = 1
  <2>1. P(3) = E(s) /\ P(4) = E(r)
    BY <1>4, <1>6, <1>8
  <2> QED BY <1>7, <1>8, <2>1 DEF P
<1>9. CASE s # 1
  <2>1. P(3) = E(r) /\ P(4) = E(s)
    BY <1>4, <1>6, <1>9
  <2> QED BY <1>7, <1>9, <2>1 DEF P
<1>. QED BY <1>8, <1>9

\* The entries of a committed table: one f_bm and one port for each half.
LEMMA CommittedEntries ==
    ASSUME NEW n \in Nat \ (0 .. 2), NEW s \in 1 .. n
    PROVE  /\ DOMAIN CommittedBift(n, s) = (1 .. n) \ {s}
           /\ \A k \in NextBits(n, s) :
                  CommittedBift(n, s)[k] =
                      [f_bm |-> NextBits(n, s), nbr_port |-> IF s = 1 THEN 3 ELSE 4]
           /\ \A k \in PrevBits(n, s) :
                  CommittedBift(n, s)[k] =
                      [f_bm |-> PrevBits(n, s), nbr_port |-> IF s = 1 THEN 4 ELSE 3]
<1>. DEFINE N == NextBits(n, s)
            P == PrevBits(n, s)
<1>1. N \cap P = {}
    BY SidesOfRing
<1>2. N \cup P = (1 .. n) \ {s}
  <2>1. \A k \in 1 .. n : Distance(n, s, k) \in 0 .. n /\ (Distance(n, s, k) = 0 <=> k = s)
    BY DEF Distance
  <2>2. n \div 2 \in Nat
    OBVIOUS
  <2> QED BY <2>1, <2>2, SidesOfRing
<1>3. ASSUME NEW p, NEW q
      PROVE  /\ DOMAIN TwoSides(n, s, p, q) = N \cup P
             /\ \A k \in N : TwoSides(n, s, p, q)[k] = [f_bm |-> N, nbr_port |-> p]
             /\ \A k \in P : TwoSides(n, s, p, q)[k] = [f_bm |-> P, nbr_port |-> q]
  <2>. HIDE DEF N, P
  <2>1. TwoSides(n, s, p, q) =
            [k \in N \cup P |-> IF k \in N THEN [f_bm |-> N, nbr_port |-> p]
                                           ELSE [f_bm |-> P, nbr_port |-> q]]
    BY DEF TwoSides, SideTable, N, P
  <2> QED BY <1>1, <2>1
<1>4. CommittedBift(n, s) = IF s = 1 THEN TwoSides(n, s, 3, 4) ELSE TwoSides(n, s, 4, 3)
    BY DEF CommittedBift, GeneratedBift
<1>. HIDE DEF N, P
<1>. QED BY <1>2, <1>3, <1>4 DEF N, P

\* Bit k is reached through the next switch.
Ahead(n, s, k) == Distance(n, s, k) <= n \div 2

CommittedRing(n) == Ring(n, CommittedBift)

\* What an entry of a committed table says of bit k.
LEMMA RingEntries ==
    ASSUME NEW n \in Nat \ (0 .. 2), NEW s \in 1 .. n
    PROVE  /\ Listed(CommittedRing(n), s) = (1 .. n) \ {s}
           /\ \A k \in (1 .. n) \ {s} :
                  /\ CommittedRing(n).bift[s][k].f_bm
                         = {j \in (1 .. n) \ {s} : Ahead(n, s, j) <=> Ahead(n, s, k)}
                  /\ Behind(CommittedRing(n), s, k)
                         = {IF Ahead(n, s, k) THEN NextOf(n, s) ELSE PrevOf(n, s)}
<1>. DEFINE R == CommittedRing(n)
<1>1. R.links = RingLinks(n) /\ R.hosts = 2 /\ R.bift[s] = CommittedBift(n, s)
    BY DEF CommittedRing, Ring
<1>. HIDE DEF R
<1>. DEFINE T == CommittedBift(n, s)
            p == IF s = 1 THEN 3 ELSE 4
            q == IF s = 1 THEN 4 ELSE 3
<1>2. /\ DOMAIN T = (1 .. n) \ {s}
      /\ \A k \in NextBits(n, s) : T[k] = [f_bm |-> NextBits(n, s), nbr_port |-> p]
      /\ \A k \in PrevBits(n, s) : T[k] = [f_bm |-> PrevBits(n, s), nbr_port |-> q]
    BY CommittedEntries
<1>4. /\ Peers(RingLinks(n), 2, s, p) = {NextOf(n, s)}
      /\ Peers(RingLinks(n), 2, s, q) = {PrevOf(n, s)}
  <2>1. CASE s = 1
    BY <2>1, RingPeers
  <2>2. CASE s # 1
    BY <2>2, RingPeers
  <2> QED BY <2>1, <2>2
<1>5. \A k : Behind(R, s, k) = Peers(RingLinks(n), 2, s, T[k].nbr_port)
    BY <1>1 DEF Behind
<1>6. R.bift[s] = T
    BY <1>1
<1>. HIDE DEF p, q, T
<1>7. Listed(R, s) = (1 .. n) \ {s}
    BY <1>2, <1>6 DEF Listed
<1>3. ASSUME NEW k \in (1 .. n) \ {s}
      PROVE  /\ R.bift[s][k].f_bm
                    = {j \in (1 .. n) \ {s} : Ahead(n, s, j) <=> Ahead(n, s, k)}
             /\ Behind(R, s, k)
                    = {IF Ahead(n, s, k) THEN NextOf(n, s) ELSE PrevOf(n, s)}
  <2>1. \A j \in 1 .. n : Distance(n, s, j) \in 0 .. n /\ (Distance(n, s, j) = 0 <=> j = s)
    BY DEF Distance
  <2>2. n \div 2 \in Nat
    OBVIOUS
  <2>3. NextBits(n, s) = {j \in (1 .. n) \ {s} : Ahead(n, s, j)}
    BY <2>1, <2>2, SidesOfRing DEF Ahead
  <2>4. PrevBits(n, s) = {j \in (1 .. n) \ {s} : ~Ahead(n, s, j)}
    BY <2>1, <2>2, SidesOfRing DEF Ahead
  <2>5. CASE Ahead(n, s, k)
    <3>1. T[k].f_bm = NextBits(n, s) /\ T[k].nbr_port = p
      BY <1>2, <2>3, <2>5
    <3>2. Behind(R, s, k) = {NextOf(n, s)}
      BY <1>4, <1>5, <3>1
    <3> QED BY <1>6, <2>3, <2>5, <3>1, <3>2
  <2>6. CASE ~Ahead(n, s, k)
    <3>1. T[k].f_bm = PrevBits(n, s) /\ T[k].nbr_port = q
      BY <1>2, <2>4, <2>6
    <3>2. Behind(R, s, k) = {PrevOf(n, s)}
      BY <1>4, <1>5, <3>1
    <3> QED BY <1>6, <2>4, <2>6, <3>1, <3>2
  <2> QED BY <2>5, <2>6
<1>. QED BY <1>3, <1>7 DEF R

(* A bit goes on the way it started; it comes to switch s if s is not past *)
(* its host on that way.                                                   *)
OnWay(n, first, s, k) ==
    \/ s = first
    \/ /\ k \in 1 .. n
       /\ LET e == Distance(n, first, s)
              b == Distance(n, first, k)
          IN  (e <= b /\ b <= n \div 2) \/ (n \div 2 < b /\ b <= e)

\* The steps of a bit: distances from the first switch after one hop.
LEMMA HopsOnRing ==
    ASSUME NEW n \in Nat \ (0 .. 2), NEW first \in 1 .. n, NEW s \in 1 .. n
    PROVE  /\ NextOf(n, s) \in 1 .. n /\ PrevOf(n, s) \in 1 .. n
           /\ NextOf(n, s) # PrevOf(n, s)
           /\ PrevOf(n, NextOf(n, s)) = s /\ NextOf(n, PrevOf(n, s)) = s
           /\ LET e == Distance(n, first, s)
              IN  /\ e \in 0 .. n - 1 /\ (e = 0 <=> s = first)
                  /\ e < n - 1 => Distance(n, first, NextOf(n, s)) = e + 1
                  /\ e > 0 => Distance(n, first, PrevOf(n, s)) = e - 1
                  /\ e = 0 => Distance(n, first, PrevOf(n, s)) = n - 1
                  /\ \A k \in 1 .. n :
                         LET b == Distance(n, first, k)
                         IN  Distance(n, s, k) = IF b >= e THEN b - e ELSE b + n - e
BY DEF NextOf, PrevOf, Distance

\* A bit that is on its way at s goes on the same way, and is on it behind s.
LEMMA WayOn ==
    ASSUME NEW n \in Nat \ (0 .. 2), NEW first \in 1 .. n, NEW s \in 1 .. n,
           NEW k \in (1 .. n) \ {s}, OnWay(n, first, s, k)
    PROVE  /\ Ahead(n, s, k) <=> Ahead(n, first, k)
           /\ LET t == IF Ahead(n, s, k) THEN NextOf(n, s) ELSE PrevOf(n, s)
              IN  /\ t # first
                  /\ Ahead(n, first, t) <=> Ahead(n, s, k)
                  /\ OnWay(n, first, t, k)
<1>. DEFINE e == Distance(n, first, s)
            b == Distance(n, first, k)
            h == n \div 2
            t == IF Ahead(n, s, k) THEN NextOf(n, s) ELSE PrevOf(n, s)
            d == Distance(n, first, t)
<1>1. h \in 1 .. n - 1 /\ n - 1 <= 2 * h /\ 2 * h <= n
    OBVIOUS
<1>2. /\ e \in 0 .. n - 1 /\ b \in 0 .. n - 1 /\ (e = 0 <=> s = first)
      /\ t \in 1 .. n /\ d \in 0 .. n - 1 /\ (d = 0 <=> t = first)
  <2>1. t \in 1 .. n
    BY HopsOnRing
  <2>2. \A x \in 1 .. n :
            Distance(n, first, x) \in 0 .. n - 1 /\ (Distance(n, first, x) = 0 <=> x = first)
    BY DEF Distance
  <2> QED BY <2>1, <2>2
<1>3. b # e
    BY DEF Distance
<1>4. Distance(n, s, k) = IF b >= e THEN b - e ELSE b + n - e
    BY HopsOnRing
<1>5. Ahead(n, s, k) <=> Distance(n, s, k) <= h
    BY DEF Ahead
<1>6. e = 0 \/ (e <= b /\ b <= h) \/ (h < b /\ b <= e)
    BY <1>2 DEF OnWay
<1>7. Ahead(n, first, k) <=> b <= h
    BY DEF Ahead
<1>8. Ahead(n, first, t) <=> d <= h
    BY DEF Ahead
<1>9. Ahead(n, s, k) /\ e < n - 1 => d = e + 1
    BY HopsOnRing
<1>10. ~Ahead(n, s, k) => d = IF e > 0 THEN e - 1 ELSE n - 1
  <2>1. /\ e > 0 => Distance(n, first, PrevOf(n, s)) = e - 1
        /\ e = 0 => Distance(n, first, PrevOf(n, s)) = n - 1
    BY HopsOnRing
  <2>2. ~Ahead(n, s, k) => d = Distance(n, first, PrevOf(n, s))
    OBVIOUS
  <2> HIDE DEF d, e
  <2> QED BY <1>2, <2>1, <2>2
<1>11. OnWay(n, first, t, k) <=> t = first \/ (d <= b /\ b <= h) \/ (h < b /\ b <= d)
    BY DEF OnWay
<1>. HIDE DEF e, b, h, t, d
<1>12. Ahead(n, s, k) <=> b <= h
    BY <1>1, <1>2, <1>3, <1>4, <1>5, <1>6
<1>13. CASE b <= h
  <2>1. e < b /\ d = e + 1
    BY <1>1, <1>2, <1>3, <1>6, <1>9, <1>12, <1>13
  <2> QED BY <1>1, <1>2, <1>7, <1>8, <1>11, <1>12, <1>13, <2>1 DEF t
<1>14. CASE b > h
  <2>1. /\ b <= d /\ d # 0
    BY <1>1, <1>2, <1>3, <1>6, <1>10, <1>12, <1>14
  <2> QED BY <1>1, <1>2, <1>7, <1>8, <1>11, <1>12, <1>14, <2>1 DEF t
<1>. QED BY <1>1, <1>2, <1>13, <1>14

\* From every switch of a committed ring the ways of the bits form a tree.
LEMMA RingIsTree ==
    ASSUME NEW n \in Nat \ (0 .. 2)
    PROVE  TreesFromAll(CommittedRing(n))
<1>. DEFINE R == CommittedRing(n)
<1>1. R.size = n
    BY DEF CommittedRing, Ring
<1>. HIDE DEF R
<1>2. Switches(R) = 1 .. n /\ Bits(R) = 1 .. n + 1
    BY <1>1 DEF Switches, Bits
<1> SUFFICES ASSUME NEW first \in 1 .. n PROVE \E way, up : TreeFrom(R, first, way, up)
    BY <1>2 DEF TreesFromAll, R
<1>. DEFINE way == {e \in (1 .. n) \X (1 .. n + 1) : OnWay(n, first, e[1], e[2])}
            up == [t \in 1 .. n |-> IF Ahead(n, first, t) THEN PrevOf(n, t)
                                                         ELSE NextOf(n, t)]
<1>3. \A s \in 1 .. n, k \in 1 .. n + 1 : <<s, k>> \in way <=> OnWay(n, first, s, k)
    OBVIOUS
<1>4. \A k \in Bits(R) : <<first, k>> \in way
    BY <1>2, <1>3 DEF OnWay
<1>5. ASSUME NEW s \in 1 .. n, NEW k \in Listed(R, s), <<s, k>> \in way
      PROVE  /\ k \in R.bift[s][k].f_bm
             /\ \A t \in Behind(R, s, k) :
                    /\ t # first /\ up[t] = s
                    /\ \A j \in R.bift[s][k].f_bm : <<s, j>> \in way => <<t, j>> \in way
             /\ \A j \in Listed(R, s) :
                    <<s, j>> \in way /\ Behind(R, s, j) \cap Behind(R, s, k) # {} =>
                        R.bift[s][j].f_bm = R.bift[s][k].f_bm
  <2>. DEFINE t == IF Ahead(n, s, k) THEN NextOf(n, s) ELSE PrevOf(n, s)
              f == R.bift[s][k].f_bm
  <2>1. /\ Listed(R, s) = (1 .. n) \ {s}
        /\ \A j \in (1 .. n) \ {s} :
               /\ R.bift[s][j].f_bm
                     = {i \in (1 .. n) \ {s} : Ahead(n, s, i) <=> Ahead(n, s, j)}
               /\ Behind(R, s, j) = {IF Ahead(n, s, j) THEN NextOf(n, s) ELSE PrevOf(n, s)}
    BY RingEntries DEF R
  <2>2. k \in (1 .. n) \ {s} /\ OnWay(n, first, s, k)
    BY <1>3, <1>5, <2>1
  <2>3. f = {j \in (1 .. n) \ {s} : Ahead(n, s, j) <=> Ahead(n, s, k)} /\ Behind(R, s, k) = {t}
    BY <2>1, <2>2
  <2>4. t \in 1 .. n /\ t # first /\ (Ahead(n, first, t) <=> Ahead(n, s, k))
    BY <2>2, WayOn, HopsOnRing
  <2>5. up[t] = s
    BY <2>4, HopsOnRing
  <2>6. ASSUME NEW j \in f, <<s, j>> \in way PROVE <<t, j>> \in way
    <3>1. j \in (1 .. n) \ {s} /\ OnWay(n, first, s, j) /\ (Ahead(n, s, j) <=> Ahead(n, s, k))
      BY <1>3, <2>3, <2>6
    <3>2. OnWay(n, first, t, j)
      BY <3>1, WayOn
    <3> QED BY <1>3, <2>4, <3>1, <3>2
  <2>7. ASSUME NEW j \in Listed(R, s), Behind(R, s, j) \cap Behind(R, s, k) # {}
        PROVE  R.bift[s][j].f_bm = f
    <3>1. NextOf(n, s) # PrevOf(n, s)
      BY HopsOnRing
    <3>2. j \in (1 .. n) \ {s}
      BY <2>1
    <3>3. Behind(R, s, j) = {IF Ahead(n, s, j) THEN NextOf(n, s) ELSE PrevOf(n, s)}
      BY <2>1, <3>2
    <3>4. Ahead(n, s, j) <=> Ahead(n, s, k)
      BY <2>3, <2>7, <3>1, <3>3
    <3> QED BY <2>1, <2>3, <3>2, <3>4
  <2> HIDE DEF t, f, up, way
  <2>8. k \in f
    BY <2>2, <2>3
  <2> QED BY <2>3, <2>4, <2>5, <2>6, <2>7, <2>8 DEF f
<1>. HIDE DEF way, up
<1>6. TreeFrom(R, first, way, up)
    BY <1>2, <1>4, <1>5 DEF TreeFrom
<1>. QED BY <1>6

\* On a ring of any size, with tables of the form of the committed ones
\* (bift_entries_s1 to s3), no host is forgotten and no link carries the packet
\* twice in a direction.
THEOREM CommittedRingsServe ==
    ASSUME \A m \in Networks : \E n \in Nat \ (0 .. 2) : m = CommittedRing(n)
    PROVE  Spec => [](Accounted /\ OneCopyPerLink)
<1>1. \A m \in Networks : TreesFromAll(m)
    BY RingIsTree
<1>2. PortsLead
  <2> SUFFICES ASSUME NEW n \in Nat \ (0 .. 2), NEW s \in Switches(CommittedRing(n)),
                      NEW k \in Listed(CommittedRing(n), s)
               PROVE  Behind(CommittedRing(n), s, k) # {}
    BY DEF PortsLead, Listed, Behind
  <2>1. s \in 1 .. n
    BY DEF Switches, CommittedRing, Ring
  <2>2. k \in (1 .. n) \ {s}
    BY <2>1, RingEntries
  <2>3. Behind(CommittedRing(n), s, k)
            = {IF Ahead(n, s, k) THEN NextOf(n, s) ELSE PrevOf(n, s)}
    BY <2>1, <2>2, RingEntries
  <2> QED BY <2>3
<1>3. Spec => []Accounted
    BY <1>2, AccountedHolds
<1>4. Spec => []OneCopyPerLink
    BY <1>1, OneCopyPerLinkHolds
<1>. QED BY <1>3, <1>4, PTL
=============================================================================
