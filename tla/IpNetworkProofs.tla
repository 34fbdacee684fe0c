--------------------------- MODULE IpNetworkProofs ---------------------------
(***************************************************************************)
(* For every network without parallel links, whatever the numbers of hosts *)
(* and the order of the links: the processes are started on the right      *)
(* ports and under the numbers the tools look for (StartedRight), and the  *)
(* tables the generator writes agree with the ports the builder has made,  *)
(* so that packets go where they should (OnlyAddressee, FewHops).          *)
(***************************************************************************)
EXTENDS IpNetwork, FiniteSetTheorems, SequenceTheorems, TLAPS

Stages == {"switches", "links", "control", "start", "hosts", "ends", "cli"}

(* The switch links of s among the first n, and the ports s gets in the end *)
(* without the one of the control network.                                 *)
LinksAmong(s, n) == {l \in 1 .. n : s \in Ends(l)}
Size(s) == net.hosts[s] + Cardinality(LinksOf(s))

\* How many ports switch s has so far.
Filled(s) ==
    CASE stage = "switches" -> IF s <= made THEN net.hosts[s] ELSE 0
      [] stage = "links" -> net.hosts[s] + Cardinality(LinksAmong(s, made))
      [] stage = "control" -> IF s <= made THEN Size(s) + 1 ELSE Size(s)
      [] OTHER -> Size(s) + 1

Progress ==
    /\ net \in Networks /\ stage \in Stages /\ made \in Nat
    /\ stage \in {"switches", "control", "start", "hosts"} => made < Len(net.hosts)
    /\ stage \in {"links", "ends"} => made < Len(net.links)
    /\ stage = "switches" => counter = made

Interface == [kind : {"host", "link", "controller"}, switch : Nat, number : Nat]

\* A port for every link made so far.
Wired ==
    /\ ports \in [Switches -> Seq(Interface)]
    /\ \A s \in Switches : Len(ports[s]) = Filled(s)

\* Until the last process is started the only address is the one of the
\* control network, on the port that comes behind all the others.
Addressed ==
    /\ DOMAIN ip = Switches
    /\ stage \in {"switches", "links", "control", "start"} =>
           \A s \in Switches :
               ip[s] = IF stage = "start" \/ (stage = "control" /\ s <= made)
                       THEN {Size(s) + 1} ELSE {}

Attached ==
    /\ DOMAIN attached = Switches
    /\ \A s \in Switches :
           attached[s] = IF \/ stage \in {"switches", "links", "control"}
                            \/ stage = "start" /\ s > made
                         THEN {} ELSE 1 .. Size(s)

Numbered ==
    /\ DOMAIN control = Switches
    /\ DOMAIN device_id = Switches /\ DOMAIN nanomsg = Switches
    /\ \A s \in Switches :
           /\ ~(stage = "switches" /\ s > made) =>
                  device_id[s] = s - 1 /\ nanomsg[s] = s - 1
           /\ ~(stage \in {"switches", "links"} \/ (stage = "control" /\ s > made)) =>
                  control[s] = 100 + 2 * s

StartInv == Progress /\ Wired /\ Addressed /\ Attached /\ Numbered

------------------------------------------------------------------------------
(* The network file.                                                       *)

\* A network: its switches are counted from 1, and a link has two ends.
LEMMA NetworkShape ==
    ASSUME net \in Networks
    PROVE  /\ Len(net.hosts) \in Nat \ {0} /\ Switches = 1 .. Len(net.hosts)
           /\ Len(net.links) \in Nat /\ DOMAIN net.links = 1 .. Len(net.links)
           /\ \A s \in Switches : net.hosts[s] \in Nat
           /\ \A l \in DOMAIN net.links :
                  Ends(l) \subseteq Switches /\ \E t, u \in Ends(l) : t # u
<1>1. /\ net.hosts \in Seq(Nat) /\ net.hosts # <<>>
      /\ net.links \in Seq((DOMAIN net.hosts) \X (DOMAIN net.hosts))
      /\ \A l \in DOMAIN net.links : net.links[l][1] # net.links[l][2]
    BY NetworksAssumption
<1>2. Len(net.hosts) \in Nat \ {0} /\ DOMAIN net.hosts = 1 .. Len(net.hosts)
    BY <1>1
<1>3. Len(net.links) \in Nat /\ DOMAIN net.links = 1 .. Len(net.links)
    BY <1>1
<1>4. \A l \in DOMAIN net.links :
          net.links[l] \in (DOMAIN net.hosts) \X (DOMAIN net.hosts)
    BY <1>1
<1>5. \A s \in DOMAIN net.hosts : net.hosts[s] \in Nat
    BY <1>1
<1>. QED BY <1>1, <1>2, <1>3, <1>4, <1>5 DEF Switches, Ends

\* The far end of a link is an interface.
LEMMA PeerIsSwitch ==
    ASSUME net \in Networks, NEW l \in DOMAIN net.links, NEW s \in Ends(l)
    PROVE  Peer(s, l) \in Switches /\ LinkEnd(Peer(s, l), l) \in Interface
<1>1. \E t \in Ends(l) : t # s
    BY NetworkShape
<1>2. Peer(s, l) \in Ends(l)
    BY <1>1 DEF Peer
<1>3. Peer(s, l) \in Switches /\ Peer(s, l) \in Nat /\ l \in Nat
    BY <1>2, NetworkShape
<1>. QED BY <1>3 DEF LinkEnd, Interface

\* The links of a switch, counted one after the other.
LEMMA CountLinks ==
    ASSUME net \in Networks, NEW s \in Switches
    PROVE  /\ Cardinality(LinksAmong(s, 0)) = 0
           /\ LinksAmong(s, Len(net.links)) = LinksOf(s)
           /\ Cardinality(LinksOf(s)) \in Nat
           /\ \A n \in Nat :
                  /\ Cardinality(LinksAmong(s, n)) \in Nat
                  /\ Cardinality(LinksAmong(s, n + 1)) =
                         Cardinality(LinksAmong(s, n))
                           + (IF s \in Ends(n + 1) THEN 1 ELSE 0)
<1>1. LinksAmong(s, 0) = {}
    BY DEF LinksAmong
<1>2. LinksAmong(s, Len(net.links)) = LinksOf(s) /\ Len(net.links) \in Nat
    BY NetworkShape DEF LinksAmong, LinksOf
<1>3. ASSUME NEW n \in Nat
      PROVE  /\ IsFiniteSet(LinksAmong(s, n))
             /\ Cardinality(LinksAmong(s, n)) \in Nat
    <2>1. IsFiniteSet(1 .. n)
        BY FS_Interval
    <2>2. LinksAmong(s, n) \in SUBSET (1 .. n)
        BY DEF LinksAmong
    <2>3. IsFiniteSet(LinksAmong(s, n))
        BY <2>1, <2>2, FS_Subset
    <2>. QED BY <2>3, FS_CardinalityType
<1>4. ASSUME NEW n \in Nat
      PROVE  Cardinality(LinksAmong(s, n + 1)) =
                 Cardinality(LinksAmong(s, n)) + (IF s \in Ends(n + 1) THEN 1 ELSE 0)
    <2>1. CASE s \in Ends(n + 1)
        <3>1. LinksAmong(s, n + 1) = LinksAmong(s, n) \cup {n + 1}
            BY <2>1 DEF LinksAmong
        <3>2. n + 1 \notin LinksAmong(s, n)
            BY DEF LinksAmong
        <3>. QED BY <1>3, <2>1, <3>1, <3>2, FS_AddElement
    <2>2. CASE s \notin Ends(n + 1)
        <3>1. LinksAmong(s, n + 1) = LinksAmong(s, n)
            BY <2>2 DEF LinksAmong
        <3>. QED BY <1>3, <2>2, <3>1
    <2>. QED BY <2>1, <2>2
<1>5. Cardinality(LinksAmong(s, 0)) = 0
    BY <1>1, FS_EmptySet
<1>6. Cardinality(LinksOf(s)) \in Nat
    BY <1>2, <1>3
<1>. QED BY <1>2, <1>3, <1>4, <1>5, <1>6

LEMMA Sizes ==
    ASSUME net \in Networks, NEW s \in Switches
    PROVE  /\ s \in Nat \ {0} /\ Size(s) \in Nat
           /\ Size(s) = net.hosts[s] + Cardinality(LinksAmong(s, Len(net.links)))
<1>1. s \in Nat \ {0} /\ net.hosts[s] \in Nat
    BY NetworkShape
<1>2. Cardinality(LinksOf(s)) \in Nat
    BY CountLinks
<1>3. LinksAmong(s, Len(net.links)) = LinksOf(s)
    BY CountLinks
<1>. QED BY <1>1, <1>2, <1>3 DEF Size

------------------------------------------------------------------------------
(* The invariant.                                                          *)

LEMMA StartInvInit == Init => StartInv
<1>. SUFFICES ASSUME Init PROVE StartInv
    OBVIOUS
<1>. USE DEF Init, BuilderInit
<1>1. net \in Networks /\ Len(net.hosts) \in Nat \ {0} /\ Switches = 1 .. Len(net.hosts)
    BY NetworkShape
<1>2. Progress
    BY <1>1 DEF Progress, Stages
<1>3. Wired
    BY <1>1 DEF Wired, Filled
<1>4. Addressed /\ Attached
    BY <1>1 DEF Addressed, Attached
<1>5. Numbered
    BY <1>1 DEF Numbered
<1>. QED BY <1>2, <1>3, <1>4, <1>5 DEF StartInv

\* The file of the network does not change.
LEMMA SameNetwork ==
    ASSUME net' = net
    PROVE  /\ Switches' = Switches
           /\ \A s : Size(s)' = Size(s) /\ LinksOf(s)' = LinksOf(s)
           /\ \A s, n : LinksAmong(s, n)' = LinksAmong(s, n)
BY DEF Switches, Size, LinksOf, LinksAmong, Ends

\* An element of a list of n is done.
LEMMA Advanced ==
    ASSUME made \in Nat, NEW n \in Nat, made < n, NEW next, Advance(n, next)
    PROVE  \/ made' = made + 1 /\ stage' = stage /\ made' < n
           \/ made' = 0 /\ stage' = next /\ made + 1 = n
BY DEF Advance

LEMMA AddSwitchKeeps == StartInv /\ AddSwitch => StartInv'
<1>. SUFFICES ASSUME StartInv, AddSwitch PROVE StartInv'
    OBVIOUS
<1>. DEFINE n == made + 1
            N == Len(net.hosts)
<1>1. /\ net \in Networks /\ stage = "switches" /\ made \in Nat /\ made < N
      /\ counter = made
    BY DEF StartInv, Progress, AddSwitch
<1>2. N \in Nat /\ Switches = 1 .. N /\ n \in Switches /\ Len(net.links) \in Nat
    BY <1>1, NetworkShape
<1>3. /\ net' = net /\ Switches' = Switches /\ counter' = counter + 1
      /\ \A s : Size(s)' = Size(s)
      /\ \A s, l : LinksAmong(s, l)' = LinksAmong(s, l)
    BY SameNetwork DEF AddSwitch
<1>4. \/ made' = n /\ stage' = "switches" /\ made' < N
      \/ made' = 0 /\ stage' = LoopOr("links", "control") /\ n = N
    BY <1>1, <1>2, Advanced DEF AddSwitch
<1>5. \/ made' = n /\ stage' = "switches" /\ made' < N
      \/ made' = 0 /\ stage' = "links" /\ n = N /\ net.links # <<>>
      \/ made' = 0 /\ stage' = "control" /\ n = N /\ net.links = <<>>
    BY <1>4 DEF LoopOr
<1>6. Progress'
    <2>1. net.links # <<>> => 0 < Len(net.links)
        BY <1>1, NetworksAssumption
    <2>. QED BY <1>1, <1>2, <1>3, <1>5, <2>1 DEF Progress, Stages
<1>7. Wired'
    <2>. DEFINE own == [j \in 1 .. net.hosts[n] |-> Host(n, j)]
    <2>1. net.hosts[n] \in Nat
        BY <1>1, <1>2, NetworkShape
    <2>2. own \in Seq(Interface) /\ Len(own) = net.hosts[n]
        <3>1. \A j \in 1 .. net.hosts[n] : Host(n, j) \in Interface
            BY <1>2, <2>1 DEF Host, Interface
        <3>2. n \in Nat
            BY <1>2
        <3>. HIDE DEF n
        <3>. QED BY <2>1, <3>1
    <2>3. /\ ports \in [Switches -> Seq(Interface)] /\ ports' = [ports EXCEPT ![n] = own]
          /\ \A s \in Switches : Len(ports[s]) = IF s <= made THEN net.hosts[s] ELSE 0
        BY <1>1 DEF StartInv, Wired, Filled, AddSwitch
    <2>4. ports' \in [Switches -> Seq(Interface)]
        BY <2>2, <2>3
    <2>5. \A s \in Switches : Len(ports'[s]) = IF s <= n THEN net.hosts[s] ELSE 0
        <3>. TAKE s \in Switches
        <3>1. s \in 1 .. N /\ n \in 1 .. N /\ made \in Nat
            BY <1>1, <1>2
        <3>2. CASE s = n
            <4>1. ports'[s] = own
                BY <2>3, <3>1, <3>2, <1>2
            <4>2. Len(ports'[s]) = net.hosts[s]
                BY <2>2, <3>2, <4>1
            <4>3. s <= n
                BY <3>1, <3>2
            <4>. QED BY <4>2, <4>3
        <3>3. CASE s # n
            <4>1. ports'[s] = ports[s]
                BY <2>3, <3>3
            <4>2. s <= n <=> s <= made
                BY <3>1, <3>3
            <4>3. Len(ports[s]) = IF s <= made THEN net.hosts[s] ELSE 0
                BY <2>3
            <4>. QED BY <4>1, <4>2, <4>3
        <3>. QED BY <3>2, <3>3
    <2>6. CASE stage' = "switches"
        BY <1>3, <1>5, <2>4, <2>5, <2>6 DEF Wired, Filled
    <2>7. ASSUME stage' # "switches"
          PROVE  \A s \in Switches : Len(ports'[s]) = net.hosts[s]
        BY <1>2, <1>5, <2>5, <2>7
    <2>8. CASE stage' = "links"
        <3>1. \A s \in Switches :
                  Cardinality(LinksAmong(s, 0)) = 0 /\ net.hosts[s] \in Nat
            BY <1>1, CountLinks, NetworkShape
        <3>2. \A s \in Switches : Len(ports'[s]) = Filled(s)'
            BY <1>3, <1>5, <2>7, <2>8, <3>1 DEF Filled
        <3>. QED BY <1>3, <2>4, <3>2 DEF Wired
    <2>9. CASE stage' = "control"
        <3>1. Len(net.links) = 0
            BY <1>5, <2>9
        <3>2. \A s \in Switches : Size(s) = net.hosts[s] /\ s > 0
            <4>. TAKE s \in Switches
            <4>1. Size(s) = net.hosts[s] + Cardinality(LinksAmong(s, 0))
                BY <1>1, <3>1, Sizes
            <4>2. Cardinality(LinksAmong(s, 0)) = 0
                BY <1>1, CountLinks
            <4>3. net.hosts[s] \in Nat /\ s > 0
                BY <1>1, <1>2, NetworkShape
            <4>. QED BY <4>1, <4>2, <4>3
        <3>3. \A s \in Switches : Len(ports'[s]) = Filled(s)'
            BY <1>2, <1>3, <1>5, <2>7, <2>9, <3>2 DEF Filled
        <3>. QED BY <1>3, <2>4, <3>3 DEF Wired
    <2>. QED BY <1>5, <2>6, <2>8, <2>9
<1>8. Addressed'
    <2>1. ip' = ip /\ DOMAIN ip = Switches /\ \A s \in Switches : ip[s] = {} /\ s > 0
        BY <1>1, <1>2 DEF StartInv, Addressed, AddSwitch
    <2>2. \A s \in Switches : ~(stage' = "start" \/ (stage' = "control" /\ s <= made'))
        BY <1>2, <1>5
    <2>. QED BY <1>3, <2>1, <2>2 DEF Addressed
<1>9. Attached'
    <2>1. /\ attached' = attached /\ DOMAIN attached = Switches
          /\ \A s \in Switches : attached[s] = {}
        BY <1>1 DEF StartInv, Attached, AddSwitch
    <2>. QED BY <1>3, <1>5, <2>1 DEF Attached
<1>10. Numbered'
    <2>1. /\ control' = control /\ DOMAIN control = Switches
          /\ device_id' = [device_id EXCEPT ![n] = made] /\ DOMAIN device_id = Switches
          /\ nanomsg' = [nanomsg EXCEPT ![n] = made] /\ DOMAIN nanomsg = Switches
        BY <1>1 DEF StartInv, Numbered, AddSwitch
    <2>2. \A s \in Switches : s <= made => device_id[s] = s - 1 /\ nanomsg[s] = s - 1
        BY <1>1, <1>2 DEF StartInv, Numbered
    <2>3. \A s \in Switches : s <= n => device_id'[s] = s - 1 /\ nanomsg'[s] = s - 1
        BY <1>1, <1>2, <2>1, <2>2
    <2>4. \A s \in Switches :
              stage' \in {"switches", "links"} \/ (stage' = "control" /\ s > made')
        BY <1>2, <1>5
    <2>5. \A s \in Switches : ~(stage' = "switches" /\ s > made') => s <= n
        BY <1>2, <1>5
    <2>6. DOMAIN device_id' = Switches /\ DOMAIN nanomsg' = Switches
        BY <2>1
    <2>. QED BY <1>3, <2>1, <2>3, <2>4, <2>5, <2>6 DEF Numbered
<1>. QED BY <1>6, <1>7, <1>8, <1>9, <1>10 DEF StartInv

LEMMA AddLinkKeeps == StartInv /\ AddLink => StartInv'
<1>. SUFFICES ASSUME StartInv, AddLink PROVE StartInv'
    OBVIOUS
<1>. DEFINE l == made + 1
            M == Len(net.links)
<1>1. /\ net \in Networks /\ stage = "links" /\ made \in Nat /\ made < M
    BY DEF StartInv, Progress, AddLink
<1>2. /\ M \in Nat /\ l \in DOMAIN net.links /\ Len(net.hosts) \in Nat \ {0}
      /\ Switches = 1 .. Len(net.hosts)
    BY <1>1, NetworkShape
<1>3. /\ net' = net /\ Switches' = Switches /\ \A s : Size(s)' = Size(s)
      /\ \A s, n : LinksAmong(s, n)' = LinksAmong(s, n)
      /\ ip' = ip /\ attached' = attached /\ control' = control
      /\ device_id' = device_id /\ nanomsg' = nanomsg
    BY SameNetwork DEF AddLink
<1>4. \/ made' = l /\ stage' = "links" /\ made' < M
      \/ made' = 0 /\ stage' = "control" /\ l = M
    BY <1>1, <1>2, Advanced DEF AddLink
<1>5. Progress'
    BY <1>1, <1>2, <1>3, <1>4 DEF Progress, Stages
<1>6. Wired'
    <2>1. /\ ports \in [Switches -> Seq(Interface)]
          /\ \A s \in Switches :
                 Len(ports[s]) = net.hosts[s] + Cardinality(LinksAmong(s, made))
        BY <1>1 DEF StartInv, Wired, Filled
    <2>2. ASSUME NEW s \in Switches
          PROVE  /\ ports'[s] \in Seq(Interface)
                 /\ Len(ports'[s]) = net.hosts[s] + Cardinality(LinksAmong(s, l))
        <3>1. /\ net.hosts[s] \in Nat /\ Cardinality(LinksAmong(s, made)) \in Nat
              /\ Cardinality(LinksAmong(s, l)) =
                     Cardinality(LinksAmong(s, made)) + (IF s \in Ends(l) THEN 1 ELSE 0)
            BY <1>1, CountLinks, NetworkShape
        <3>2. CASE s \in Ends(l)
            <4>1. ports'[s] = Append(ports[s], LinkEnd(Peer(s, l), l))
                BY <3>2 DEF AddLink
            <4>2. LinkEnd(Peer(s, l), l) \in Interface
                BY <1>1, <1>2, <3>2, PeerIsSwitch
            <4>3. ports[s] \in Seq(Interface)
                BY <2>1
            <4>4. /\ ports'[s] \in Seq(Interface)
                  /\ Len(ports'[s]) = Len(ports[s]) + 1
                BY <4>1, <4>2, <4>3
            <4>5. Len(ports[s]) = net.hosts[s] + Cardinality(LinksAmong(s, made))
                BY <2>1
            <4>6. Cardinality(LinksAmong(s, l)) = Cardinality(LinksAmong(s, made)) + 1
                BY <3>1, <3>2
            <4>7. (net.hosts[s] + Cardinality(LinksAmong(s, made))) + 1 =
                      net.hosts[s] + (Cardinality(LinksAmong(s, made)) + 1)
                BY <3>1
            <4>. QED BY <4>4, <4>5, <4>6, <4>7
        <3>3. CASE s \notin Ends(l)
            <4>1. ports'[s] = ports[s]
                BY <3>3 DEF AddLink
            <4>2. /\ ports[s] \in Seq(Interface)
                  /\ Len(ports[s]) = net.hosts[s] + Cardinality(LinksAmong(s, made))
                BY <2>1
            <4>3. Cardinality(LinksAmong(s, l)) = Cardinality(LinksAmong(s, made))
                BY <3>1, <3>3
            <4>. QED BY <4>1, <4>2, <4>3
        <3>. QED BY <3>2, <3>3
    <2>3. ports' = [s \in Switches |-> ports'[s]]
        BY DEF AddLink
    <2>4. ports' \in [Switches -> Seq(Interface)]
        BY <2>2, <2>3
    <2>5. CASE stage' = "links"
        BY <1>3, <1>4, <2>2, <2>4, <2>5 DEF Wired, Filled
    <2>6. CASE stage' = "control"
        <3>1. \A s \in Switches :
                  /\ Size(s) = net.hosts[s] + Cardinality(LinksAmong(s, M))
                  /\ s > 0 /\ Size(s) \in Nat
            BY <1>1, Sizes
        <3>2. l = M /\ made' = 0
            BY <1>4, <2>6
        <3>3. \A s \in Switches : Len(ports'[s]) = Size(s) /\ ~(s <= made')
            BY <1>2, <2>2, <3>1, <3>2
        <3>4. \A s \in Switches : Len(ports'[s]) = Filled(s)'
            BY <1>3, <2>6, <3>3 DEF Filled
        <3>. QED BY <1>3, <2>4, <3>4 DEF Wired
    <2>. QED BY <1>4, <2>5, <2>6
<1>7. \A s \in Switches : ~(stage' = "control" /\ s <= made')
    BY <1>2, <1>4
<1>8. Addressed'
    BY <1>1, <1>3, <1>4, <1>7 DEF StartInv, Addressed
<1>9. Attached'
    BY <1>1, <1>3, <1>4 DEF StartInv, Attached
<1>10. Numbered'
    <2>1. \A s \in Switches :
              stage' \in {"switches", "links"} \/ (stage' = "control" /\ s > made')
        BY <1>2, <1>4
    <2>. QED BY <1>1, <1>3, <1>4, <2>1 DEF StartInv, Numbered
<1>. QED BY <1>5, <1>6, <1>8, <1>9, <1>10 DEF StartInv

LEMMA ConfigureControlKeeps == StartInv /\ ConfigureControl => StartInv'
<1>. SUFFICES ASSUME StartInv, ConfigureControl PROVE StartInv'
    OBVIOUS
<1>. DEFINE n == made + 1
            N == Len(net.hosts)
<1>1. net \in Networks /\ stage = "control" /\ made \in Nat /\ made < N
    BY DEF StartInv, Progress, ConfigureControl
<1>2. N \in Nat \ {0} /\ Switches = 1 .. N /\ n \in Switches
    BY <1>1, NetworkShape
<1>3. /\ net' = net /\ Switches' = Switches /\ \A s : Size(s)' = Size(s)
      /\ attached' = attached /\ device_id' = device_id /\ nanomsg' = nanomsg
    BY SameNetwork DEF ConfigureControl
<1>4. \/ made' = n /\ stage' = "control" /\ made' < N
      \/ made' = 0 /\ stage' = "start" /\ n = N
    BY <1>1, <1>2, Advanced DEF ConfigureControl
<1>5. \A s \in Switches :
          (s = n \/ s <= made) <=> (stage' = "start" \/ (stage' = "control" /\ s <= made'))
    BY <1>1, <1>2, <1>4
<1>6. \A s \in Switches : Size(s) \in Nat
    BY <1>1, Sizes
<1>7. Progress'
    BY <1>1, <1>2, <1>3, <1>4 DEF Progress, Stages
<1>8. /\ ports \in [Switches -> Seq(Interface)]
      /\ \A s \in Switches : Len(ports[s]) = IF s <= made THEN Size(s) + 1 ELSE Size(s)
    BY <1>1 DEF StartInv, Wired, Filled
<1>9. Len(ports[n]) = Size(n)
    BY <1>1, <1>2, <1>8
<1>10. Wired'
    <2>1. /\ ports' = [ports EXCEPT ![n] = Append(@, Controller(n))]
          /\ Controller(n) \in Interface
        BY <1>2 DEF ConfigureControl, Controller, Interface
    <2>2. ASSUME NEW s \in Switches
          PROVE  /\ ports'[s] \in Seq(Interface)
                 /\ Len(ports'[s]) = IF s = n \/ s <= made THEN Size(s) + 1 ELSE Size(s)
        <3>1. CASE s = n
            <4>1. ports'[s] = Append(ports[s], Controller(n)) /\ ports[s] \in Seq(Interface)
                BY <1>8, <2>1, <3>1
            <4>2. ports'[s] \in Seq(Interface) /\ Len(ports'[s]) = Len(ports[s]) + 1
                BY <2>1, <4>1
            <4>. QED BY <1>9, <3>1, <4>2
        <3>2. CASE s # n
            <4>1. ports'[s] = ports[s]
                BY <1>8, <2>1, <3>2
            <4>. QED BY <1>8, <3>2, <4>1
        <3>. QED BY <3>1, <3>2
    <2>3. ports' \in [Switches -> Seq(Interface)]
        BY <1>8, <2>1, <2>2
    <2>4. \A s \in Switches : Len(ports'[s]) = Filled(s)'
        BY <1>3, <1>4, <1>5, <2>2 DEF Filled
    <2>. QED BY <1>3, <2>3, <2>4 DEF Wired
<1>11. Addressed'
    <2>1. /\ ip' = [ip EXCEPT ![n] = @ \cup {Size(n) + 1}] /\ DOMAIN ip = Switches
          /\ \A s \in Switches : ip[s] = IF s <= made THEN {Size(s) + 1} ELSE {}
        BY <1>1, <1>9 DEF StartInv, Addressed, ConfigureControl
    <2>2. \A s \in Switches : ip'[s] = IF s = n \/ s <= made THEN {Size(s) + 1} ELSE {}
        BY <1>2, <2>1
    <2>. QED BY <1>3, <1>4, <1>5, <2>1, <2>2 DEF Addressed
<1>12. Attached'
    <2>1. \A s \in Switches : ~(stage' = "start" /\ ~(s > made'))
        BY <1>2, <1>4
    <2>. QED BY <1>1, <1>3, <1>4, <2>1 DEF StartInv, Attached
<1>13. Numbered'
    <2>1. /\ control' = [control EXCEPT ![n] = 100 + 2 * made + 2]
          /\ DOMAIN control = Switches
          /\ \A s \in Switches : ~(s > made) => control[s] = 100 + 2 * s
        BY <1>1 DEF StartInv, Numbered, ConfigureControl
    <2>2. \A s \in Switches : s = n \/ s <= made => control'[s] = 100 + 2 * s
        BY <1>1, <1>2, <2>1
    <2>3. \A s \in Switches :
              ~(stage' \in {"switches", "links"} \/ (stage' = "control" /\ s > made'))
                  => s = n \/ s <= made
        BY <1>1, <1>2, <1>4
    <2>. QED BY <1>1, <1>3, <1>4, <2>1, <2>2, <2>3 DEF StartInv, Numbered
<1>. QED BY <1>7, <1>10, <1>11, <1>12, <1>13 DEF StartInv

LEMMA StartKeeps == StartInv /\ Start => StartInv'
<1>. SUFFICES ASSUME StartInv, Start PROVE StartInv'
    OBVIOUS
<1>. DEFINE n == made + 1
            N == Len(net.hosts)
<1>1. net \in Networks /\ stage = "start" /\ made \in Nat /\ made < N
    BY DEF StartInv, Progress, Start
<1>2. N \in Nat \ {0} /\ Switches = 1 .. N /\ n \in Switches
    BY <1>1, NetworkShape
<1>3. /\ net' = net /\ Switches' = Switches /\ \A s : Size(s)' = Size(s)
      /\ ports' = ports /\ ip' = ip /\ control' = control
      /\ device_id' = device_id /\ nanomsg' = nanomsg
    BY SameNetwork DEF Start
<1>4. \/ made' = n /\ stage' = "start" /\ made' < N
      \/ made' = 0 /\ stage' = "hosts" /\ n = N
    BY <1>1, <1>2, Advanced DEF Start
<1>5. \A s \in Switches : Size(s) \in Nat
    BY <1>1, Sizes
<1>6. Progress'
    BY <1>1, <1>2, <1>3, <1>4 DEF Progress, Stages
<1>7. /\ ports \in [Switches -> Seq(Interface)]
      /\ \A s \in Switches : Len(ports[s]) = Size(s) + 1
    BY <1>1 DEF StartInv, Wired, Filled
<1>8. Wired'
    BY <1>3, <1>4, <1>7 DEF Wired, Filled
<1>9. Addressed'
    BY <1>1, <1>3, <1>4 DEF StartInv, Addressed
<1>10. Attached'
    <2>1. DOMAIN ports[n] = 1 .. Size(n) + 1
        BY <1>2, <1>7
    <2>2. ip[n] = {Size(n) + 1}
        BY <1>1, <1>2 DEF StartInv, Addressed
    <2>3. attached' = [attached EXCEPT ![n] = 1 .. Size(n)]
        <3>1. attached' = [attached EXCEPT ![n] = DOMAIN ports[n] \ ip[n]]
            BY DEF Start
        <3>2. Size(n) \in Nat
            BY <1>2, <1>5
        <3>3. (1 .. Size(n) + 1) \ {Size(n) + 1} = 1 .. Size(n)
            BY <3>2
        <3>. QED BY <2>1, <2>2, <3>1, <3>3
    <2>4. /\ DOMAIN attached = Switches
          /\ \A s \in Switches : attached[s] = IF s > made THEN {} ELSE 1 .. Size(s)
        BY <1>1 DEF StartInv, Attached
    <2>5. \A s \in Switches : attached'[s] = IF s > n THEN {} ELSE 1 .. Size(s)
        <3>. TAKE s \in Switches
        <3>1. CASE s = n
            BY <1>1, <2>3, <2>4, <3>1
        <3>2. CASE s # n
            <4>1. attached'[s] = attached[s]
                BY <2>3, <3>2
            <4>2. s > n <=> s > made
                BY <1>1, <1>2, <3>2
            <4>. QED BY <2>4, <4>1, <4>2
        <3>. QED BY <3>1, <3>2
    <2>6. stage' # "start" => \A s \in Switches : ~(s > n)
        BY <1>2, <1>4
    <2>7. DOMAIN attached' = Switches
        BY <2>3, <2>4
    <2>. QED BY <1>3, <1>4, <2>5, <2>6, <2>7 DEF Attached
<1>11. Numbered'
    BY <1>1, <1>3, <1>4 DEF StartInv, Numbered
<1>. QED BY <1>6, <1>8, <1>9, <1>10, <1>11 DEF StartInv

\* Giving out the other addresses changes none of it any more.
LEMMA AddressKeeps == StartInv /\ (AddressHosts \/ AddressLink) => StartInv'
<1>. SUFFICES ASSUME StartInv, AddressHosts \/ AddressLink PROVE StartInv'
    OBVIOUS
<1>1. /\ stage \in {"hosts", "ends"} /\ net \in Networks /\ made \in Nat
      /\ stage = "hosts" => made < Len(net.hosts)
      /\ stage = "ends" => made < Len(net.links)
    BY DEF StartInv, Progress, AddressHosts, AddressLink
<1>2. /\ net' = net /\ Switches' = Switches /\ \A s : Size(s)' = Size(s)
      /\ ports' = ports /\ attached' = attached /\ control' = control
      /\ device_id' = device_id /\ nanomsg' = nanomsg
    BY SameNetwork DEF AddressHosts, AddressLink
<1>3. /\ stage' \in {"hosts", "ends", "cli"} /\ made' \in Nat
      /\ stage' = "hosts" => made' < Len(net.hosts)
      /\ stage' = "ends" => made' < Len(net.links)
    <2>1. net.links # <<>> => 0 < Len(net.links)
        BY <1>1, NetworksAssumption
    <2>. QED BY <1>1, <2>1 DEF AddressHosts, AddressLink, Advance, LoopOr
<1>4. Progress'
    BY <1>1, <1>2, <1>3 DEF Progress, Stages
<1>5. Wired'
    <2>1. ports \in [Switches -> Seq(Interface)]
        BY DEF StartInv, Wired
    <2>2. \A s \in Switches : Len(ports[s]) = Size(s) + 1
        BY <1>1 DEF StartInv, Wired, Filled
    <2>. QED BY <1>2, <1>3, <2>1, <2>2 DEF Wired, Filled
<1>6. Addressed'
    <2>1. DOMAIN ip = Switches
        BY DEF StartInv, Addressed
    <2>2. DOMAIN ip' = Switches
        BY <2>1 DEF AddressHosts, AddressLink
    <2>. QED BY <1>2, <1>3, <2>2 DEF Addressed
<1>7. Attached'
    BY <1>1, <1>2, <1>3 DEF StartInv, Attached
<1>8. Numbered'
    BY <1>1, <1>2, <1>3 DEF StartInv, Numbered
<1>. QED BY <1>4, <1>5, <1>6, <1>7, <1>8 DEF StartInv

\* A step that leaves the builder alone.
LEMMA BuiltKeeps == StartInv /\ UNCHANGED builder => StartInv'
<1>. SUFFICES ASSUME StartInv, UNCHANGED builder PROVE StartInv'
    OBVIOUS
<1>1. /\ net' = net /\ Switches' = Switches /\ \A s : Size(s)' = Size(s)
      /\ \A s, n : LinksAmong(s, n)' = LinksAmong(s, n)
      /\ UNCHANGED <<stage, made, ports, ip, attached, control, device_id, nanomsg, counter>>
    BY SameNetwork DEF builder
<1>2. Progress'
    BY <1>1 DEF StartInv, Progress
<1>3. Wired'
    BY <1>1 DEF StartInv, Wired, Filled
<1>4. Addressed'
    BY <1>1 DEF StartInv, Addressed
<1>5. Attached'
    BY <1>1 DEF StartInv, Attached
<1>6. Numbered'
    BY <1>1 DEF StartInv, Numbered
<1>. QED BY <1>2, <1>3, <1>4, <1>5, <1>6 DEF StartInv

LEMMA StartInvSuffices == StartInv => StartedRight
<1>. SUFFICES ASSUME StartInv, NEW s \in Switches, attached[s] # {}
              PROVE  /\ attached[s] = 1 .. net.hosts[s] + Cardinality(LinksOf(s))
                     /\ control[s] = CliAddress(s)
                     /\ control[s] = MonitorAddress(device_id[s])
                     /\ control[s] = control_network_ip(s)
                     /\ nanomsg[s] = device_id[s]
                     /\ \A t \in Switches : control[t] = control[s] => t = s
    BY DEF StartedRight
<1>1. ~(stage \in {"switches", "links", "control"}) /\ attached[s] = 1 .. Size(s)
    BY DEF StartInv, Attached
<1>2. net \in Networks
    BY DEF StartInv, Progress
<1>3. \A t \in Switches : control[t] = 100 + 2 * t
    BY <1>1 DEF StartInv, Numbered
<1>4. device_id[s] = s - 1 /\ nanomsg[s] = s - 1
    BY <1>1 DEF StartInv, Numbered
<1>5. \A t \in Switches : t \in Nat
    BY <1>2, NetworkShape
<1>. QED BY <1>1, <1>3, <1>4, <1>5
         DEF Size, CliAddress, MonitorAddress, control_network_ip

(***************************************************************************)
(* Whatever the topology, a switch whose process runs has its host and     *)
(* link ports and not the one of the control network, and cli.py, the      *)
(* monitor and the network file all name its address and its log           *)
(* (P4Router.start, configureControlNetwork).                              *)
(***************************************************************************)
THEOREM StartedRightHolds == Spec => []StartedRight
<1>1. Init => StartInv
    BY StartInvInit
<1>2. StartInv /\ [Next]_vars => StartInv'
    <2>. SUFFICES ASSUME StartInv, [Next]_vars PROVE StartInv'
        OBVIOUS
    <2>1. CASE Construct
        BY <2>1, AddSwitchKeeps, AddLinkKeeps, ConfigureControlKeeps, StartKeeps,
           AddressKeeps DEF Construct, Build
    <2>2. CASE UNCHANGED builder
        BY <2>2, BuiltKeeps
    <2>3. ASSUME Next, ~Construct
          PROVE  UNCHANGED builder
        BY <2>3 DEF Next, Load, Send, Hop, Drop, Take
    <2>4. UNCHANGED vars => UNCHANGED builder
        BY DEF vars
    <2>. QED BY <2>1, <2>2, <2>3, <2>4
<1>3. StartInv => StartedRight
    BY StartInvSuffices
<1>. QED BY <1>1, <1>2, <1>3, PTL DEF Spec

------------------------------------------------------------------------------
(* Where the ports lead.                                                   *)

\* The port of switch s at which its switch link l ends.
PortOf(s, l) == net.hosts[s] + Cardinality(LinksAmong(s, l))

\* Every switch has fewer than eight ports for hosts and links: action_port
\* is written with leading zeros, and its reading is that of another number
\* from eight on.
FewPorts ==
    \A n \in Networks : \A s \in DOMAIN n.hosts :
        n.hosts[s] + Cardinality({l \in DOMAIN n.links :
                                     s \in {n.links[l][1], n.links[l][2]}}) < 8

\* A link has a port of its own behind those of the hosts.
LEMMA PortsOfLinks ==
    ASSUME net \in Networks, NEW s \in Switches, NEW l \in LinksOf(s)
    PROVE  /\ PortOf(s, l) \in net.hosts[s] + 1 .. Size(s)
           /\ \A m \in LinksOf(s) : PortOf(s, m) = PortOf(s, l) => m = l
<1>1. /\ LinksOf(s) \subseteq 1 .. Len(net.links) /\ Len(net.links) \in Nat
      /\ net.hosts[s] \in Nat
    BY NetworkShape DEF LinksOf
<1>2. /\ IsFiniteSet(LinksOf(s))
      /\ \A m \in LinksOf(s) :
             /\ m \in LinksAmong(s, m) /\ LinksAmong(s, m) \subseteq LinksOf(s)
             /\ IsFiniteSet(LinksAmong(s, m))
             /\ Cardinality(LinksAmong(s, m)) \in Nat \ {0}
             /\ Cardinality(LinksAmong(s, m)) <= Cardinality(LinksOf(s))
    <2>1. IsFiniteSet(LinksOf(s))
        <3>1. \A n \in Nat : IsFiniteSet(1 .. n)
            BY FS_Interval
        <3>2. IsFiniteSet(1 .. Len(net.links))
            BY <1>1, <3>1
        <3>3. LinksOf(s) \in SUBSET (1 .. Len(net.links))
            BY <1>1
        <3>. QED BY <3>2, <3>3, FS_Subset
    <2>2. ASSUME NEW m \in LinksOf(s)
          PROVE  m \in LinksAmong(s, m) /\ LinksAmong(s, m) \subseteq LinksOf(s)
        BY <1>1, NetworkShape DEF LinksAmong, LinksOf
    <2>3. ASSUME NEW m \in LinksOf(s)
          PROVE  /\ IsFiniteSet(LinksAmong(s, m))
                 /\ Cardinality(LinksAmong(s, m)) \in Nat \ {0}
                 /\ Cardinality(LinksAmong(s, m)) <= Cardinality(LinksOf(s))
        <3>1. LinksAmong(s, m) \in SUBSET LinksOf(s) /\ LinksAmong(s, m) # {}
            BY <2>2
        <3>. QED BY <2>1, <3>1, FS_Subset, FS_CardinalityType, FS_EmptySet
    <2>. QED BY <2>1, <2>2, <2>3
<1>3. ASSUME NEW k \in LinksOf(s), NEW m \in LinksOf(s), k < m
      PROVE  Cardinality(LinksAmong(s, k)) < Cardinality(LinksAmong(s, m))
    <2>1. LinksAmong(s, k) \in SUBSET LinksAmong(s, m) /\ m \notin LinksAmong(s, k)
        BY <1>1, <1>3 DEF LinksAmong
    <2>2. /\ Cardinality(LinksAmong(s, k)) <= Cardinality(LinksAmong(s, m))
          /\ Cardinality(LinksAmong(s, k)) # Cardinality(LinksAmong(s, m))
        BY <1>2, <2>1, FS_Subset
    <2>. QED BY <1>2, <2>2
<1>4. PortOf(s, l) \in net.hosts[s] + 1 .. Size(s)
    <2>1. /\ Cardinality(LinksAmong(s, l)) \in Nat \ {0}
          /\ Cardinality(LinksOf(s)) \in Nat
          /\ Cardinality(LinksAmong(s, l)) <= Cardinality(LinksOf(s))
        BY <1>2, CountLinks
    <2>. QED BY <1>1, <2>1 DEF PortOf, Size
<1>5. ASSUME NEW m \in LinksOf(s), PortOf(s, m) = PortOf(s, l)
      PROVE  m = l
    <2>1. Cardinality(LinksAmong(s, m)) = Cardinality(LinksAmong(s, l))
        BY <1>1, <1>2, <1>5 DEF PortOf
    <2>2. m \in Nat /\ l \in Nat
        BY <1>1
    <2>. QED BY <1>2, <1>3, <2>1, <2>2
<1>. QED BY <1>4, <1>5

------------------------------------------------------------------------------
(* The interfaces at both ends of the ports, the far one from the moment   *)
(* the port is made, the near one from when it gets its addresses.         *)

FarEnd(s, p, i) ==
    \/ p \in 1 .. net.hosts[s] /\ i = Host(s, p)
    \/ \E l \in LinksOf(s) : p = PortOf(s, l) /\ i = LinkEnd(Peer(s, l), l)
    \/ p = Size(s) + 1 /\ i = Controller(s)

Led == \A s \in Switches : \A p \in DOMAIN ports[s] : FarEnd(s, p, ports[s][p])

Name == [kind : {"unset", "gateway", "link", "control"}, switch : Nat, number : Nat]

Named ==
    /\ mac \in [Switches -> Seq(Name)]
    /\ \A s \in Switches :
           /\ Len(mac[s]) = Len(ports[s])
           /\ stage \in {"ends", "cli"} \/ (stage = "hosts" /\ s <= made) =>
                  \A j \in 1 .. net.hosts[s] : mac[s][j] = Gateway(s, j)
           /\ \A l \in LinksOf(s) :
                  stage = "cli" \/ (stage = "ends" /\ l <= made) =>
                      mac[s][PortOf(s, l)] = LinkEnd(s, l)

LEMMA SamePorts ==
    ASSUME net' = net
    PROVE  /\ \A s, l : PortOf(s, l)' = PortOf(s, l)
           /\ \A s, p, i : FarEnd(s, p, i)' = FarEnd(s, p, i)
<1>1. \A s, l : PortOf(s, l)' = PortOf(s, l)
    BY SameNetwork DEF PortOf
<1>2. \A s, l : LinkEnd(Peer(s, l), l)' = LinkEnd(Peer(s, l), l)
    BY DEF Peer, Ends, LinkEnd
<1>3. \A s, p, i : FarEnd(s, p, i)' = FarEnd(s, p, i)
    BY <1>1, <1>2, SameNetwork DEF FarEnd, Host, Controller
<1>. QED BY <1>1, <1>3

\* Once all ports are made it is known where each leads, and PortTo finds it.
LEMMA PortsKnown ==
    ASSUME StartInv, Led, stage \in {"start", "hosts", "ends", "cli"},
           NEW s \in Switches
    PROVE  /\ \A j \in 1 .. net.hosts[s] :
                  ports[s][j] = Host(s, j) /\ PortTo(s, Host(s, j)) = j
           /\ \A l \in LinksOf(s) :
                  LET i == LinkEnd(Peer(s, l), l)
                  IN  ports[s][PortOf(s, l)] = i /\ PortTo(s, i) = PortOf(s, l)
           /\ \A p \in net.hosts[s] + 1 .. Size(s) :
                  \E l \in LinksOf(s) : p = PortOf(s, l)
<1>1. /\ net \in Networks /\ DOMAIN ports[s] = 1 .. Size(s) + 1
      /\ \A p \in 1 .. Size(s) + 1 : FarEnd(s, p, ports[s][p])
    <2>1. ports[s] \in Seq(Interface) /\ Len(ports[s]) = Size(s) + 1
        BY DEF StartInv, Wired, Filled
    <2>. QED BY <2>1 DEF StartInv, Progress, Led
<1>2. /\ net.hosts[s] \in Nat /\ Size(s) \in Nat /\ net.hosts[s] <= Size(s)
    <2>1. net.hosts[s] \in Nat
        BY <1>1, NetworkShape
    <2>2. Cardinality(LinksOf(s)) \in Nat
        BY <1>1, CountLinks
    <2>. QED BY <2>1, <2>2 DEF Size
<1>3. \A l \in LinksOf(s) : PortOf(s, l) \in net.hosts[s] + 1 .. Size(s)
    BY <1>1, PortsOfLinks
<1>4. ASSUME NEW j \in 1 .. net.hosts[s]
      PROVE  ports[s][j] = Host(s, j) /\ PortTo(s, Host(s, j)) = j
    <2>1. j \in 1 .. Size(s) + 1 /\ j # Size(s) + 1
          /\ \A l \in LinksOf(s) : j # PortOf(s, l)
        BY <1>2, <1>3
    <2>2. ports[s][j] = Host(s, j)
        BY <1>1, <2>1 DEF FarEnd
    <2>3. ASSUME NEW p \in DOMAIN ports[s], ports[s][p] = Host(s, j)
          PROVE  p = j
        <3>1. ports[s][p].kind = "host" /\ ports[s][p].number = j
            BY <2>3 DEF Host
        <3>2. /\ \A l : LinkEnd(Peer(s, l), l).kind # "host"
              /\ Controller(s).kind # "host" /\ Host(s, p).number = p
            BY DEF LinkEnd, Controller, Host
        <3>3. FarEnd(s, p, ports[s][p])
            BY <1>1
        <3>. QED BY <3>1, <3>2, <3>3 DEF FarEnd
    <2>. QED BY <1>1, <2>1, <2>2, <2>3 DEF PortTo
<1>5. ASSUME NEW l \in LinksOf(s)
      PROVE  /\ ports[s][PortOf(s, l)] = LinkEnd(Peer(s, l), l)
             /\ PortTo(s, LinkEnd(Peer(s, l), l)) = PortOf(s, l)
    <2>1. /\ PortOf(s, l) \in 1 .. Size(s) + 1 /\ PortOf(s, l) # Size(s) + 1
          /\ PortOf(s, l) \notin 1 .. net.hosts[s]
        BY <1>2, <1>3
    <2>2. ports[s][PortOf(s, l)] = LinkEnd(Peer(s, l), l)
        <3>1. PICK m \in LinksOf(s) :
                  /\ PortOf(s, l) = PortOf(s, m)
                  /\ ports[s][PortOf(s, l)] = LinkEnd(Peer(s, m), m)
            BY <1>1, <2>1 DEF FarEnd
        <3>2. m = l
            BY <1>1, <3>1, PortsOfLinks
        <3>. QED BY <3>1, <3>2
    <2>3. ASSUME NEW p \in DOMAIN ports[s], ports[s][p] = LinkEnd(Peer(s, l), l)
          PROVE  p = PortOf(s, l)
        <3>1. ports[s][p].kind = "link" /\ ports[s][p].number = l
            BY <2>3 DEF LinkEnd
        <3>2. /\ Host(s, p).kind # "link" /\ Controller(s).kind # "link"
              /\ \A m : LinkEnd(Peer(s, m), m).number = m
            BY DEF LinkEnd, Controller, Host
        <3>3. FarEnd(s, p, ports[s][p])
            BY <1>1
        <3>. QED BY <3>1, <3>2, <3>3 DEF FarEnd
    <2>. QED BY <1>1, <2>1, <2>2, <2>3 DEF PortTo
<1>6. ASSUME NEW p \in net.hosts[s] + 1 .. Size(s)
      PROVE  \E l \in LinksOf(s) : p = PortOf(s, l)
    <2>1. p \in 1 .. Size(s) + 1 /\ p # Size(s) + 1 /\ p \notin 1 .. net.hosts[s]
        BY <1>2
    <2>. QED BY <1>1, <2>1 DEF FarEnd
<1>. QED BY <1>4, <1>5, <1>6

LEMMA InitLeads == Init => Led /\ Named
<1>. SUFFICES ASSUME Init PROVE Led /\ Named
    OBVIOUS
<1>. USE DEF Init, BuilderInit
<1>1. Led
    BY DEF Led
<1>2. Named
    BY DEF Named
<1>. QED BY <1>1, <1>2

LEMMA AddSwitchLeads == StartInv /\ Led /\ Named /\ AddSwitch => Led' /\ Named'
<1>. SUFFICES ASSUME StartInv, Led, Named, AddSwitch PROVE Led' /\ Named'
    OBVIOUS
<1>. DEFINE n == made + 1
            own == [j \in 1 .. net.hosts[n] |-> Host(n, j)]
            none == [j \in 1 .. net.hosts[n] |-> Unset]
<1>1. /\ net \in Networks /\ stage = "switches" /\ made \in Nat /\ made < Len(net.hosts)
      /\ net' = net /\ Switches' = Switches
      /\ ports' = [ports EXCEPT ![n] = own] /\ mac' = [mac EXCEPT ![n] = none]
    BY SameNetwork DEF StartInv, Progress, AddSwitch
<1>2. n \in Switches /\ net.hosts[n] \in Nat
    BY <1>1, NetworkShape
<1>3. ports \in [Switches -> Seq(Interface)] /\ mac \in [Switches -> Seq(Name)]
    BY DEF StartInv, Wired, Named
<1>4. /\ ports'[n] = own /\ mac'[n] = none
      /\ \A s \in Switches \ {n} : ports'[s] = ports[s] /\ mac'[s] = mac[s]
    BY <1>1, <1>2, <1>3
<1>5. Led'
    <2>1. \A s \in Switches : \A p \in DOMAIN ports'[s] : FarEnd(s, p, ports'[s][p])
        BY <1>2, <1>4 DEF Led, FarEnd
    <2>. QED BY <1>1, <2>1, SamePorts DEF Led
<1>6. stage' \notin {"hosts", "ends", "cli"}
    BY <1>1 DEF AddSwitch, Advance, LoopOr
<1>7. Named'
    <2>1. none \in Seq(Name) /\ Len(none) = net.hosts[n]
        <3>1. Unset \in Name
            BY DEF Unset, Name
        <3>. HIDE DEF n
        <3>. QED BY <1>2, <3>1
    <2>2. Len(own) = net.hosts[n]
        BY <1>2
    <2>3. mac' \in [Switches -> Seq(Name)]
        BY <1>1, <1>3, <2>1
    <2>4. \A s \in Switches : Len(mac'[s]) = Len(ports'[s])
        BY <1>4, <2>1, <2>2 DEF Named
    <2>. QED BY <1>1, <1>6, <2>3, <2>4 DEF Named
<1>. QED BY <1>5, <1>7

LEMMA AddLinkLeads == StartInv /\ Led /\ Named /\ AddLink => Led' /\ Named'
<1>. SUFFICES ASSUME StartInv, Led, Named, AddLink PROVE Led' /\ Named'
    OBVIOUS
<1>. DEFINE l == made + 1
<1>1. /\ net \in Networks /\ stage = "links" /\ made \in Nat /\ made < Len(net.links)
      /\ net' = net /\ Switches' = Switches
    BY SameNetwork DEF StartInv, Progress, AddLink
<1>2. l \in DOMAIN net.links
    BY <1>1, NetworkShape
<1>3. /\ ports \in [Switches -> Seq(Interface)] /\ mac \in [Switches -> Seq(Name)]
      /\ \A s \in Switches :
             /\ Len(ports[s]) = net.hosts[s] + Cardinality(LinksAmong(s, made))
             /\ Len(mac[s]) = Len(ports[s])
    BY <1>1 DEF StartInv, Wired, Filled, Named
<1>4. Unset \in Name
    BY DEF Unset, Name
<1>5. ASSUME NEW s \in Switches
      PROVE  /\ \A p \in DOMAIN ports'[s] : FarEnd(s, p, ports'[s][p])
             /\ mac'[s] \in Seq(Name) /\ Len(mac'[s]) = Len(ports'[s])
    <2>1. CASE s \notin Ends(l)
        <3>1. ports'[s] = ports[s] /\ mac'[s] = mac[s]
            BY <2>1 DEF AddLink
        <3>. QED BY <1>3, <3>1 DEF Led
    <2>2. CASE s \in Ends(l)
        <3>1. /\ ports'[s] = Append(ports[s], LinkEnd(Peer(s, l), l))
              /\ mac'[s] = Append(mac[s], Unset)
            BY <2>2 DEF AddLink
        <3>2. /\ mac'[s] \in Seq(Name) /\ Len(mac'[s]) = Len(ports[s]) + 1
            BY <1>3, <1>4, <3>1
        <3>3. /\ DOMAIN ports'[s] = DOMAIN ports[s] \cup {Len(ports[s]) + 1}
              /\ Len(ports'[s]) = Len(ports[s]) + 1
              /\ ports'[s][Len(ports[s]) + 1] = LinkEnd(Peer(s, l), l)
              /\ \A p \in DOMAIN ports[s] : ports'[s][p] = ports[s][p]
            <4>1. LinkEnd(Peer(s, l), l) \in Interface /\ ports[s] \in Seq(Interface)
                BY <1>1, <1>2, <1>3, <2>2, PeerIsSwitch
            <4>. QED BY <3>1, <4>1
        <3>4. Len(ports[s]) + 1 = PortOf(s, l) /\ l \in LinksOf(s)
            <4>1. /\ Cardinality(LinksAmong(s, made)) \in Nat /\ net.hosts[s] \in Nat
                  /\ Cardinality(LinksAmong(s, l)) = Cardinality(LinksAmong(s, made)) + 1
                BY <1>1, <2>2, CountLinks, NetworkShape
            <4>2. Len(ports[s]) + 1 = net.hosts[s] + Cardinality(LinksAmong(s, l))
                <5>1. Len(ports[s]) = net.hosts[s] + Cardinality(LinksAmong(s, made))
                    BY <1>3
                <5>. HIDE DEF l
                <5>. QED BY <4>1, <5>1
            <4>. QED BY <1>2, <2>2, <4>2 DEF PortOf, LinksOf
        <3>5. \A p \in DOMAIN ports'[s] : FarEnd(s, p, ports'[s][p])
            <4>1. \A p \in DOMAIN ports[s] : FarEnd(s, p, ports'[s][p])
                BY <3>3 DEF Led
            <4>2. FarEnd(s, Len(ports[s]) + 1, LinkEnd(Peer(s, l), l))
                BY <3>4 DEF FarEnd
            <4>. QED BY <3>3, <4>1, <4>2
        <3>. QED BY <3>2, <3>3, <3>5
    <2>. QED BY <2>1, <2>2
<1>6. Led'
    BY <1>1, <1>5, SamePorts DEF Led
<1>7. Named'
    <2>1. stage' \notin {"hosts", "ends", "cli"}
        BY <1>1 DEF AddLink, Advance
    <2>2. mac' = [s \in Switches |-> mac'[s]]
        BY <1>1 DEF AddLink
    <2>3. mac' \in [Switches -> Seq(Name)]
        BY <1>5, <2>2
    <2>. QED BY <1>1, <1>5, <2>1, <2>3 DEF Named
<1>. QED BY <1>6, <1>7

LEMMA ConfigureControlLeads ==
    StartInv /\ Led /\ Named /\ ConfigureControl => Led' /\ Named'
<1>. SUFFICES ASSUME StartInv, Led, Named, ConfigureControl PROVE Led' /\ Named'
    OBVIOUS
<1>. DEFINE n == made + 1
<1>1. /\ net \in Networks /\ stage = "control" /\ made \in Nat /\ made < Len(net.hosts)
      /\ net' = net /\ Switches' = Switches
      /\ ports' = [ports EXCEPT ![n] = Append(@, Controller(n))]
      /\ mac' = [mac EXCEPT ![n] = Append(@, ControlEnd(n))]
    BY SameNetwork DEF StartInv, Progress, ConfigureControl
<1>2. n \in Switches /\ n \in Nat
    BY <1>1, NetworkShape
<1>3. /\ ports \in [Switches -> Seq(Interface)] /\ mac \in [Switches -> Seq(Name)]
      /\ Len(ports[n]) = Size(n)
      /\ \A s \in Switches : Len(mac[s]) = Len(ports[s])
    <2>1. ~(n <= made)
        BY <1>1
    <2>. QED BY <1>1, <1>2, <2>1 DEF StartInv, Wired, Filled, Named
<1>4. /\ ports'[n] = Append(ports[n], Controller(n))
      /\ mac'[n] = Append(mac[n], ControlEnd(n))
      /\ \A s \in Switches \ {n} : ports'[s] = ports[s] /\ mac'[s] = mac[s]
    BY <1>1, <1>2, <1>3
<1>5. Controller(n) \in Interface /\ ControlEnd(n) \in Name
    BY <1>2 DEF Controller, ControlEnd, Interface, Name
<1>6. /\ DOMAIN ports'[n] = DOMAIN ports[n] \cup {Size(n) + 1}
      /\ Len(ports'[n]) = Size(n) + 1
      /\ ports'[n][Size(n) + 1] = Controller(n)
      /\ \A p \in DOMAIN ports[n] : ports'[n][p] = ports[n][p]
    <2>1. ports[n] \in Seq(Interface)
        BY <1>2, <1>3
    <2>. QED BY <1>3, <1>4, <1>5, <2>1
<1>7. Led'
    <2>1. FarEnd(n, Size(n) + 1, Controller(n))
        BY DEF FarEnd
    <2>2. \A s \in Switches : \A p \in DOMAIN ports'[s] : FarEnd(s, p, ports'[s][p])
        BY <1>2, <1>4, <1>6, <2>1 DEF Led
    <2>. QED BY <1>1, <2>2, SamePorts DEF Led
<1>8. Named'
    <2>1. stage' \notin {"hosts", "ends", "cli"}
        BY <1>1 DEF ConfigureControl, Advance
    <2>2. mac[n] \in Seq(Name)
        BY <1>2, <1>3
    <2>3. mac'[n] \in Seq(Name) /\ Len(mac'[n]) = Size(n) + 1
        BY <1>2, <1>3, <1>4, <1>5, <2>2
    <2>4. mac' \in [Switches -> Seq(Name)]
        BY <1>1, <1>3, <1>4, <2>3
    <2>5. \A s \in Switches : Len(mac'[s]) = Len(ports'[s])
        BY <1>3, <1>4, <1>6, <2>3
    <2>. QED BY <1>1, <2>1, <2>4, <2>5 DEF Named
<1>. QED BY <1>7, <1>8

\* The ports do not change any more.
LEMMA SameLeads == net' = net /\ ports' = ports /\ Led => Led'
BY SamePorts, SameNetwork DEF Led

LEMMA StartLeads == StartInv /\ Led /\ Named /\ Start => Led' /\ Named'
<1>. SUFFICES ASSUME StartInv, Led, Named, Start PROVE Led' /\ Named'
    OBVIOUS
<1>1. /\ net' = net /\ Switches' = Switches /\ ports' = ports /\ mac' = mac
      /\ net \in Networks /\ stage = "start" /\ made \in Nat
    BY SameNetwork DEF Start, StartInv, Progress
<1>2. stage' \notin {"ends", "cli"} /\ (stage' = "hosts" => made' = 0)
    BY <1>1 DEF Start, Advance
<1>3. \A s \in Switches : s \in Nat \ {0}
    BY <1>1, NetworkShape
<1>4. ~(stage' \in {"ends", "cli"}) /\ \A s \in Switches : ~(stage' = "hosts" /\ s <= made')
    BY <1>2, <1>3
<1>. QED BY <1>1, <1>4, SameLeads DEF Named

LEMMA AddressHostsLeads ==
    StartInv /\ Led /\ Named /\ AddressHosts => Led' /\ Named'
<1>. SUFFICES ASSUME StartInv, Led, Named, AddressHosts PROVE Led' /\ Named'
    OBVIOUS
<1>. DEFINE n == made + 1
            h == net.hosts[n]
<1>1. /\ net \in Networks /\ stage = "hosts" /\ made \in Nat /\ made < Len(net.hosts)
      /\ net' = net /\ Switches' = Switches /\ ports' = ports
    BY SameNetwork DEF StartInv, Progress, AddressHosts
<1>2. /\ n \in Switches /\ n \in Nat /\ h \in Nat /\ Len(net.hosts) \in Nat
      /\ Switches = 1 .. Len(net.hosts)
      /\ DOMAIN net.links = 1 .. Len(net.links)
    BY <1>1, NetworkShape
<1>3. /\ \A j \in 1 .. h : ports[n][j] = Host(n, j) /\ PortTo(n, Host(n, j)) = j
    BY <1>1, <1>2, PortsKnown
<1>4. /\ mac \in [Switches -> Seq(Name)]
      /\ \A s \in Switches : Len(mac[s]) = Len(ports[s])
    BY DEF Named
<1>5. Len(mac[n]) = Size(n) + 1 /\ h <= Size(n) /\ Size(n) \in Nat
    <2>1. Len(ports[n]) = Size(n) + 1
        BY <1>1, <1>2 DEF StartInv, Wired, Filled
    <2>2. Cardinality(LinksOf(n)) \in Nat
        BY <1>1, <1>2, CountLinks
    <2>. QED BY <1>2, <1>4, <2>1, <2>2 DEF Size
<1>6. mac' = [mac EXCEPT ![n] = [q \in DOMAIN mac[n] |->
                  IF q \in 1 .. h THEN Gateway(n, q) ELSE mac[n][q]]]
    <2>1. {PortTo(n, Host(n, j)) : j \in 1 .. h} = 1 .. h
        BY <1>3
    <2>2. \A q \in 1 .. h : ports[n][q].number = q
        <3>1. \A q : Host(n, q).number = q
            BY DEF Host
        <3>. QED BY <1>3, <3>1
    <2>3. mac' = [mac EXCEPT ![n] = [q \in DOMAIN mac[n] |->
                      IF q \in {PortTo(n, Host(n, j)) : j \in 1 .. h}
                      THEN Gateway(n, ports[n][q].number) ELSE mac[n][q]]]
        BY <1>2, <1>4 DEF AddressHosts
    <2>4. \A q : (IF q \in {PortTo(n, Host(n, j)) : j \in 1 .. h}
                      THEN Gateway(n, ports[n][q].number) ELSE mac[n][q])
                 = IF q \in 1 .. h THEN Gateway(n, q) ELSE mac[n][q]
        BY <2>1, <2>2
    <2>. QED BY <2>3, <2>4
<1>7. /\ DOMAIN mac[n] = 1 .. Len(mac[n]) /\ mac'[n] \in Seq(Name)
      /\ Len(mac'[n]) = Len(mac[n])
      /\ \A j \in 1 .. h : mac'[n][j] = Gateway(n, j)
    <2>1. /\ mac[n] \in Seq(Name) /\ DOMAIN mac[n] = 1 .. Len(mac[n]) /\ Len(mac[n]) \in Nat
        BY <1>2, <1>4
    <2>2. mac'[n] = [q \in 1 .. Len(mac[n]) |->
                        IF q \in 1 .. h THEN Gateway(n, q) ELSE mac[n][q]]
        BY <1>2, <1>4, <1>6, <2>1
    <2>3. \A q \in 1 .. h : Gateway(n, q) \in Name
        BY <1>2 DEF Gateway, Name
    <2>4. \A q \in 1 .. Len(mac[n]) :
              (IF q \in 1 .. h THEN Gateway(n, q) ELSE mac[n][q]) \in Name
        BY <2>1, <2>3
    <2>. HIDE DEF n, h
    <2>5. mac'[n] \in Seq(Name) /\ Len(mac'[n]) = Len(mac[n])
        BY <2>1, <2>2, <2>4
    <2>6. \A j \in 1 .. h : j \in 1 .. Len(mac[n])
        BY <1>2, <1>5
    <2>7. \A j \in 1 .. h : mac'[n][j] = Gateway(n, j)
        BY <2>2, <2>6
    <2>. QED BY <2>1, <2>5, <2>7
<1>8. \A s \in Switches \ {n} : mac'[s] = mac[s]
    BY <1>4, <1>6
<1>9. Led'
    BY <1>1, SameLeads
<1>10. \/ made' = n /\ stage' = "hosts"
       \/ made' = 0 /\ stage' = "ends" /\ n = Len(net.hosts)
       \/ made' = 0 /\ stage' = "cli" /\ n = Len(net.hosts) /\ net.links = <<>>
    BY <1>1, <1>2 DEF AddressHosts, Advance, LoopOr
<1>11. Named'
    <2>1. mac' \in [Switches -> Seq(Name)]
        BY <1>4, <1>6, <1>7
    <2>2. \A s \in Switches : Len(mac'[s]) = Len(ports[s])
        BY <1>4, <1>7, <1>8
    <2>3. ASSUME NEW s \in Switches,
                 stage' \in {"ends", "cli"} \/ (stage' = "hosts" /\ s <= made')
          PROVE  \A j \in 1 .. net.hosts[s] : mac'[s][j] = Gateway(s, j)
        <3>1. CASE s = n
            BY <1>7, <3>1
        <3>2. CASE s # n
            <4>1. s <= n /\ s \in Nat
                BY <1>2, <1>10, <2>3
            <4>2. s <= made
                BY <1>1, <3>2, <4>1
            <4>. QED BY <1>1, <1>8, <3>2, <4>2 DEF Named
        <3>. QED BY <3>1, <3>2
    <2>4. ASSUME NEW s \in Switches, NEW l \in LinksOf(s)
          PROVE  ~(stage' = "cli" \/ (stage' = "ends" /\ l <= made'))
        <3>1. l \in 1 .. Len(net.links)
            BY <1>2 DEF LinksOf
        <3>. QED BY <1>10, <3>1
    <2>5. \A s \in Switches : LinksOf(s)' = LinksOf(s)
        BY <1>1, SameNetwork
    <2>. QED BY <1>1, <2>1, <2>2, <2>3, <2>4, <2>5 DEF Named
<1>. QED BY <1>9, <1>11

LEMMA AddressLinkLeads ==
    StartInv /\ Led /\ Named /\ AddressLink => Led' /\ Named'
<1>. SUFFICES ASSUME StartInv, Led, Named, AddressLink PROVE Led' /\ Named'
    OBVIOUS
<1>. DEFINE l == made + 1
<1>1. /\ net \in Networks /\ stage = "ends" /\ made \in Nat
      /\ net' = net /\ Switches' = Switches /\ ports' = ports
      /\ \A s : LinksOf(s)' = LinksOf(s)
      /\ \A s, m : PortOf(s, m)' = PortOf(s, m)
    BY SameNetwork, SamePorts DEF StartInv, Progress, AddressLink
<1>2. /\ Len(net.links) \in Nat /\ DOMAIN net.links = 1 .. Len(net.links)
      /\ \A s \in Switches : net.hosts[s] \in Nat /\ Size(s) \in Nat
    BY <1>1, NetworkShape, Sizes
<1>3. /\ mac \in [Switches -> Seq(Name)]
      /\ \A s \in Switches : Len(mac[s]) = Len(ports[s]) /\ Len(ports[s]) = Size(s) + 1
    BY <1>1 DEF Named, StartInv, Wired, Filled
<1>4. \/ stage' = "ends" /\ made' = l
      \/ stage' = "cli" /\ l >= Len(net.links)
    BY <1>1, <1>2 DEF AddressLink, Advance
<1>5. /\ \A s \in Switches : s \notin Ends(l) => mac'[s] = mac[s]
      /\ mac' = [s \in Switches |-> mac'[s]]
    BY DEF AddressLink
<1>6. ASSUME NEW s \in Switches, s \in Ends(l), l \in DOMAIN net.links
      PROVE  /\ PortOf(s, l) \in 1 .. Len(mac[s]) /\ PortOf(s, l) > net.hosts[s]
             /\ mac'[s] = [mac[s] EXCEPT ![PortOf(s, l)] = LinkEnd(s, l)]
    <2>1. l \in LinksOf(s)
        BY <1>6 DEF LinksOf
    <2>2. PortTo(s, LinkEnd(Peer(s, l), l)) = PortOf(s, l)
        BY <1>1, <2>1, PortsKnown
    <2>3. PortOf(s, l) \in net.hosts[s] + 1 .. Size(s)
        BY <1>1, <2>1, PortsOfLinks
    <2>4. mac'[s] = [mac[s] EXCEPT ![PortTo(s, LinkEnd(Peer(s, l), l))] = LinkEnd(s, l)]
        BY <1>6 DEF AddressLink
    <2>5. /\ Len(mac[s]) = Size(s) + 1 /\ net.hosts[s] \in Nat /\ Size(s) \in Nat
        BY <1>2, <1>3
    <2>. QED BY <2>2, <2>3, <2>4, <2>5
<1>7. l \in DOMAIN net.links
    BY <1>1, <1>2 DEF StartInv, Progress
<1>8. Led'
    BY <1>1, SameLeads
<1>9. ASSUME NEW s \in Switches
      PROVE  /\ mac'[s] \in Seq(Name) /\ Len(mac'[s]) = Len(ports[s])
             /\ \A j \in 1 .. net.hosts[s] : mac'[s][j] = Gateway(s, j)
             /\ \A m \in LinksOf(s) : m <= l => mac'[s][PortOf(s, m)] = LinkEnd(s, m)
    <2>1. /\ mac[s] \in Seq(Name)
          /\ \A j \in 1 .. net.hosts[s] : mac[s][j] = Gateway(s, j)
          /\ \A m \in LinksOf(s) : m <= made => mac[s][PortOf(s, m)] = LinkEnd(s, m)
        BY <1>1 DEF Named
    <2>2. \A m \in LinksOf(s) :
              m \in Nat /\ PortOf(s, m) \in net.hosts[s] + 1 .. Size(s)
        BY <1>1, <1>2, PortsOfLinks DEF LinksOf
    <2>3. CASE s \notin Ends(l)
        <3>1. l \notin LinksOf(s)
            BY <2>3 DEF LinksOf
        <3>2. \A m \in LinksOf(s) : m <= l => m <= made
            BY <1>1, <2>2, <3>1
        <3>. QED BY <1>3, <1>5, <2>1, <2>3, <3>2
    <2>4. CASE s \in Ends(l)
        <3>. DEFINE p == PortOf(s, l)
        <3>1. /\ p \in 1 .. Len(mac[s]) /\ p > net.hosts[s]
              /\ mac'[s] = [mac[s] EXCEPT ![p] = LinkEnd(s, l)]
            BY <1>6, <1>7, <2>4
        <3>2. LinkEnd(s, l) \in Name
            <4>1. s \in Nat /\ l \in Nat
                BY <1>1, NetworkShape
            <4>. QED BY <4>1 DEF LinkEnd, Name
        <3>3. l \in LinksOf(s)
            BY <1>7, <2>4 DEF LinksOf
        <3>4. \A m \in LinksOf(s) : PortOf(s, m) = p => m = l
            BY <1>1, <3>3, PortsOfLinks
        <3>. HIDE DEF p
        <3>5. /\ mac'[s] \in Seq(Name) /\ Len(mac'[s]) = Len(mac[s])
              /\ mac'[s][p] = LinkEnd(s, l)
              /\ \A q \in 1 .. Len(mac[s]) : q # p => mac'[s][q] = mac[s][q]
            BY <2>1, <3>1, <3>2
        <3>6. \A j \in 1 .. net.hosts[s] : mac'[s][j] = Gateway(s, j)
            BY <1>2, <2>1, <3>1, <3>5
        <3>7. ASSUME NEW m \in LinksOf(s), m <= l
              PROVE  mac'[s][PortOf(s, m)] = LinkEnd(s, m)
            <4>1. CASE m = l
                BY <3>5, <4>1 DEF p
            <4>2. CASE m # l
                <5>1. PortOf(s, m) # p /\ m <= made
                    BY <1>1, <2>2, <3>4, <3>7, <4>2
                <5>2. PortOf(s, m) \in 1 .. Len(mac[s])
                    BY <1>2, <1>3, <2>2
                <5>. QED BY <2>1, <3>5, <5>1, <5>2
            <4>. QED BY <4>1, <4>2
        <3>. QED BY <1>3, <3>5, <3>6, <3>7
    <2>. QED BY <2>3, <2>4
<1>10. Named'
    <2>1. mac' \in [Switches -> Seq(Name)]
        BY <1>5, <1>9
    <2>2. ASSUME NEW s \in Switches, NEW m \in LinksOf(s),
                 stage' = "cli" \/ (stage' = "ends" /\ m <= made')
          PROVE  m <= l
        <3>1. m \in 1 .. Len(net.links)
            BY <1>2 DEF LinksOf
        <3>. QED BY <1>1, <1>2, <1>4, <2>2, <3>1
    <2>. QED BY <1>1, <1>9, <2>1, <2>2 DEF Named
<1>. QED BY <1>8, <1>10

------------------------------------------------------------------------------
(* The files.  A way that the generator writes for s: to the host at port  *)
(* p, or over a link to the subnet of the neighbour.                       *)

IsWay(s, dst, p, near, far) ==
    \/ \E j \in 1 .. net.hosts[s] :
           /\ dst = Host(s, j) /\ p = j
           /\ near = Gateway(s, j) /\ far = Host(s, j)
    \/ \E l \in LinksOf(s) :
           /\ dst = Subnet(Peer(s, l)) /\ p = PortOf(s, l)
           /\ near = LinkEnd(s, l) /\ far = LinkEnd(Peer(s, l), l)

\* What main has built when the prompt is there.
Built == StartInv /\ Led /\ Named /\ stage = "cli"

\* Up to seven the octal reading of a port is the port.
LEMMA ActionPortReads ==
    ASSUME NEW p \in 1 .. 7
    PROVE  ActionPort(p) = p
<1>. DEFINE digits == <<p \div 10, p % 10>>
            Is(v) == v = [i \in 0 .. Len(digits) |->
                            IF i = 0 THEN 0
                            ELSE v[i - 1] * BaseOf("0") + digits[i]]
            value == CHOOSE v : Is(v)
<1>1. digits = <<0, p>> /\ Len(digits) = 2 /\ BaseOf("0") = 8
    BY DEF BaseOf
<1>2. Is([i \in 0 .. 2 |-> IF i = 2 THEN p ELSE 0])
    <2>1. ASSUME NEW i \in 0 .. 2
          PROVE  (IF i = 2 THEN p ELSE 0) =
                 IF i = 0 THEN 0
                 ELSE [k \in 0 .. 2 |-> IF k = 2 THEN p ELSE 0][i - 1] * 8 + digits[i]
        <3>1. i = 0 \/ i = 1 \/ i = 2
            OBVIOUS
        <3>. QED BY <1>1, <3>1
    <2>. QED BY <1>1, <2>1
<1>3. Is(value)
    BY <1>2
<1>4. value[2] = p
    <2>1. value = [i \in 0 .. 2 |->
                      IF i = 0 THEN 0 ELSE value[i - 1] * 8 + digits[i]]
        BY <1>1, <1>3
    <2>. HIDE DEF value
    <2>2. value[0] = 0
        BY <2>1
    <2>3. value[1] = value[0] * 8 + 0
        BY <1>1, <2>1
    <2>4. value[2] = value[1] * 8 + p
        BY <1>1, <2>1
    <2>. QED BY <2>2, <2>3, <2>4
<1>5. \A i \in DOMAIN digits : digits[i] < 8
    BY <1>1
<1>6. ActionPort(p) = IF \A i \in DOMAIN digits : digits[i] < BaseOf("0")
                      THEN value[Len(digits)] ELSE -1
    BY DEF ActionPort, ValueOf
<1>. QED BY <1>1, <1>4, <1>5, <1>6

LEMMA FewerThanEight ==
    ASSUME FewPorts, net \in Networks, NEW s \in Switches
    PROVE  Size(s) < 8
BY DEF FewPorts, Size, LinksOf, Ends, Switches

\* Port, next hop and addresses of a way are those of the wire.
LEMMA WaysAreWired ==
    ASSUME Built, NEW s \in Switches, NEW dst, NEW p, NEW near, NEW far,
           IsWay(s, dst, p, near, far)
    PROVE  p \in 1 .. Size(s) /\ ports[s][p] = far /\ mac[s][p] = near
<1>1. net \in Networks
    BY DEF Built, StartInv, Progress
<1>2. net.hosts[s] \in Nat /\ Cardinality(LinksOf(s)) \in Nat
    BY <1>1, NetworkShape, CountLinks
<1>3. CASE \E j \in 1 .. net.hosts[s] :
               p = j /\ near = Gateway(s, j) /\ far = Host(s, j)
    BY <1>2, <1>3, PortsKnown DEF Built, Named, Size
<1>4. CASE \E l \in LinksOf(s) :
               /\ p = PortOf(s, l) /\ near = LinkEnd(s, l)
               /\ far = LinkEnd(Peer(s, l), l)
    <2>1. PICK l \in LinksOf(s) :
              /\ p = PortOf(s, l) /\ near = LinkEnd(s, l)
              /\ far = LinkEnd(Peer(s, l), l)
        BY <1>4
    <2>2. p \in net.hosts[s] + 1 .. Size(s)
        BY <1>1, <2>1, PortsOfLinks
    <2>3. ports[s][p] = far
        BY <2>1, PortsKnown DEF Built
    <2>4. mac[s][p] = near
        BY <2>1 DEF Built, Named
    <2>. QED BY <1>2, <2>2, <2>3, <2>4 DEF Size
<1>. QED BY <1>3, <1>4 DEF IsWay

\* A line of a list of ways is a line of one of them.
LEMMA LinesOfWays ==
    ASSUME NEW ways, Len(ways) \in Nat, NEW n \in 1 .. Len(Lines(ways))
    PROVE  /\ Len(Lines(ways)) = 3 * Len(ways)
           /\ \E i \in 1 .. Len(ways), k \in 1 .. 3 : Lines(ways)[n] = ways[i][k]
<1>1. /\ DOMAIN Lines(ways) = 1 .. 3 * Len(ways)
      /\ Len(Lines(ways)) = 3 * Len(ways)
    BY DEF Lines
<1>2. /\ 1 + ((n - 1) \div 3) \in 1 .. Len(ways)
      /\ 1 + ((n - 1) % 3) \in 1 .. 3
    BY <1>1
<1>3. Lines(ways)[n] = ways[1 + ((n - 1) \div 3)][1 + ((n - 1) % 3)]
    BY <1>1 DEF Lines
<1>. QED BY <1>1, <1>2, <1>3

\* The link that the generator comes to as the i-th of switch s.
LEMMA LinksCounted ==
    ASSUME Built, NEW s \in Switches, NEW i \in DOMAIN LinksInOrder(s)
    PROVE  /\ LinksInOrder(s)[i] \in LinksOf(s)
           /\ net.hosts[s] + i = PortOf(s, LinksInOrder(s)[i])
<1>1. /\ net \in Networks /\ net.hosts[s] \in Nat
      /\ Cardinality(LinksOf(s)) \in Nat
    BY NetworkShape, CountLinks DEF Built, StartInv, Progress
<1>2. \A l \in LinksOf(s) :
          /\ {m \in LinksOf(s) : m <= l} = LinksAmong(s, l)
          /\ Cardinality(LinksAmong(s, l)) \in Nat
    <2>1. DOMAIN net.links = 1 .. Len(net.links) /\ Len(net.links) \in Nat
        BY <1>1, NetworkShape
    <2>2. \A l \in LinksOf(s) : l \in Nat /\ l <= Len(net.links)
        BY <2>1 DEF LinksOf
    <2>3. \A l \in LinksOf(s) : {m \in LinksOf(s) : m <= l} = LinksAmong(s, l)
        BY <2>1, <2>2 DEF LinksAmong, LinksOf
    <2>. QED BY <1>1, <2>2, <2>3, CountLinks
<1>3. i \in 1 .. Cardinality(LinksOf(s))
    BY DEF LinksInOrder
<1>4. PICK l \in LinksOf(s) : net.hosts[s] + i = PortOf(s, l)
    <2>1. net.hosts[s] + i \in net.hosts[s] + 1 .. Size(s)
        BY <1>1, <1>3 DEF Size
    <2>. QED BY <2>1, PortsKnown DEF Built
<1>5. Cardinality({m \in LinksOf(s) : m <= l}) = i
    <2>1. Cardinality(LinksAmong(s, l)) = i
        BY <1>1, <1>2, <1>3, <1>4 DEF PortOf
    <2>. QED BY <1>2, <2>1
<1>6. LinksInOrder(s)[i] =
          CHOOSE m \in LinksOf(s) : Cardinality({k \in LinksOf(s) : k <= m}) = i
    BY <1>3 DEF LinksInOrder
<1>7. /\ LinksInOrder(s)[i] \in LinksOf(s)
      /\ Cardinality({k \in LinksOf(s) : k <= LinksInOrder(s)[i]}) = i
    BY <1>5, <1>6
<1>8. Cardinality(LinksAmong(s, LinksInOrder(s)[i])) = i
    BY <1>2, <1>7
<1>. QED BY <1>7, <1>8 DEF PortOf

\* The defaults come first, and what follows are the lines of ways.
LEMMA FileLines ==
    ASSUME Built, NEW s \in Switches
    PROVE  /\ Len(File(s)) \in Nat /\ Len(File(s)) >= 3
           /\ \A n \in 1 .. 3 : File(s)[n] = Defaults[n]
           /\ \A n \in 4 .. Len(File(s)) : \E dst, p, near, far :
                  /\ IsWay(s, dst, p, near, far)
                  /\ \E k \in 1 .. 3 : File(s)[n] = Way(dst, p, near, far)[k]
<1>. DEFINE hosts == [j \in 1 .. net.hosts[s] |->
                         Way(Host(s, j), j, Gateway(s, j), Host(s, j))]
            links == LinksInOrder(s)
            peers == [i \in DOMAIN links |->
                         Way(Subnet(Peer(s, links[i])), net.hosts[s] + i,
                             LinkEnd(s, links[i]),
                             LinkEnd(Peer(s, links[i]), links[i]))]
<1>1. /\ net \in Networks /\ net.hosts[s] \in Nat
      /\ Cardinality(LinksOf(s)) \in Nat
    BY NetworkShape, CountLinks DEF Built, StartInv, Progress
<1>2. DOMAIN links = 1 .. Cardinality(LinksOf(s))
    BY DEF LinksInOrder
<1>3. Len(hosts) = net.hosts[s] /\ Len(peers) = Cardinality(LinksOf(s))
    BY <1>1, <1>2
<1>4. HostWays(s) = Lines(hosts) /\ LinkWays(s) = Lines(peers)
    BY DEF HostWays, LinkWays
<1>5. ASSUME NEW n \in 1 .. Len(HostWays(s))
      PROVE  \E dst, p, near, far :
                 /\ IsWay(s, dst, p, near, far)
                 /\ \E k \in 1 .. 3 : HostWays(s)[n] = Way(dst, p, near, far)[k]
    <2>1. PICK j \in 1 .. net.hosts[s], k \in 1 .. 3 : HostWays(s)[n] = hosts[j][k]
        <3>1. Len(hosts) \in Nat /\ n \in 1 .. Len(Lines(hosts))
            BY <1>1, <1>3, <1>4
        <3>. HIDE DEF hosts
        <3>2. \E j \in 1 .. Len(hosts), k \in 1 .. 3 : Lines(hosts)[n] = hosts[j][k]
            BY <3>1, LinesOfWays
        <3>. QED BY <1>3, <1>4, <3>2
    <2>2. HostWays(s)[n] = Way(Host(s, j), j, Gateway(s, j), Host(s, j))[k]
        BY <2>1
    <2>3. IsWay(s, Host(s, j), j, Gateway(s, j), Host(s, j))
        BY DEF IsWay
    <2>. QED BY <2>2, <2>3
<1>6. ASSUME NEW n \in 1 .. Len(LinkWays(s))
      PROVE  \E dst, p, near, far :
                 /\ IsWay(s, dst, p, near, far)
                 /\ \E k \in 1 .. 3 : LinkWays(s)[n] = Way(dst, p, near, far)[k]
    <2>1. PICK i \in 1 .. Cardinality(LinksOf(s)), k \in 1 .. 3 :
              LinkWays(s)[n] = peers[i][k]
        <3>. HIDE DEF peers
        <3>. QED BY <1>1, <1>3, <1>4, <1>6, LinesOfWays
    <2>2. LinkWays(s)[n] = Way(Subnet(Peer(s, links[i])), net.hosts[s] + i,
                               LinkEnd(s, links[i]),
                               LinkEnd(Peer(s, links[i]), links[i]))[k]
        BY <1>2, <2>1
    <2>3. links[i] \in LinksOf(s) /\ net.hosts[s] + i = PortOf(s, links[i])
        BY <1>2, LinksCounted
    <2>4. IsWay(s, Subnet(Peer(s, links[i])), net.hosts[s] + i, LinkEnd(s, links[i]),
                LinkEnd(Peer(s, links[i]), links[i]))
        BY <2>3 DEF IsWay
    <2>. QED BY <2>2, <2>4
<1>7. /\ Len(HostWays(s)) \in Nat /\ DOMAIN HostWays(s) = 1 .. Len(HostWays(s))
      /\ Len(LinkWays(s)) \in Nat /\ DOMAIN LinkWays(s) = 1 .. Len(LinkWays(s))
    <2>. HIDE DEF hosts, peers
    <2>. QED BY <1>1, <1>3, <1>4 DEF Lines
<1>8. Len(Defaults) = 3
    BY DEF Defaults
<1>9. /\ Len(File(s)) = 3 + Len(HostWays(s)) + Len(LinkWays(s))
      /\ \A n \in 1 .. 3 : File(s)[n] = Defaults[n]
      /\ \A n \in 4 .. Len(File(s)) :
             \/ n - 3 \in 1 .. Len(HostWays(s)) /\ File(s)[n] = HostWays(s)[n - 3]
             \/ /\ n - 3 - Len(HostWays(s)) \in 1 .. Len(LinkWays(s))
                /\ File(s)[n] = LinkWays(s)[n - 3 - Len(HostWays(s))]
    <2>. DEFINE S == {Defaults[n] : n \in 1 .. 3}
                     \cup {HostWays(s)[n] : n \in 1 .. Len(HostWays(s))}
                     \cup {LinkWays(s)[n] : n \in 1 .. Len(LinkWays(s))}
    <2>1. HostWays(s) = [n \in 1 .. Len(HostWays(s)) |-> HostWays(s)[n]]
        BY <1>4, <1>7 DEF Lines
    <2>2. LinkWays(s) = [n \in 1 .. Len(LinkWays(s)) |-> LinkWays(s)[n]]
        BY <1>4, <1>7 DEF Lines
    <2>3. Defaults \in Seq(S)
        <3>1. Defaults = [n \in 1 .. 3 |-> Defaults[n]]
            BY DEF Defaults
        <3>2. \A n \in 1 .. 3 : Defaults[n] \in S
            OBVIOUS
        <3>. HIDE DEF S
        <3>. QED BY <3>1, <3>2
    <2>4. HostWays(s) \in Seq(S)
        BY <1>7, <2>1
    <2>5. LinkWays(s) \in Seq(S)
        BY <1>7, <2>2
    <2>. HIDE DEF S
    <2>6. /\ Defaults \o HostWays(s) \in Seq(S)
          /\ Len(Defaults \o HostWays(s)) = 3 + Len(HostWays(s))
          /\ \A n \in 1 .. 3 : (Defaults \o HostWays(s))[n] = Defaults[n]
          /\ \A n \in 4 .. 3 + Len(HostWays(s)) :
                 (Defaults \o HostWays(s))[n] = HostWays(s)[n - 3]
        <3>1. /\ Defaults \o HostWays(s) \in Seq(S)
              /\ Len(Defaults \o HostWays(s)) = 3 + Len(HostWays(s))
              /\ \A n \in 1 .. 3 + Len(HostWays(s)) :
                     (Defaults \o HostWays(s))[n] =
                         IF n <= 3 THEN Defaults[n] ELSE HostWays(s)[n - 3]
            <4>1. /\ Defaults \o HostWays(s) \in Seq(S)
                  /\ Len(Defaults \o HostWays(s)) = Len(Defaults) + Len(HostWays(s))
                  /\ \A n \in 1 .. Len(Defaults) + Len(HostWays(s)) :
                         (Defaults \o HostWays(s))[n] =
                             IF n <= Len(Defaults) THEN Defaults[n]
                             ELSE HostWays(s)[n - Len(Defaults)]
                BY <2>3, <2>4, ConcatProperties, Zenon
            <4>. QED BY <1>8, <4>1
        <3>2. /\ \A n \in 1 .. 3 : n \in 1 .. 3 + Len(HostWays(s)) /\ n <= 3
              /\ \A n \in 4 .. 3 + Len(HostWays(s)) :
                     n \in 1 .. 3 + Len(HostWays(s)) /\ ~(n <= 3)
            BY <1>7
        <3>. QED BY <3>1, <3>2, Zenon
    <2>. DEFINE front == Defaults \o HostWays(s)
    <2>7. File(s) = front \o LinkWays(s)
        BY DEF File
    <2>. HIDE DEF front
    <2>8. /\ Len(File(s)) = Len(front) + Len(LinkWays(s))
          /\ \A n \in 1 .. Len(front) : File(s)[n] = front[n]
          /\ \A n \in Len(front) + 1 .. Len(front) + Len(LinkWays(s)) :
                 File(s)[n] = LinkWays(s)[n - Len(front)]
        <3>1. front \in Seq(S) /\ Len(front) \in Nat
            BY <1>7, <2>6 DEF front
        <3>. QED BY <1>7, <2>5, <2>7, <3>1, ConcatProperties
    <2>9. /\ Len(front) = 3 + Len(HostWays(s))
          /\ \A n \in 1 .. 3 : front[n] = Defaults[n]
          /\ \A n \in 4 .. 3 + Len(HostWays(s)) : front[n] = HostWays(s)[n - 3]
        BY <2>6 DEF front
    <2>10. \A n \in 1 .. 3 : File(s)[n] = Defaults[n]
        BY <1>7, <2>8, <2>9
    <2>11. ASSUME NEW n \in 4 .. Len(File(s))
          PROVE  \/ /\ n - 3 \in 1 .. Len(HostWays(s))
                    /\ File(s)[n] = HostWays(s)[n - 3]
                 \/ /\ n - 3 - Len(HostWays(s)) \in 1 .. Len(LinkWays(s))
                    /\ File(s)[n] = LinkWays(s)[n - 3 - Len(HostWays(s))]
        <3>1. CASE n <= Len(front)
            BY <1>7, <2>8, <2>9, <3>1
        <3>2. CASE n > Len(front)
            <4>1. n - 3 - Len(HostWays(s)) = n - Len(front)
                BY <1>7, <2>9
            <4>. QED BY <1>7, <2>8, <2>9, <3>2, <4>1
        <3>. QED BY <1>7, <2>9, <3>1, <3>2
    <2>. QED BY <1>7, <2>8, <2>9, <2>10, <2>11
<1>10. ASSUME NEW n \in 4 .. Len(File(s))
       PROVE  \E dst, p, near, far :
                  /\ IsWay(s, dst, p, near, far)
                  /\ \E k \in 1 .. 3 : File(s)[n] = Way(dst, p, near, far)[k]
    <2>1. CASE \E m \in 1 .. Len(HostWays(s)) : File(s)[n] = HostWays(s)[m]
        BY <1>5, <2>1
    <2>2. CASE \E m \in 1 .. Len(LinkWays(s)) : File(s)[n] = LinkWays(s)[m]
        BY <1>6, <2>2
    <2>. QED BY <1>9, <2>1, <2>2
<1>11. Len(File(s)) \in Nat /\ Len(File(s)) >= 3
    BY <1>7, <1>9
<1>. QED BY <1>9, <1>10, <1>11

\* The files are those of this network, and no more is loaded than they have.
Written ==
    /\ file = [s \in Switches |-> File(s)]
    /\ loaded \in [Switches -> Nat]
    /\ \A s \in Switches : loaded[s] = 0 \/ loaded[s] <= Len(file[s])

\* The three lines of a way.
LEMMA LineOfWay ==
    ASSUME NEW dst, NEW p, NEW near, NEW far, NEW k \in 1 .. 3,
           NEW row, row = Way(dst, p, near, far)[k]
    PROVE  /\ row.op = "add"
           /\ row.table = "ipv4_lpm" =>
                  row.key = dst /\ row.data = [nhop |-> far, port |-> ActionPort(p)]
           /\ row.table = "forward" => row.key = far /\ row.data = [dmac |-> far]
           /\ row.table = "send_frame" => row.key = p /\ row.data = [smac |-> near]
<1>1. k = 1 \/ k = 2 \/ k = 3
    OBVIOUS
<1>2. CASE k = 1
    <2>1. row = Add("ipv4_lpm", dst, [nhop |-> far, port |-> ActionPort(p)])
        BY <1>2 DEF Way
    <2>. QED BY <2>1 DEF Add
<1>3. CASE k = 2
    <2>1. row = Add("forward", far, [dmac |-> far])
        BY <1>3 DEF Way
    <2>. QED BY <2>1 DEF Add
<1>4. CASE k = 3
    <2>1. row = Add("send_frame", p, [smac |-> near])
        BY <1>4 DEF Way
    <2>. QED BY <2>1 DEF Add
<1>. QED BY <1>1, <1>2, <1>3, <1>4

\* What a lookup finds belongs to a way, and the defaults are there already.
LEMMA RowsAreOfWays ==
    ASSUME Built, Written, FewPorts, NEW s \in Switches,
           NEW table, NEW key, NEW row \in Rows(s, table, key)
    PROVE  /\ \A other \in {"ipv4_lpm", "forward", "send_frame"} : DropsMisses(s, other)
           /\ \E dst, p, near, far :
                  /\ IsWay(s, dst, p, near, far)
                  /\ table = "ipv4_lpm" =>
                         key = dst /\ row = [nhop |-> far, port |-> p]
                  /\ table = "forward" => key = far /\ row = [dmac |-> far]
                  /\ table = "send_frame" => key = p /\ row = [smac |-> near]
<1>1. PICK n \in 1 .. loaded[s] :
          /\ file[s][n].op = "add" /\ file[s][n].table = table
          /\ file[s][n].key = key /\ file[s][n].data = row
    BY DEF Rows
<1>2. /\ file[s] = File(s) /\ loaded[s] \in Nat /\ loaded[s] <= Len(File(s))
      /\ Len(File(s)) \in Nat
    BY FileLines DEF Written
<1>3. \A m \in 1 .. 3 : File(s)[m] = Defaults[m]
    BY FileLines
<1>4. n \notin 1 .. 3
    <2>1. \A m \in 1 .. 3 : Defaults[m].op = "set_default"
        BY DEF Defaults, Default
    <2>. QED BY <1>1, <1>2, <1>3, <2>1
<1>5. n \in 4 .. Len(File(s)) /\ {1, 2, 3} \subseteq 1 .. loaded[s]
    BY <1>2, <1>4
<1>6. \A other \in {"ipv4_lpm", "forward", "send_frame"} : DropsMisses(s, other)
    <2>1. /\ File(s)[1] = Default("ipv4_lpm") /\ File(s)[2] = Default("forward")
          /\ File(s)[3] = Default("send_frame")
        BY <1>3 DEF Defaults
    <2>. QED BY <1>2, <1>5, <2>1 DEF DropsMisses
<1>7. PICK dst, p, near, far :
          /\ IsWay(s, dst, p, near, far)
          /\ \E k \in 1 .. 3 : File(s)[n] = Way(dst, p, near, far)[k]
    BY <1>5, FileLines
<1>8. /\ table = "ipv4_lpm" =>
             key = dst /\ row = [nhop |-> far, port |-> ActionPort(p)]
      /\ table = "forward" => key = far /\ row = [dmac |-> far]
      /\ table = "send_frame" => key = p /\ row = [smac |-> near]
    <2>1. PICK k \in 1 .. 3 : File(s)[n] = Way(dst, p, near, far)[k]
        BY <1>7
    <2>2. /\ File(s)[n].table = "ipv4_lpm" =>
                 /\ File(s)[n].key = dst
                 /\ File(s)[n].data = [nhop |-> far, port |-> ActionPort(p)]
          /\ File(s)[n].table = "forward" =>
                 File(s)[n].key = far /\ File(s)[n].data = [dmac |-> far]
          /\ File(s)[n].table = "send_frame" =>
                 File(s)[n].key = p /\ File(s)[n].data = [smac |-> near]
        BY <2>1, LineOfWay
    <2>. QED BY <1>1, <1>2, <2>2
<1>9. ActionPort(p) = p
    <2>1. net \in Networks
        BY DEF Built, StartInv, Progress
    <2>2. p \in 1 .. Size(s) /\ Size(s) \in Nat /\ Size(s) < 8
        BY <1>7, <2>1, WaysAreWired, FewerThanEight, Sizes
    <2>. QED BY <2>2, ActionPortReads
<1>. QED BY <1>6, <1>7, <1>8, <1>9

------------------------------------------------------------------------------
(* A frame on its way: sent by a host, over a link to the switch of its    *)
(* destination, or at its destination.                                     *)

Address == [kind : {"unset", "host", "gateway", "link", "control", "controller"},
            switch : Nat, number : Nat]
Frame == [to : Address, from : Address, dst : Address, dmac : Address,
          smac : Address, ttl : 0 .. 255, sent : 0 .. 255]

Spent(ttl) == (ttl + 255) % 256

Routed ==
    frame # NoFrame =>
        /\ stage = "cli" /\ frame \in Frame
        /\ frame.dst.kind = "host"
        /\ frame.dmac = frame.to /\ frame.smac = frame.from
        /\ \/ /\ frame.to.kind = "gateway" /\ frame.to.switch \in Switches
              /\ frame.ttl = frame.sent
           \/ /\ frame.to.kind = "link"
              /\ frame.to.switch = frame.dst.switch /\ frame.to.switch \in Switches
              /\ frame.ttl = Spent(frame.sent)
           \/ /\ frame.to = frame.dst
              /\ frame.ttl \in {Spent(frame.sent), Spent(Spent(frame.sent))}

IInv == StartInv /\ Led /\ Named /\ Written /\ Routed

LEMMA RoutedSuffices == Routed => OnlyAddressee /\ FewHops
<1>. SUFFICES ASSUME Routed, frame # NoFrame PROVE OnlyAddressee /\ FewHops
    BY DEF OnlyAddressee, FewHops
<1>1. OnlyAddressee
    BY DEF Routed, OnlyAddressee, AtSwitch
<1>2. FewHops
    <2>1. frame.ttl \in 0 .. 255 /\ frame.sent \in 0 .. 255
        BY DEF Routed, Frame
    <2>2. frame.ttl \in {frame.sent, Spent(frame.sent), Spent(Spent(frame.sent))}
        BY DEF Routed
    <2>. QED BY <2>1, <2>2 DEF FewHops, Spent
<1>. QED BY <1>1, <1>2

\* What a switch does with a packet that it sends on.
LEMMA HopKeeps ==
    ASSUME FewPorts, StartInv, Led, Named, Written, Routed, Hop
    PROVE  Routed'
<1>. DEFINE s == frame.to.switch
<1>1. /\ frame # NoFrame /\ frame.to.kind \in {"gateway", "link"}
      /\ net' = net /\ stage' = stage /\ Switches' = Switches
    BY SameNetwork DEF Hop, AtSwitch, builder
<1>2. /\ Built /\ frame \in Frame /\ frame.dst.kind = "host"
      /\ frame.to # frame.dst /\ s \in Switches /\ net \in Networks
    BY <1>1 DEF Routed, Built, StartInv, Progress
<1>3. PICK way \in Route(s, frame.dst) :
          /\ Sends(s, way)
          /\ frame' = [frame EXCEPT
                !.from = mac[s][way.port],
                !.to = ports[s][way.port],
                !.ttl = (@ + 255) % 256,
                !.dmac = IF Rows(s, "forward", way.nhop) = {} THEN @
                         ELSE (CHOOSE r \in Rows(s, "forward", way.nhop) : TRUE).dmac,
                !.smac = IF Rows(s, "send_frame", way.port) = {} THEN @
                         ELSE (CHOOSE r \in Rows(s, "send_frame", way.port) : TRUE).smac]
    BY DEF Hop
<1>4. \/ way \in Rows(s, "ipv4_lpm", frame.dst)
      \/ way \in Rows(s, "ipv4_lpm", Subnet(frame.dst.switch))
    BY <1>3 DEF Route
<1>5. PICK dst, p, near, far :
          /\ IsWay(s, dst, p, near, far)
          /\ dst \in {frame.dst, Subnet(frame.dst.switch)}
          /\ way = [nhop |-> far, port |-> p]
    BY <1>2, <1>4, RowsAreOfWays
<1>6. p \in 1 .. Size(s) /\ ports[s][p] = far /\ mac[s][p] = near
    BY <1>2, <1>5, WaysAreWired
<1>7. way.nhop = far /\ way.port = p
    BY <1>5
<1>8. DropsMisses(s, "forward") /\ DropsMisses(s, "send_frame")
    BY <1>2, <1>4, RowsAreOfWays
<1>9. Rows(s, "forward", far) # {} /\ Rows(s, "send_frame", p) # {}
    BY <1>3, <1>7, <1>8 DEF Sends, Found
<1>10. \A r \in Rows(s, "forward", far) : r.dmac = far
    BY <1>2, RowsAreOfWays
<1>11. \A r \in Rows(s, "send_frame", p) : r.smac = near
    <2>. TAKE r \in Rows(s, "send_frame", p)
    <2>1. PICK d, n, f : IsWay(s, d, p, n, f) /\ r = [smac |-> n]
        BY <1>2, RowsAreOfWays
    <2>2. mac[s][p] = n
        BY <1>2, <2>1, WaysAreWired
    <2>. QED BY <1>6, <2>1, <2>2
<1>12. frame' = [frame EXCEPT !.from = near, !.to = far, !.ttl = Spent(@),
                              !.dmac = far, !.smac = near]
    <2>1. (CHOOSE r \in Rows(s, "forward", far) : TRUE).dmac = far
        BY <1>9, <1>10
    <2>2. (CHOOSE r \in Rows(s, "send_frame", p) : TRUE).smac = near
        BY <1>9, <1>11
    <2>. QED BY <1>3, <1>6, <1>7, <1>9, <2>1, <2>2 DEF Spent
<1>13. /\ near \in Address /\ far \in Address
       /\ \/ dst.kind = "host" /\ far = dst
          \/ \E l \in LinksOf(s) :
                 /\ dst = Subnet(Peer(s, l)) /\ far = LinkEnd(Peer(s, l), l)
                 /\ Peer(s, l) # s /\ Peer(s, l) \in Switches
    <2>1. s \in Nat /\ net.hosts[s] \in Nat
        BY <1>2, NetworkShape
    <2>2. CASE \E j \in 1 .. net.hosts[s] :
                   dst = Host(s, j) /\ near = Gateway(s, j) /\ far = Host(s, j)
        BY <2>1, <2>2 DEF Host, Gateway, Address
    <2>3. CASE \E l \in LinksOf(s) :
                   /\ dst = Subnet(Peer(s, l)) /\ near = LinkEnd(s, l)
                   /\ far = LinkEnd(Peer(s, l), l)
        <3>1. PICK l \in LinksOf(s) :
                  /\ dst = Subnet(Peer(s, l)) /\ near = LinkEnd(s, l)
                  /\ far = LinkEnd(Peer(s, l), l)
            BY <2>3
        <3>2. l \in DOMAIN net.links /\ s \in Ends(l)
            BY DEF LinksOf
        <3>3. \E t \in Ends(l) : t # s
            BY <1>2, <3>2, NetworkShape
        <3>4. Peer(s, l) # s
            BY <3>3 DEF Peer
        <3>5. Peer(s, l) \in Switches /\ Peer(s, l) \in Nat /\ l \in Nat
            BY <1>2, <3>2, PeerIsSwitch, NetworkShape
        <3>6. near \in Address /\ far \in Address
            BY <2>1, <3>1, <3>5 DEF LinkEnd, Address
        <3>. QED BY <3>1, <3>4, <3>5, <3>6
    <2>. QED BY <1>5, <2>2, <2>3 DEF IsWay
<1>14. /\ frame' \in Frame /\ frame'.to = far /\ frame'.from = near
       /\ frame'.dmac = far /\ frame'.smac = near /\ frame'.dst = frame.dst
       /\ frame'.sent = frame.sent /\ frame'.ttl = Spent(frame.ttl)
    <2>1. Spent(frame.ttl) \in 0 .. 255
        BY <1>2 DEF Frame, Spent
    <2>. QED BY <1>2, <1>12, <1>13, <2>1 DEF Frame
<1>15. \/ frame.ttl = frame.sent /\ frame.to.kind = "gateway"
       \/ /\ frame.ttl = Spent(frame.sent) /\ s = frame.dst.switch
    BY <1>1, <1>2 DEF Routed
<1>16. CASE dst = frame.dst
    <2>1. far = frame.dst
        <3>1. \A t : Subnet(t).kind # "host"
            BY DEF Subnet
        <3>. QED BY <1>2, <1>13, <1>16, <3>1
    <2>. QED BY <1>1, <1>2, <1>14, <1>15, <2>1 DEF Routed, Built
<1>17. CASE dst = Subnet(frame.dst.switch)
    <2>1. dst.kind = "subnet" /\ dst.switch = frame.dst.switch
        BY <1>17 DEF Subnet
    <2>2. PICK l \in LinksOf(s) :
              /\ dst = Subnet(Peer(s, l)) /\ far = LinkEnd(Peer(s, l), l)
              /\ Peer(s, l) # s /\ Peer(s, l) \in Switches
        BY <1>13, <2>1
    <2>3. Peer(s, l) = frame.dst.switch
        BY <2>1, <2>2 DEF Subnet
    <2>4. far.kind = "link" /\ far.switch = frame.dst.switch
        BY <2>2, <2>3 DEF LinkEnd
    <2>5. frame.ttl = frame.sent
        BY <1>15, <2>2, <2>3
    <2>. QED BY <1>1, <1>2, <1>14, <2>2, <2>3, <2>4, <2>5 DEF Routed, Built
<1>. QED BY <1>5, <1>16, <1>17

LEMMA BuildKeeps ==
    ASSUME StartInv, Led, Named, Build
    PROVE  StartInv' /\ Led' /\ Named'
BY AddSwitchKeeps, AddLinkKeeps, ConfigureControlKeeps, StartKeeps, AddressKeeps,
   AddSwitchLeads, AddLinkLeads, ConfigureControlLeads, StartLeads,
   AddressHostsLeads, AddressLinkLeads DEF Build

LEMMA SameFiles ==
    ASSUME net' = net
    PROVE  \A s : File(s)' = File(s)
<1>1. /\ \A s : LinksOf(s)' = LinksOf(s)
      /\ \A s, l : LinkEnd(s, l)' = LinkEnd(s, l) /\ Peer(s, l)' = Peer(s, l)
    BY SameNetwork DEF LinkEnd, Peer, Ends
<1>2. \A s : LinksInOrder(s)' = LinksInOrder(s)
    BY DEF LinksInOrder, LinksOf, Ends
<1>3. \A s : HostWays(s)' = HostWays(s)
    BY DEF HostWays
<1>4. \A s : LinkWays(s)' = LinkWays(s)
    BY <1>1, <1>2 DEF LinkWays
<1>. QED BY <1>3, <1>4 DEF File, Defaults, Default

LEMMA IInvInit == Init => IInv
<1>. SUFFICES ASSUME Init PROVE IInv
    OBVIOUS
<1>1. StartInv /\ Led /\ Named
    BY StartInvInit, InitLeads
<1>2. Written
    BY DEF Init, Written
<1>3. Routed
    BY DEF Init, Routed
<1>. QED BY <1>1, <1>2, <1>3 DEF IInv

\* Steps of the builder, and steps that leave it alone.
LEMMA ConstructKeeps == IInv /\ Construct => IInv'
<1>. SUFFICES ASSUME IInv, Construct PROVE IInv'
    OBVIOUS
<1>1. StartInv' /\ Led' /\ Named'
    BY BuildKeeps DEF IInv, Construct
<1>2. net' = net /\ stage # "cli" /\ UNCHANGED <<file, loaded, frame>>
    BY DEF Construct, Build, AddSwitch, AddLink, ConfigureControl, Start,
           AddressHosts, AddressLink
<1>3. Written'
    BY <1>2, SameNetwork, SameFiles DEF IInv, Written
<1>4. Routed'
    BY <1>2 DEF IInv, Routed
<1>. QED BY <1>1, <1>3, <1>4 DEF IInv

LEMMA NamesStay ==
    StartInv /\ Led /\ Named /\ UNCHANGED builder => StartInv' /\ Led' /\ Named'
<1>. SUFFICES ASSUME StartInv, Led, Named, UNCHANGED builder
              PROVE  StartInv' /\ Led' /\ Named'
    OBVIOUS
<1>1. /\ net' = net /\ stage' = stage /\ made' = made /\ ports' = ports /\ mac' = mac
      /\ Switches' = Switches /\ \A s : LinksOf(s)' = LinksOf(s)
      /\ \A s, l : PortOf(s, l)' = PortOf(s, l)
    BY SameNetwork, SamePorts DEF builder
<1>. QED BY <1>1, BuiltKeeps, SameLeads DEF Named

LEMMA IInvInductive == FewPorts /\ IInv /\ [Next]_vars => IInv'
<1>. SUFFICES ASSUME FewPorts, IInv, [Next]_vars PROVE IInv'
    OBVIOUS
<1>1. CASE Construct
    BY <1>1, ConstructKeeps
<1>2. ASSUME UNCHANGED builder
      PROVE  StartInv' /\ Led' /\ Named' /\ Switches' = Switches
    BY <1>2, NamesStay, SameNetwork DEF IInv, builder
<1>3. ASSUME UNCHANGED <<builder, file, loaded>>
      PROVE  Written'
    BY <1>2, <1>3, SameFiles DEF IInv, Written, builder
<1>4. ASSUME NEW s \in Switches, Load(s)
      PROVE  IInv'
    <2>1. UNCHANGED builder /\ file' = file /\ frame' = frame /\ stage' = stage
        BY <1>4 DEF Load, builder
    <2>2. Written'
        <3>1. /\ loaded' = [loaded EXCEPT ![s] = @ + 1] /\ loaded[s] < Len(file[s])
              /\ loaded \in [Switches -> Nat] /\ file = [t \in Switches |-> File(t)]
              /\ \A t \in Switches : loaded[t] = 0 \/ loaded[t] <= Len(file[t])
            BY <1>4 DEF Load, IInv, Written
        <3>2. \A t \in Switches : loaded'[t] = 0 \/ loaded'[t] <= Len(file[t])
            <4>1. Len(file[s]) \in Nat
                BY <1>4, <3>1, FileLines DEF Load, IInv, Built
            <4>. QED BY <3>1, <4>1
        <3>3. file' = [t \in Switches |-> File(t)']
            BY <2>1, <3>1, SameFiles DEF builder
        <3>. QED BY <1>2, <2>1, <3>1, <3>2, <3>3 DEF Written
    <2>3. Routed'
        BY <1>2, <2>1 DEF IInv, Routed
    <2>. QED BY <1>2, <2>1, <2>2, <2>3 DEF IInv
<1>5. ASSUME NEW h \in Hosts, NEW dst \in Destinations, NEW ttl \in Ttls,
             Send(h, dst, ttl)
      PROVE  IInv'
    <2>1. UNCHANGED <<builder, file, loaded>> /\ stage = "cli" /\ stage' = stage
        BY <1>5 DEF Send, builder
    <2>2. /\ h \in Address /\ dst \in Address /\ dst.kind = "host"
          /\ h.switch \in Switches
        <3>1. \A s \in Switches : s \in Nat /\ net.hosts[s] \in Nat
            BY NetworkShape DEF IInv, StartInv, Progress
        <3>2. ASSUME NEW s \in Switches, NEW j \in Nat
              PROVE  /\ Host(s, j) \in Address /\ Host(s, j).kind = "host"
                     /\ Host(s, j).switch = s
            BY <3>1 DEF Host, Address
        <3>3. PICK s \in Switches : \E j \in 1 .. net.hosts[s] : h = Host(s, j)
            BY DEF Hosts
        <3>4. \E t \in Switches, j \in Nat : dst = Host(t, j)
            BY <3>1 DEF Destinations, Hosts
        <3>. QED BY <3>1, <3>2, <3>3, <3>4
    <2>. DEFINE gate == Gateway(h.switch, h.number)
    <2>3. gate \in Address /\ gate.kind = "gateway" /\ gate.switch = h.switch
        BY <2>2 DEF Gateway, Address
    <2>4. frame' = [to |-> gate, from |-> h, dst |-> dst, dmac |-> gate,
                    smac |-> h, ttl |-> ttl, sent |-> ttl]
        BY <1>5 DEF Send
    <2>5. ttl \in 0 .. 255
        BY TtlsAssumption
    <2>. HIDE DEF gate
    <2>6. Routed'
        BY <1>2, <2>1, <2>2, <2>3, <2>4, <2>5 DEF Routed, Frame
    <2>. QED BY <1>2, <1>3, <2>1, <2>6 DEF IInv
<1>6. CASE Hop
    <2>1. UNCHANGED <<builder, file, loaded>>
        BY <1>6 DEF Hop
    <2>2. Routed'
        BY <1>6, HopKeeps DEF IInv
    <2>. QED BY <1>2, <1>3, <2>1, <2>2 DEF IInv
<1>7. CASE Drop \/ Take
    <2>1. UNCHANGED <<builder, file, loaded>> /\ frame' = NoFrame
        BY <1>7 DEF Drop, Take
    <2>2. NoFrame' = NoFrame
        BY DEF NoFrame, Unset
    <2>3. Routed'
        BY <2>1, <2>2 DEF Routed
    <2>. QED BY <1>2, <1>3, <2>1, <2>3 DEF IInv
<1>8. CASE UNCHANGED vars
    <2>1. UNCHANGED <<builder, file, loaded>> /\ frame' = frame /\ stage' = stage
        BY <1>8 DEF vars, builder
    <2>2. Routed'
        BY <1>2, <2>1 DEF IInv, Routed
    <2>. QED BY <1>2, <1>3, <2>1, <2>2 DEF IInv
<1>. QED BY <1>1, <1>4, <1>5, <1>6, <1>7, <1>8 DEF Next

LEMMA IInvHolds == ASSUME FewPorts PROVE Spec => []IInv
<1>1. IInv /\ [Next]_vars => IInv'
    BY IInvInductive
<1>. QED BY <1>1, IInvInit, PTL DEF Spec

(***************************************************************************)
(* In a network whose switches have fewer than eight ports the files, half *)
(* loaded or not, send a packet to no host but its own, and rewrite its    *)
(* MAC addresses to those build_network.py gave to the ends of the wire:   *)
(* generator and builder count the ports alike (main of both, NetworkTopo).*)
(***************************************************************************)
THEOREM OnlyAddresseeHolds == ASSUME FewPorts PROVE Spec => []OnlyAddressee
<1>1. IInv => OnlyAddressee
    BY RoutedSuffices DEF IInv
<1>. QED BY <1>1, IInvHolds, PTL

(***************************************************************************)
(* In such a network no packet passes a third switch, with whatever TTL    *)
(* it was sent (set_nhop, the routes of generateIpForwardingEntries.py).   *)
(***************************************************************************)
THEOREM FewHopsHolds == ASSUME FewPorts PROVE Spec => []FewHops
<1>1. IInv => FewHops
    BY RoutedSuffices DEF IInv
<1>. QED BY <1>1, IInvHolds, PTL
==============================================================================
