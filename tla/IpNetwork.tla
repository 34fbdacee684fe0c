------------------------------ MODULE IpNetwork ------------------------------
(***************************************************************************)
(* Ordinary IPv4 packets in the network that NetworkBuilder builds, while  *)
(* the operator loads into the switches the files that                     *)
(* generateIpForwardingEntries.py has written for it.                      *)
(***************************************************************************)
EXTENDS NetworkBuilder, TableLiterals

CONSTANT Ttls           \* what hosts put into ipv4.ttl

ASSUME TtlsAssumption == Ttls \subseteq 0 .. 255

VARIABLES
    file,               \* ip_forwarding/entries_<name of the switch>
    loaded,             \* how many lines of its file each switch has
    frame               \* the packet on its way, or NoFrame

vars == <<builder, file, loaded, frame>>

(* A frame: the interface it arrives at, the one it was sent from, its IP  *)
(* destination and MAC addresses, ipv4.ttl, and the TTL the host gave it.  *)
NoFrame == [to |-> Unset]

------------------------------------------------------------------------------
(* The files, a row being a line.                                          *)

Subnet(s) == [kind |-> "subnet", switch |-> s, number |-> 0]

Default(table) == [op |-> "set_default", table |-> table]
Defaults == <<Default("ipv4_lpm"), Default("forward"), Default("send_frame")>>

Add(table, key, data) ==
    [op |-> "add", table |-> table, key |-> key, data |-> data]

\* The port as ipv4_lpm gets it: action_port is written with four
\* digits.  The client skips a line whose number it can not read (-1).
ActionPort(p) == ValueOf("0", <<p \div 10, p % 10>>)

\* add_all_entries: the way to dst is out of port p, from the interface near
\* to the interface far.
Way(dst, p, near, far) ==
    << Add("ipv4_lpm", dst, [nhop |-> far, port |-> ActionPort(p)]),
       Add("forward", far, [dmac |-> far]),
       Add("send_frame", p, [smac |-> near]) >>

\* The lines of a list of ways.
Lines(ways) ==
    [n \in 1 .. 3 * Len(ways) |-> ways[1 + ((n - 1) \div 3)][1 + ((n - 1) % 3)]]

HostWays(s) ==
    Lines([j \in 1 .. net.hosts[s] |->
        Way(Host(s, j), j, Gateway(s, j), Host(s, j))])

\* The links of s in the order of the network file.
LinksInOrder(s) ==
    [i \in 1 .. Cardinality(LinksOf(s)) |->
        CHOOSE l \in LinksOf(s) : Cardinality({m \in LinksOf(s) : m <= l}) = i]

\* Mutation: every other subnet is behind the last neighbour.
LinkWaysAnywhere(s) ==
    LET links == LinksInOrder(s)
        i == Len(links)
    IN  Lines([t \in 1 .. IF i = 0 THEN 0 ELSE Len(net.hosts) |->
            Way(Subnet(t), net.hosts[s] + i, LinkEnd(s, links[i]),
                LinkEnd(Peer(s, links[i]), links[i]))])

\* Mutation: the ports of the neighbours are counted from the first.
LinkWaysFromOne(s) ==
    LET links == LinksInOrder(s)
    IN  Lines([i \in DOMAIN links |->
            Way(Subnet(Peer(s, links[i])), i, LinkEnd(s, links[i]),
                LinkEnd(Peer(s, links[i]), links[i]))])

LinkWays(s) ==
    LET links == LinksInOrder(s)
    IN  Lines([i \in DOMAIN links |->
            Way(Subnet(Peer(s, links[i])), net.hosts[s] + i, LinkEnd(s, links[i]),
                LinkEnd(Peer(s, links[i]), links[i]))])

\* Mutation: the defaults are the last lines of the file.
FileDefaultsLast(s) == HostWays(s) \o LinkWays(s) \o Defaults

File(s) == Defaults \o HostWays(s) \o LinkWays(s)

------------------------------------------------------------------------------
(* The tables of a switch, and what it does with a packet.                 *)

\* The first line loaded with this key: the table refuses another one.
Rows(s, table, key) ==
    LET lines == {n \in 1 .. loaded[s] :
                     /\ file[s][n].op = "add" /\ file[s][n].table = table
                     /\ file[s][n].key = key
                     /\ table = "ipv4_lpm" => file[s][n].data.port >= 0}
    IN  {file[s][n].data : n \in {m \in lines : \A l \in lines : m <= l}}

DropsMisses(s, table) ==
    \E n \in 1 .. loaded[s] : file[s][n] = Default(table)

Found(s, table, key) == Rows(s, table, key) # {} \/ ~DropsMisses(s, table)

\* The longest prefix that holds dst.  A miss leaves no port to send on,
\* whatever the default.
Route(s, dst) ==
    IF Rows(s, "ipv4_lpm", dst) # {}
    THEN Rows(s, "ipv4_lpm", dst)
    ELSE Rows(s, "ipv4_lpm", Subnet(dst.switch))

\* The destinations: the hosts, and for each subnet an address nobody has.
Hosts == UNION {{Host(s, j) : j \in 1 .. net.hosts[s]} : s \in Switches}
Destinations == Hosts \cup {Host(s, 0) : s \in Switches}

Init ==
    /\ BuilderInit
    /\ file = [s \in Switches |-> File(s)]
    /\ loaded = [s \in Switches |-> 0]
    /\ frame = NoFrame

Construct == Build /\ UNCHANGED <<file, loaded, frame>>

\* The next line of the file of s; the operator loads one file at a time.
Load(s) ==
    /\ stage = "cli"
    /\ loaded[s] < Len(file[s])
    /\ \A t \in Switches \ {s} : loaded[t] \in {0, Len(file[t])}
    /\ loaded' = [loaded EXCEPT ![s] = @ + 1]
    /\ UNCHANGED <<builder, file, frame>>

\* Host h knows its switch only: the route of its subnet has been deleted.
Send(h, dst, ttl) ==
    /\ stage = "cli" /\ frame = NoFrame
    /\ frame' = [to |-> Gateway(h.switch, h.number), from |-> h, dst |-> dst,
                 dmac |-> Gateway(h.switch, h.number), smac |-> h,
                 ttl |-> ttl, sent |-> ttl]
    /\ UNCHANGED <<builder, file, loaded>>

AtSwitch == frame # NoFrame /\ frame.to.kind \in {"gateway", "link"}

\* Whether switch s sends a packet out as way, a row of ipv4_lpm, says.
Sends(s, way) ==
    /\ Found(s, "forward", way.nhop)
    /\ Found(s, "send_frame", way.port)
    /\ way.port \in attached[s]

\* set_nhop, set_dmac and rewrite_mac: the TTL has eight bits.
Hop ==
    LET s == frame.to.switch
    IN  /\ AtSwitch
        /\ \E way \in Route(s, frame.dst) :
               /\ Sends(s, way)
               /\ frame' = [frame EXCEPT
                     !.from = mac[s][way.port],
                     !.to = ports[s][way.port],
                     !.ttl = (@ + 255) % 256,
                     !.dmac = IF Rows(s, "forward", way.nhop) = {} THEN @
                              ELSE (CHOOSE r \in Rows(s, "forward", way.nhop) : TRUE).dmac,
                     !.smac = IF Rows(s, "send_frame", way.port) = {} THEN @
                              ELSE (CHOOSE r \in Rows(s, "send_frame", way.port) : TRUE).smac]
        /\ UNCHANGED <<builder, file, loaded>>

Drop ==
    /\ AtSwitch
    /\ \A way \in Route(frame.to.switch, frame.dst) : ~Sends(frame.to.switch, way)
    /\ frame' = NoFrame
    /\ UNCHANGED <<builder, file, loaded>>

\* The network card of a host takes a frame, or leaves it.
Take ==
    /\ frame # NoFrame /\ ~AtSwitch
    /\ frame' = NoFrame
    /\ UNCHANGED <<builder, file, loaded>>

Next ==
    \/ Construct
    \/ \E s \in Switches : Load(s)
    \/ \E h \in Hosts, dst \in Destinations, ttl \in Ttls : Send(h, dst, ttl)
    \/ Hop
    \/ Drop
    \/ Take

Spec == Init /\ [][Next]_vars /\ WF_vars(Hop)

------------------------------------------------------------------------------
(***************************************************************************)
(* Whatever part of the files is loaded, a frame that leaves a switch      *)
(* carries the MAC addresses build_network.py gave to the two ends of the  *)
(* wire, and it goes to no host but the one it is for.  The generator      *)
(* numbers the ports anew (generateIpForwardingEntries.py:32, 41), and the *)
(* three tables of a way are filled one after the other.                   *)
(***************************************************************************)
OnlyAddressee ==
    frame # NoFrame =>
        /\ frame.dmac = frame.to
        /\ frame.smac = frame.from
        /\ ~AtSwitch => frame.to = frame.dst

(***************************************************************************)
(* No packet passes more than two switches, whatever its destination and   *)
(* whatever is loaded: the TTL, which set_nhop decrements without a look   *)
(* at it (includes/bier/ip_forwarding.p4:4), is never what stops one.      *)
(***************************************************************************)
FewHops == frame # NoFrame => (frame.sent + 256 - frame.ttl) % 256 <= 2

Complete(s) == loaded[s] = Len(file[s])

(***************************************************************************)
(* A packet for a host of the same or of a neighbouring switch reaches it  *)
(* once these two switches have their files, also one whose TTL runs out   *)
(* on the way and wraps.                                                   *)
(***************************************************************************)
Reached ==
    LET Near(s, t) == s = t \/ \E l \in DOMAIN net.links : Ends(l) = {s, t}
        Reachable ==
            /\ frame # NoFrame /\ frame.to.kind = "gateway"
            /\ frame.dst \in Hosts
            /\ Near(frame.to.switch, frame.dst.switch)
            /\ Complete(frame.to.switch) /\ Complete(frame.dst.switch)
    IN  Reachable ~> (frame # NoFrame /\ frame.to = frame.dst)
==============================================================================
