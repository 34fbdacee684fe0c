------------------------------ MODULE Topology ------------------------------
(***************************************************************************)
(* The emulated networks: the switch links the topology scripts write and  *)
(* the port numbers they get.  Mininet numbers the ports of a switch from  *)
(* 1 in the order of the addLink calls of build_network.py: the links to   *)
(* its hosts first, then its switch links in the order of the file.        *)
(***************************************************************************)
EXTENDS Naturals, Sequences, FiniteSets

\* generateRingNetwork.py: link i joins switch i and the next one.
RingLinks(n) == [i \in 1 .. n |-> <<i, (i % n) + 1>>]

\* generateFRRNetwork.py: the list custom_links.
FrrLinks == << <<1, 2>>, <<1, 3>>, <<2, 5>>, <<3, 4>>, <<3, 5>>,
               <<3, 6>>, <<4, 7>>, <<5, 8>>, <<6, 7>>, <<6, 8>> >>

Ends(link) == {link[1], link[2]}

\* The port of switch s on link l, behind the ports of its hosts.
PortOn(links, hosts, s, l) ==
    hosts + Cardinality({m \in 1 .. l : s \in Ends(links[m])})

\* The links of switch s whose port is p: one link, or none.
LinkAt(links, hosts, s, p) ==
    {l \in DOMAIN links : s \in Ends(links[l]) /\ PortOn(links, hosts, s, l) = p}

\* The switches behind port p of switch s.
Peers(links, hosts, s, p) ==
    UNION {Ends(links[l]) \ {s} : l \in LinkAt(links, hosts, s, p)}
=============================================================================
