------------------------------- MODULE TeBits -------------------------------
(***************************************************************************)
(* The meaning of the bits of a BIER-TE BitString: one bit per switch, for *)
(* its local_decap, then MaxPortNum bits per switch, for the adjacencies   *)
(* behind its ports.  generateBIFTEntries_BIER-TE.py numbers them for the  *)
(* tables, nanomsg_link_status.py computes the bit of a failed port again. *)
(* Switches are numbered from 1, the scripts count from 0.                 *)
(***************************************************************************)
EXTENDS Integers

MaxPortNum == 4

\* Bit of local_decap at switch s.
DecapBit(s) == s

\* The ports the generator gives a bit: those behind the ports of the hosts.
LinkPorts(hosts) == hosts + 1 .. hosts + MaxPortNum

\* Bit of forward_connected to port p at switch s of n.
AdjacencyBit(n, hosts, s, p) == n + MaxPortNum * (s - 1) + (p - hosts)

BitsOfInterest(n, hosts, s) ==
    {DecapBit(s)} \cup {AdjacencyBit(n, hosts, s, p) : p \in LinkPorts(hosts)}

\* The adjacency the table bift of switch s has for each of its link bits.
PortOfBit(n, hosts, s) ==
    [b \in BitsOfInterest(n, hosts, s) \ {DecapBit(s)} |->
        CHOOSE p \in LinkPorts(hosts) : AdjacencyBit(n, hosts, s, p) = b]

\* Mutation: off by one.
MonitoredBitAbove(switch_id, p) == 8 + 4 * switch_id + p

\* The bit the link monitor computes for port p of the switch with this
\* switch_id: 8 + 4 * switch_id + port - 1.
MonitoredBit(switch_id, p) == 8 + 4 * switch_id + p - 1
=============================================================================
