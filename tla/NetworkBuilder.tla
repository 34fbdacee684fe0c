---------------------------- MODULE NetworkBuilder ---------------------------
(***************************************************************************)
(* build_network.py: which port of a switch leads where, which ports its   *)
(* process forwards on, and under which address and number the tools find  *)
(* it.  A network is what a topology script writes: hosts[s] is the number *)
(* of hosts of switch s, links is the list switch_links.  No two switches  *)
(* have two links.                                                         *)
(*                                                                         *)
(* Every interface has one IP and one MAC address, which the topology      *)
(* scripts write next to each other: the interface stands for both.        *)
(***************************************************************************)
EXTENDS Naturals, Sequences, FiniteSets

CONSTANT Networks

ASSUME NetworksAssumption ==
    \A n \in Networks :
        /\ n.hosts \in Seq(Nat) /\ n.hosts # <<>>
        /\ n.links \in Seq((DOMAIN n.hosts) \X (DOMAIN n.hosts))
        /\ \A i, j \in DOMAIN n.links :
               /\ n.links[i][1] # n.links[i][2]
               /\ {n.links[i][1], n.links[i][2]} = {n.links[j][1], n.links[j][2]}
                     => i = j

VARIABLES
    net,          \* the contents of in_use_network.json
    stage,        \* what main does next
    made,         \* how many elements of the list of this stage are done
    ports,        \* for each switch the far ends of its ports 1, 2, ...
    ip,           \* the ports of each switch that have an IP address
    mac,          \* the interface whose MAC address a port of a switch has
    attached,     \* the ports the process of a switch was started with
    control,      \* the last byte of its address in the control network
    device_id,    \* its own number
    nanomsg,      \* the number in the name of its event log
    counter       \* P4Switch.device_id, the attribute of the class

builder == <<net, stage, made, ports, ip, mac, attached, control, device_id,
             nanomsg, counter>>

Switches == DOMAIN net.hosts
Ends(l) == {net.links[l][1], net.links[l][2]}
LinksOf(s) == {l \in DOMAIN net.links : s \in Ends(l)}

(***************************************************************************)
(* The interfaces: of a host, of its switch towards it, the ends of a link *)
(* between switches, and the two ends of a link to the controller.         *)
(***************************************************************************)
Host(s, j) == [kind |-> "host", switch |-> s, number |-> j]
Gateway(s, j) == [kind |-> "gateway", switch |-> s, number |-> j]
LinkEnd(s, l) == [kind |-> "link", switch |-> s, number |-> l]
Controller(s) == [kind |-> "controller", switch |-> s, number |-> 0]
ControlEnd(s) == [kind |-> "control", switch |-> s, number |-> 0]

Peer(s, l) == CHOOSE t \in Ends(l) : t # s
Unset == [kind |-> "unset", switch |-> 0, number |-> 0]
Unknown == 1000           \* a number not assigned yet

BuilderInit ==
    /\ net \in Networks
    /\ stage = "switches" /\ made = 0 /\ counter = 0
    /\ ports = [s \in Switches |-> <<>>]
    /\ ip = [s \in Switches |-> {}]
    /\ mac = [s \in Switches |-> <<>>]
    /\ attached = [s \in Switches |-> {}]
    /\ control = [s \in Switches |-> Unknown]
    /\ device_id = [s \in Switches |-> Unknown]
    /\ nanomsg = [s \in Switches |-> Unknown]

\* One more element of a list of n is done; after the last, the next stage.
Advance(n, next) ==
    IF made + 1 < n
    THEN made' = made + 1 /\ UNCHANGED stage
    ELSE made' = 0 /\ stage' = next

\* A loop over the switch links, which may be empty, and what comes behind it.
LoopOr(loop, next) == IF net.links = <<>> THEN next ELSE loop

\* NetworkTopo: a switch and the links to its hosts, and P4Router.__init__,
\* which makes the name of the log before the switch has a number of its own.
AddSwitch ==
    LET s == made + 1
    IN  /\ stage = "switches"
        /\ ports' = [ports EXCEPT ![s] = [j \in 1 .. net.hosts[s] |-> Host(s, j)]]
        /\ mac' = [mac EXCEPT ![s] = [j \in 1 .. net.hosts[s] |-> Unset]]
        /\ nanomsg' = [nanomsg EXCEPT ![s] = counter]
        /\ device_id' = [device_id EXCEPT ![s] = counter]
        /\ counter' = counter + 1
        /\ Advance(Len(net.hosts), LoopOr("links", "control"))
        /\ UNCHANGED <<net, ip, attached, control>>

\* NetworkTopo: a link between two switches, at the next port of both.
AddLink ==
    LET l == made + 1
    IN  /\ stage = "links"
        /\ ports' = [s \in Switches |->
               IF s \in Ends(l) THEN Append(ports[s], LinkEnd(Peer(s, l), l))
                                ELSE ports[s]]
        /\ mac' = [s \in Switches |->
               IF s \in Ends(l) THEN Append(mac[s], Unset) ELSE mac[s]]
        /\ Advance(Len(net.links), "control")
        /\ UNCHANGED <<net, ip, attached, control, device_id, nanomsg, counter>>

\* configureControlNetwork, which counts the switches from 0.
ConfigureControl ==
    LET s == made + 1
    IN  /\ stage = "control"
        /\ ports' = [ports EXCEPT ![s] = Append(@, Controller(s))]
        /\ mac' = [mac EXCEPT ![s] = Append(@, ControlEnd(s))]
        /\ ip' = [ip EXCEPT ![s] = @ \cup {Len(ports[s]) + 1}]
        /\ control' = [control EXCEPT ![s] = 100 + 2 * made + 2]
        /\ Advance(Len(net.hosts), "start")
        /\ UNCHANGED <<net, attached, device_id, nanomsg, counter>>

\* Mutation: a port is given to the process whether it has an address or not.
StartOnAllPorts ==
    LET s == made + 1
    IN  /\ stage = "start"
        /\ attached' = [attached EXCEPT ![s] = DOMAIN ports[s]]
        /\ counter' = counter + 1
        /\ Advance(Len(net.hosts), "hosts")
        /\ UNCHANGED <<net, ports, ip, mac, control, device_id, nanomsg>>

\* P4Router.start: a port with an IP address is not given to the process.
Start ==
    LET s == made + 1
    IN  /\ stage = "start"
        /\ attached' = [attached EXCEPT ![s] = DOMAIN ports[s] \ ip[s]]
        /\ counter' = counter + 1
        /\ Advance(Len(net.hosts), "hosts")
        /\ UNCHANGED <<net, ports, ip, mac, control, device_id, nanomsg>>

\* connectionsTo(...)[0]: the port of switch s whose far end is i.
PortTo(s, i) == CHOOSE p \in DOMAIN ports[s] : ports[s][p] = i

\* main, the switch's addresses towards its hosts.
AddressHosts ==
    LET s == made + 1
        p == {PortTo(s, Host(s, j)) : j \in 1 .. net.hosts[s]}
    IN  /\ stage = "hosts"
        /\ ip' = [ip EXCEPT ![s] = @ \cup p]
        /\ mac' = [mac EXCEPT ![s] = [q \in DOMAIN @ |->
               IF q \in p THEN Gateway(s, ports[s][q].number) ELSE @[q]]]
        /\ Advance(Len(net.hosts), LoopOr("ends", "cli"))
        /\ UNCHANGED <<net, ports, attached, control, device_id, nanomsg, counter>>

\* main, the switches' addresses on the links between them.
AddressLink ==
    LET l == made + 1
        p == [s \in Ends(l) |-> PortTo(s, LinkEnd(Peer(s, l), l))]
    IN  /\ stage = "ends"
        /\ ip' = [s \in Switches |->
               IF s \in Ends(l) THEN ip[s] \cup {p[s]} ELSE ip[s]]
        /\ mac' = [s \in Switches |->
               IF s \in Ends(l) THEN [mac[s] EXCEPT ![p[s]] = LinkEnd(s, l)]
                                ELSE mac[s]]
        /\ Advance(Len(net.links), "cli")
        /\ UNCHANGED <<net, ports, attached, control, device_id, nanomsg, counter>>

Build ==
    \/ AddSwitch \/ AddLink \/ ConfigureControl \/ Start
    \/ AddressHosts \/ AddressLink

(***************************************************************************)
(* Where the tools look for a switch: cli.py with its number, the monitor  *)
(* with the number in a message of its log, and the generators of tables   *)
(* in the network file.                                                    *)
(***************************************************************************)
CliAddress(s) == 100 + 2 * s
MonitorAddress(switch_id) == 102 + 2 * switch_id
control_network_ip(s) == 100 + 2 * s

(***************************************************************************)
(* The process of a switch forwards on the ports of its hosts and of its   *)
(* switch links, never on the one of the control network, and every tool   *)
(* finds this switch under the number it knows.  It rests on the order of  *)
(* main: the control network gets its addresses before the processes are   *)
(* started and the other ports get theirs after (build_network.py:161).    *)
(***************************************************************************)
StartedRight ==
    \A s \in Switches :
        attached[s] # {} =>
            /\ attached[s] = 1 .. net.hosts[s] + Cardinality(LinksOf(s))
            /\ control[s] = CliAddress(s)
            /\ control[s] = MonitorAddress(device_id[s])
            /\ control[s] = control_network_ip(s)
            /\ nanomsg[s] = device_id[s]
            /\ \A t \in Switches : control[t] = control[s] => t = s
=============================================================================
