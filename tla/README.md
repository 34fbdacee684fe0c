# BIER and BIER-TE routers in P4: specification and proofs

These modules model the bit-forwarding routers of this repository: the P4
programs `p4src/bfr.p4` (BIER) and `p4src/bfr_bier_te.p4` (BIER-TE with fast
reroute), the tables that are installed in them, the emulated networks they run
in, the program that builds these networks, the clients that put the tables in the
switches, and the process that tells a switch of failed links. Paths below are
relative to the root of the repository (`src/` in `PROJECT.json`).

## 1. The system

| Component | Keeps | Does | Talks to |
|---|---|---|---|
| BIER program `p4src/bfr.p4`, `p4src/includes/bier/` | per packet: headers, `bier_metadata` | encapsulates group traffic, serves one table entry per pass, clones and recirculates the rest, decapsulates for the host | neighbour switches by frames, tables by lookups |
| BIER-TE program `p4src/bfr_bier_te.p4`, `p4src/includes/bier_te/` | per packet: a stack of two BIER headers, `bier_metadata`, `bier_frr_metadata` | the same by adjacency, plus tunnels around a failed link | neighbours, `frr_indication` |
| Table files `table_manipulation/bier*`, `insert_all.bash`, `insert_bier_te` | text | fill the tables one file at a time while the switch runs | `cli.py`, `sswitch_CLI.py`, Thrift |
| Table generators `generateBIFTEntries_*.py`, `generateIpForwardingEntries.py` | - | compute entries from a topology file | topology json |
| Topology scripts `generateRingNetwork.py`, `generateFRRNetwork.py` | json | name switches, hosts and links | `build_network.py` |
| Network builder `build_network.py` | Mininet nodes, `P4Switch.device_id` | fixes the port numbers by the order of `addLink`, numbers the switches, starts their processes and gives out addresses, in that order | all switches, `in_use_network.json` |
| Link monitor `nanomsg_link_status.py` | `last_handle` | adds an entry to `frr_indication` on a port down, deletes it on a port up | event log (PUB/SUB), `sswitch_CLI.py` |
| Table client `table_manipulation/cli.py`, `cli/sswitch_CLI.py`, `SimpleSwitch-remote` | one connection per file | makes a call of each line, and dies of the first line it can not | Thrift server of the switch |
| Thrift service `cli/sswitch_runtime/SimpleSwitch.py` | processMap; mirroring sessions and queues of the switch | writes and reads the arguments and results of seven methods | table client, switch |
| Switch driver `main.c` | ports, registration | start-up of an older target | p4nsdb, control TCP port |
| Rest: `classic_mc`, pictures, `bfr.json`, `bm`, `.libs`, demo scripts | - | unused tables, drawings, compiled output | - |

What makes it hard is that `bmv2` has no clone from egress to ingress. Both
programs therefore send a frame and its *remainder* as a clone of each other: an
egress clone through a mirroring port, recognised by `instance_type`, is turned
into the packet with the remaining bits and recirculated. Headers are parsed
again on the way round, metadata survives. Whether a bit is lost, or served
twice, depends on five flags, on when each is saved, used and reset, and on
tables that may not be filled yet.

What makes each part correct:

- a router: each bit of a packet is served by one frame; nothing with an entry is
  lost; the header is on the frame exactly as long as it is in the domain; the
  recirculation ends;
- a network: no host gets the packet twice, each host asked for is served or the
  loss is accounted for, a link carries it once, no copy circulates;
- fast reroute: the failure of a protected link costs no host anything, that of
  another link only the hosts behind it;
- the clients: an answer is taken for the call it belongs to, what was answered
  stays in the switch while the connection stands, and a line that fails leaves the
  lines before it done and those after it not;
- the network builder: each switch process forwards on exactly its host and link
  ports, and every tool finds the switch under the number it computes for it;
  packets then go to the one they are for, with the MAC addresses of the wire;
- the monitor: once it has caught up the entry is about a link that is down, and
  it can be taken out again.

The places where this can go wrong are the `hazards` of `PROJECT.json`.

## 2. Modules

```
BierForwarding <---implements--- BierRouter ---- TableLiterals
      |                              |
BierForwardingProofs         BierRouterProofs --- BierInstallProofs

Topology --- BierNetwork --- MCBierNetwork --- BierNetworkProofs
BiftGenerator -------------------+               (each router as BierForwarding)
Topology, TeBits --- BierTeNetwork --- BierTeReach --- BierTeNetworkProofs
                                                 (each router in full)
TeBits --- LinkMonitor --- LinkMonitorProofs

ThriftService --- SwitchCommands --- TableClient ---implements---> CommandService
                                          |
                                  TableClientProofs
NetworkBuilder --- IpNetwork --- IpNetworkProofs
TableLiterals ---------+

MCBierForwarding, MCBierRouter, MCBierNetwork, MCBierTeNetwork, MCBierTeReach,
MCLinkMonitor, MCTableClient, MCIpNetwork: constants for TLC
```

Definitions that begin with "Mutation:" in their comment are wrong on purpose and
used by no specification: each stands beside the definition it alters, and
replacing the one by the other makes the property that `PROJECT.json` names
under `mutants` fail.

### BierForwarding

What a router promises: `todo[a]` are the bits of packet `a` no copy serves yet,
`sent[a]` the copies. `Deliver` is the host's copy (`packet_for_bfr`), `Forward`
one copy for all the bits that share a neighbour (`bift_action`), `GiveUp` the
end of a packet with a bit that has no entry (a miss in `bift`). The order of the
bits is open: `find_pos` takes the highest, but nothing rests on it.

### BierRouter

One switch with `bfr.p4`. For each packet `a`, `pkt[a]` is the one *live* copy:
the headers and the metadata of the packet that is still being worked on. When
the egress clones it, the frame goes to `out[a]` and the clone becomes the live
copy; `OneCopy` is the property that makes this faithful, since a pass that both
cloned and recirculated would leave two. Actions are the outcomes of a pass
through the ingress (`DropEmpty`, `PacketForBfr`, `BiftAction`, `NoPortChosen`,
`AddBierHeader`, `IpForward`, `IpDrop`) and through the egress (`EgressClones`,
`EgressRecirculates`, `EgressEnds`). The egress tables are functions on a packet
applied in the order of the control block (`Restored`, `Requeued`, `Decapped`).
Packets of different arrivals interleave freely.

`installed` counts the files of `insert_all.bash` that are in place
(`InstallOrder`); a table whose file is missing has neither entries nor default
action. `Preinstalled` chooses whether a run starts with full tables.

bmv2 itself is not in the repository. What is used of it: a clone carries the
fields of `bier_FL` and the headers as they are at the end of the pipeline; a
recirculated packet is deparsed and parsed again and keeps `bier_FL`; a dropped
packet is not recirculated; writing a field of an invalid header has no effect.

### TableLiterals

How a number in a table file becomes a parameter: the client calls `int(text, 0)`
in Python 2, for which a leading zero means octal.

### Topology, BiftGenerator, BierNetwork

Links in the order of the topology scripts, port numbers in the order of
`addLink`, and the tables `generateBIFTEntries_BIER.py` computes from them.
`MCBierNetwork` puts them together to `Ring(n, Bift)`, for TLC and for the proofs.
`BierNetwork` is one multicast packet in such a ring, each router doing what
`BierForwarding` promises; `Lose` is the tail drop of an egress queue. It looks
at a set `Networks` of rings in one run.

### TeBits, BierTeNetwork, BierTeReach

`TeBits` numbers bits as `generateBIFTEntries_BIER-TE.py` does: a bit per switch
for `local_decap`, then four per switch for the adjacencies. The generator counts
the hosts of the *last* switch for every switch (its loop variable is left over from
the loop before); `HostsTaken` is that number.

`BierTeNetwork` is one packet in a network of BIER-TE switches, all its copies
with their headers and metadata in a bag. Actions follow the branches of the
ingress: `AddBierHeader`, `NoPortChosen`, `DropEmpty`, `BtaftRecursion`,
`BtaftApply`, `BtaftMissing`, `Handover`, `HandoverToNone`, `HandoverMissing`,
`DecapEncapsulated`, `ForwardConnected`; `Egress` is the whole egress control with
clone, recirculation and transmission. `Fail` and `Indicate` are a link going down
and its two ends noticing, each at its own time. `Install` is one file of
`insert_bier_te` (`InstallOrder`), which serves one switch after the other; `On`
says whether a table is filled. `FilledBefore` tells how far the script is when the
packet of a group enters.

`BierTeReach` adds no step. It says what the bits of a packet *mean*: an arrival is
a packet fresh from the parser, at a switch and with one or two headers, and the
constant `Reach` gives the hosts an arrival may still get to. `Reach` is a *plan* if
each arrival it knows is `Closed`: what a switch makes of the arrival, over each of
its adjacencies (`Across`), around each it may have to protect (`Detours`, with every
set of entries `btaft` can gather) and at the end of a tunnel (`Inner`, `Beyond`), is
known to the plan and leads to no other hosts; and no two of these ways lead to the
same host (`Tidy`, `TidyEnd`). A plan is thus a certificate of how whoever chose the
bits of a group meant them to be travelled; `MCBierTeReach` computes one from the
bits alone. `Cover` gives for a copy at any point between two passes the hosts it can
still get to, and `Apart` says that the copies share the members out among them
(`KeptApart`: those of a packet that enters a filled network, along a plan). A plan may
promise too much; it is `Exact` if each host an arrival in one header leads to is behind
an adjacency of its switch, and a detour leads to nobody the adjacency does not lead
to. Along such a plan `NoneForgotten` says that no member drops out of the covers
before its host has the packet.

### LinkMonitor

`nanomsg_link_status.py` for one switch: `Change` and `Poll` are the ports and the
switch's port monitor (external), `log` the messages not yet received, `Ignore`,
`PortUp` and `PortDown` the body of the receiving loop. The entry is always `0/0`,
so the table holds one at most and a second `table_add` is refused. The log is
PUB/SUB without memory: `PollLost` is a message that does not reach the monitor,
`Restart` a monitor that starts again with `last_handle` -1 and without what was
published before. An entry made before that is an `Orphan` (`since`); `missed` are
the ports of whose last change the monitor does not act.

### ThriftService, SwitchCommands, TableClient, CommandService

`ThriftService` has the seven methods of `SimpleSwitch.py`: the structs as the
numbers and names of their fields, `Request` and `Reply` what `write` puts in a
message (a field that is None is not written), `Handled` and `Result` what `read`
makes of it, `Raises` when `recv_*` raises. `SwitchCommands` has what
`sswitch_CLI.py` and `SimpleSwitch-remote` make of a line, by the number of its
words and whether `int()` and the field's type accept them, and the effect of each
call. That part of the switch is external: mirroring sessions and the depths and
rates of queues, as the names of the methods say.

`TableClient` runs scripts: `Start` opens a connection for the next file, `Send`
sends the call of a line, `BadLine` is an exception before anything is sent, `Serve`
is the processor in the switch, `Receive` the answer, `Lost` a connection that
broke, `Died` and `EndOfFile` the ends of the process; the script never looks at how
it ended. `Crash` and `Restart` take the switch away and bring it back with empty
tables. Scripts interleave. `CommandService` is the promise: every file has a
session in which lines take effect in order, none twice, and none after one that
failed. The refinement moves the position of a session when the switch serves the
call, not when the client hears of it.

### NetworkBuilder, IpNetwork

`NetworkBuilder` is `main` of `build_network.py` from the first switch to the prompt,
one action per element of each loop: `AddSwitch`, `AddLink`, `ConfigureControl`,
`Start`, `AddressHosts`, `AddressLink`. An interface stands for its IP and its MAC
address. `IpNetwork` adds the files `generateIpForwardingEntries.py` writes for that
network, loaded line by line (`Load`), and IPv4 packets: `Send`, `Hop` (`ipv4_lpm`,
`forward`, `send_frame`, TTL in eight bits), `Drop`, `Take`. The ports in the tables
are those the generator counts, the ports of the switch those the builder made.

## 3. Runs

| Run | Instance | Question | States |
|---|---|---|---|
| `bier_forwarding` | 2 packets, 5 bits | the promise is kept in every order of the entries, and each packet ends | 79524 |
| `bier_router` | 2 packets, an s3 of a ring, tables full | `bfr.p4` implements `BierForwarding`, one live copy, flags reset, header confined, progress | 78961 |
| `bier_install` | 1 packet, tables filled meanwhile | what may be served twice in the window; complete service and confined headers after it | 2898 |
| `bier_octal_bm` | mask of `check_bfr_id_entries_s2` | *violated*: s2 does not clear its bit | - |
| `ring_committed` | rings of 3, 4, 5, one loss | once per host and link, all accounted for, drains | 28989 |
| `ring_generated` | ring of 5, generated tables | *violated*: s1 and s5 exchange a copy for ever | - |
| `monitor` | 3 ports, 6 changes, failures one at a time, overlapping, or sharing a message; messages lost, monitor restarted | the right entry, and the table settles; no entry about a link that works; the handle known, or the entry an orphan that stays | 242670 |
| `te` | `FRRNetwork.json`; the three committed groups, one entering at s8, one that forks at s3, one that enters while s7 and s8 are filled, one whose bits go on behind s6, which has entries too; s3-s6 down from the start, or for three of them at any time | every member served once, no third header, only hosts behind the link may miss theirs, drains; two copies never lead to the same host, and while no link is down every member is served or led to | 133093 |
| `te_rest_lost` | a group that forks at s3 | *violated*: protecting one adjacency loses another | - |
| `te_tunnel_end` | a tunnel ending in one decap bit | *violated*: the packet inside is lost | - |
| `rpc` | a script of three files and an operator with four, two crashes | own answers, what was answered stands, `CommandService` implemented, scripts end | 19433 |
| `network` | 3 networks from the first link to the last table line | ports, numbers and addresses agree; packets go to the addressee, two switches at most, and arrive | 37986 |

Bounds, and why they are enough:

- *Bits* 1..5: two that share a neighbour, then the bit of the router, one alone
  and one without an entry: every kind of bit there is. The one without an entry is
  the lowest, and the router's own in the middle, because bits are served from the
  top: a packet meets the missing entry after others have been served. A packet
  comes with any set of them, as a BIER frame or as an IPv4 packet to a group, a host with a
  route and a port entry, one without the port entry, one without the route.
- *Packets*: two, since packets of a switch share nothing but its tables. One
  during installation, where the interleaving is with the script, and one at a time
  in `IpNetwork`.
- *Rings* of 3 to 5: an odd and an even one, the smallest, and one in which a
  copy crosses a switch that is not its last. `MaxLosses` 1.
- *BIER-TE*: the network of the demonstration itself, with the groups and entries
  in the repository, and in `MCBierTeNetwork` groups of our own: `back` meets the
  failed link at s6, which has no backup entries; `ahead` forks at s3 as
  224.1.1.3 does and is small enough for the link to fail at any time; `early`
  passes s7 and s8 while their thirteen files are fed. The two violated runs have
  one group each. In `te` s3 has a second entry for its link to s6, which leads the
  packets meant for s8 over s5, so that `btaft` gathers two entries for the group
  `pair` before it puts the packet in a tunnel; the plans of all groups are computed
  in `MCBierTeReach`, whose `AllPlanned` and `AllExact` say that each has one that
  promises no more than the bits keep.
- *Monitor*: `MaxChanges` 6 is three failures with their recoveries. A behaviour
  has one of `Regimes`: one port down at a time, three down at will with one change
  per message, or three changes in a message, with two, one and two lost messages
  or restarts. Each property names what it is about (`OneFailure`, `Undisturbed`,
  `Orphan`, `missed`): with overlapping failures there is one entry for several
  links, a message with two changes is ignored, and an orphan is never deleted,
  so more can not be promised there. Ports 2, 3 and 5 are link ports of s3, whose
  host is behind port 1.
- *Scripts* (`rpc`): numbers 1 to 3; the files have good lines, a line with a word
  too many in the middle, a number too wide for its field last, and lines of each
  number of words; the operator calls a method the switch does not serve, and
  reads back what it wrote. Two crashes: one before and one after an answer, or in
  two files.
- *Networks* (`network`): a ring of three with 1, 2 and no hosts; four switches
  with links in mixed order; one switch with two hosts. TTL 1, which wraps at the
  first switch, and 64. The files are loaded line by line, one file at a time.
- Counters of deliveries stop at 2, which already violates a property.

`CHECK_DEADLOCK FALSE` stands in every configuration but `network.cfg` because the
systems do stop: when all packets have left, the script is done, or the bound on
changes is reached.

Fairness. A packet that is in a switch is worked on: `simple_switch` has threads
that block on the queues of ingress and egress and run until it ends, so weak
fairness of `Handle(a)` (in the networks, of handling some copy, and of `Hop`) is
what the switch gives. `insert_all.bash` and `insert_bier_te` are sequences of
commands that reach their end, hence `WF(Install)`. The monitor's loop blocks on its
socket and the port monitor polls on a timer: weak fairness of `Handle` and `Poll`.
A client process and the server thread of its connection run on: `WF(Step(c))` for
each client. Nothing is assumed of link changes, failures, losses, crashes,
restarts, the operator, or of when an end of a link notices.

## 4. What the violated runs show

1. `bier_octal_bm`: `table_add check_bfr_id packet_for_bfr 2 => 0000000000000010`
   means octal 10, bit 4. `bfr.p4:191` says the router sets its own bit to 0. The
   entries of s2 and s3 do not, that of s1 does. What s2 sends round again still
   holds bit 2 and is delivered again, and a bit for another router is cleared
   instead.
2. `ring_generated`: the comment at `generateBIFTEntries_BIER.py:37-38` ("the next
   switch is always on port 4") does not hold for s1, to which the first link
   added is the one to the next switch. The committed `bift_entries_s1` has
   the ports the other way round.
3. `te_rest_lost`: `a_r_bm_apply` resets the bits of interest to compute them
   again (`bfr_bier_te.p4:175`), but their bits have been taken out of the
   BitString before (`:273-276`). Bits of interest not served at that moment are
   gone. The committed groups and entries do not meet this, as the failed
   adjacency is always the last bit of interest of s3.
4. `te_tunnel_end`: a packet in a tunnel whose outer header has only the decap bit
   of its last switch is resubmitted with that bit already served, finds no bit
   and is dropped with the packet inside it. The committed `frr_s3` avoids it by
   giving each tunnel end a further adjacency.

`ServedOnceWhileInstalling` holds with an exception that it states: before
`do_restore_bier_table` is filled, `decap` stays set on the clone of a delivered
packet; if what remains has no entry in `bift`, the egress takes the packet for one
to clone and the host gets it again (`bfr.p4:69`). Neighbours never do. In the same
window, until `do_decap_table` is filled, frames for the host keep the BIER header
that `bfr.p4:144-145` says is removed; `HeaderConfinedOnceFilled` is about the time
after it.

The stale loop variable of the BIER-TE generator (`HostsTaken`) does no harm in the
networks of the repository, which have one host per switch. With a second host at s8
in `te.cfg` (`Hosts`), `AllMembersServed` fails: every switch but s8 sends its copies
out of the port after the right one.

An empty `bier_frr_metadata.BitString` is taken for one that was not copied yet
(`bfr_bier_te.p4:28`). `a_r_bm_recursion` takes bits out of it (`:185`); when it takes
out the last one, the next pass copies the whole BitString again, the entry matches
again, and the miss that ends the gathering (`:195`) never comes. A group whose only bit
beyond the adjacencies of s3 is that of the host behind the failed link meets this:
with `LoneGroup` for `TunnelGroup` in `te_tunnel_end.cfg` `Drains` fails, as the packet
recirculates in s3 for ever. The committed groups do not meet it, since bits of other
switches are always left.

## 5. What is proved

`BierForwardingProofs`, from `ForwardingAssumption` (the tables are tables):
`TypeCorrect`, `ServedOnceHolds` and `NoneLostHolds`. With `TypeOK`, `ServedOnce`
is inductive; `NoneLost` needs its part that what is left was wanted. Each step of
a packet is brought to one of two forms, a copy sent for bits taken out of `todo`,
or the packet given up, and the invariants are shown for the forms.

`BierRouterProofs`, from `RouterAssumption` and `HighestBitAssumption` (a BitString
is finite, so it has a highest bit):

- `TypeCorrect`: types, for any state of the installation.
- `OneCopyHolds`: whatever the tables say and however many are filled. `NotTwice`
  is the invariant: a packet that `add_bier_header` sends round has no flag that makes
  a clone, and none of these flags but `decap` comes back to the ingress.
- The rest assumes `TablesFilled`: the script is done, `bm` of `check_bfr_id` is
  the router's own bit, and no neighbour is behind the port of the host. The runs
  `bier_install` and `bier_octal_bm` show what happens without the first two.
  `bift` is arbitrary.
- `IInv` is the inductive invariant. None of the properties is inductive as it
  stands, because what an egress pass does depends on what the ingress pass
  before it left in the metadata. `IInv` says that a live copy at the ingress has
  no flag of an earlier pass (`ReadyForPass`), and that one at the egress is in
  one of four states: fresh from `add_bier_header` (`Encapsulated`), split into
  what it serves and what remains (`Chosen`), the clone of such a packet
  (`Remainder`), or nothing to do with multicast (`Passing`). `Chosen` also
  records *which* entry split it; without that the step in the egress could not be
  matched with `Forward`, as the entry is looked up one pass earlier.
- `Implements`: `Spec => ImplementsForwarding`. `want` is the BitString at entry,
  `sent` the frames, and `todo` is `Pending`, the bits that the live copy *and the
  clone it is going to leave* still serve. An ingress pass is then a stutter (or
  `GiveUp`), the egress pass that clones is `Deliver` or `Forward`, and the clone's
  recirculation is a stutter.
- `ServedOnceHolds` and `NoneLostHolds` follow from the refinement and the
  theorems about `BierForwarding`.
- `NoStaleFlagsHolds` and `OwnBitClearedHolds` follow from `IInv`,
  `HeaderConfinedHolds` from `IInv` and the kinds of egress step.
- `EachCopyProgressesHolds` needs one more assumption, that the `f_bm` of each
  entry holds the bit of the entry. The proof fails without it, and rightly: such
  an entry is served again and again. Neither program nor client checks it; the
  generator and the committed files always write it.

`BierInstallProofs`: the same program while `insert_all.bash` fills its tables, for
any number of files in place at first and any moment for each of the others. It
assumes `TablesRight`: as above, `bm` and the port of the host, and that no IPv4 route
leads to a multicast group. Without the last the property is false, as TLC shows with
a route to `mc` in `bier_install`: between `do_decap` and `do_restore_bier` the clone
of a delivered packet comes back as plain IPv4, and the route hands it out once more.
The committed `ip_forwarding` files have no such route.

- `InstallInv` is the invariant. `Underway` has, next to the states of `IInv`, those
  that only half-filled tables allow: a packet that waits with a stale `decap`
  because it was cloned without `do_restore_bier` (`Awaits`), and such a packet in
  which `bift` finds nothing and which the egress takes for one to clone (`Astray`).
  `Owed` are the bits a copy and its clones have still to serve, and `Accounted` says
  that no frame sent was for one of them, except that the host may get again what
  `Spare` allows.
- It rests on the order of the files (`FilesInOrder`, `CloningComesLate`): a packet is
  cloned only when `do_cloning` and `mirroring` are there, and all that resets
  `needs_cloning` on the clone comes before these two; `do_decap` and
  `do_restore_bier` come after.
- `ServedOnceWhileInstallingHolds` and `OwnBitClearedWhileInstalling` follow from it.
- `HeaderConfinedOnceFilledHolds` needs `Clean` in addition, for a packet that is
  first looked at with `do_decap` in place: a stale `decap` is met only by packets about
  to be dropped. The two are shown to be kept together by each kind of step.

`BierNetworkProofs`, from `NetworksAssumption` (links join switches of the network)
and `LossesAssumption`, for every topology; the first three whatever the tables say:

- `TypeCorrect`, `DisjointHolds`, `AtMostOncePerHostHolds`. The invariant is
  `Apart`: the copies in the domain ask for disjoint sets of hosts, none of which has
  been served. It is inductive because a step splits a copy in two parts, each of
  which goes to one place; that needs a port to lead to one switch at most
  (`OnePeer`), which is shown from the order in which ports are numbered. Tables that
  contradict each other can lose a packet or send it in a circle, but not duplicate
  it.
- `AccountedHolds` assumes `PortsLead`, that every entry names a port with a switch
  behind it. Without it a frame leaves by a port of a host or none and its bits are
  neither served nor in a copy nor counted as lost.
- `OneCopyPerLinkHolds` assumes `TreesFromAll`: from every switch the ways of the bits
  form a tree, on which the switch before each switch is given (`up`), and no two bits
  for one neighbour are masked differently. The invariant `TreeInv` says that there is
  one copy at most at a switch, that a switch which was sent none has sent none, and
  that a link which carried the packet is not wanted by what is left at its start. It
  needs both parts of the assumption: copies on two ways to one switch would go on as
  two, and with an `f_bm` that leaves out a bit for the same neighbour the link carries
  a second copy for it.
- `CommittedRingsServe`: a ring of any size from three with tables of the form of the
  committed ones (`CommittedBift`; the repository has those of a ring of three)
  satisfies both assumptions, so that on it no host is forgotten and no link carries
  the packet twice. `RingIsTree` measures a switch and a bit by their distance from the
  first switch, going forward: a bit at up to half the ring goes on through the next
  switch until it is there, one farther away through the previous (`OnWay`, `WayOn`).
  `SidesOfRing` says what the modulo arithmetic of the generator computes, `RingPorts`
  why the ports of switch 1 are the other way round.

`LinkMonitorProofs`, from `MonitorAssumption` (any finite set of ports, any regimes):

- `TypeCorrect`: handles stay in their bound because of `Counted`: handles given
  out, messages in the log and a change not yet reported are together never more
  than the changes.
- `HandleKnownHolds`: inductive with `HandleGiven`: only handles that were given out
  are in the table, so one of the future is not taken for that of an orphan.
- `OrphanStaysHolds`: from the same invariant, since -1 is the handle of no entry.
- `NoFalseAlarmHolds` assumes `NumbersAgree`: the network has the eight switches
  and the one host per switch that the monitor has built in, and the ports are
  link ports. It rests on `AlarmInv`: the message that a port went down is followed
  in the log by one that it came up if the port is up at the last poll, and so is
  the entry, or the monitor does not hear of it (`missed`). With the log empty the
  port of the entry is then down or missed. The invariant is needed because the `UP`
  of *another* port may delete the entry and the `DOWN` of a third be refused; what
  matters is that no entry outlives its own `UP`.
- `ProtectedHolds` assumes `NumbersAgree`, too. It is about links that fail one at a
  time (`OneAtATime`: at most one port is down, one was at the last poll, one has
  changed since). `EntryComes` is `AlarmInv` turned round: a port that was down at the
  last poll, and is not missed, has its `DOWN` as the last message of the log, or the
  log is empty and there is an entry; `NoFalseAlarm` then says that it is the right one.

`BierTeNetworkProofs`, for every topology, every group and all backup entries, from
`TopologyAssumption` (each switch has a host, the bits of watched links fit the field),
`TablesAssumption` (the tables are tables) and `DetourAssumption` (an entry for a link
does not put a bit of that link in `add_bm`, which is what it is there for):

- `OneMeaningPerBit`: the bits of interest of two switches are disjoint, and a bit
  stands for one port. The bits a switch takes out of a BitString are therefore not
  those of another.
- `TypeCorrect` and `NoThirdHeaderHolds`, at any stage of the installation and with an
  indication at each end at its own time. Neither is inductive: a packet put in a
  third header would not fit the stack of two. `IInv` says of each copy that it can be
  handled (`Fits`), that what it knows of failures is true (`Watched`), and of one in a
  tunnel (`Tunnelled`) that its outer header has just been taken off (`Stripped`), or
  holds no bit of the failed link (`Around`), or no bit for this switch (`Spent`). The
  last is a packet that, with half of the tables filled, was put in a tunnel in the
  middle of a decapsulation; it was found when the invariant without it turned out not to
  be inductive.
- `ApartHolds` and `AtMostOnceHolds`: from the first state in which the tables are
  filled, the packet has not been touched and no host has one (`Waiting`; `Init` is
  such a state when `FilledBefore` says so, which is `AtMostOnceOfFilled`), for every
  group that has a plan. What a plan is says `PlanAssumption`, an assumption about
  `Reach` only; the empty function satisfies it, so the theorems above lose nothing
  by it, and TLC evaluates it for the groups of `te`, all of which have one
  (`AllPlanned`). `KeptApartHolds` is the same for every state of a behaviour whose packet
  enters a filled network.
  Neither hypothesis can be left out. In BIER-TE the property is none of the program:
  each frame keeps the bits of the switches behind the other frames, and what keeps
  two of them from one host is that the bits form a tree, and that a tunnel does not
  run into another branch; that is what a plan says. And while `do_frr_recursion` of
  s3 is missing, a packet for which `btaft` has found an entry leaves by the port of
  the host: with the first six files of s3, group 224.1.1.3 and s3-s6 down TLC finds
  a host served twice.
- Their invariant is `RInv`, checked with TLC before it was proved: `IInv`, `Apart`,
  that the plan has the group (`Planned`), and `Orderly`, what the flags and the
  metadata of a copy say about each other. At the ingress (`IngressOk`) the bits of
  interest that are left are `Tidy`, or the outer header ends here (`TidyEnd`); what
  `btaft` has collected belongs to the bit at hand (`Gather`). At the egress a frame
  (`FrameOk`) and a clone (`CloneOk`) are told apart by `instance_type`, and for each
  the flags decide whether it goes on, comes back, or both. The cover of a copy is
  computed from the same fields.
- The argument is one of division. Each step turns a copy into at most two, whose
  covers are disjoint parts of its own, and adds one to `got` of a switch only if it
  takes the switch out of the cover (`DividingKeeps`, and one lemma per action that
  shows the step divides: `FrameDivides` is the egress pass that clones,
  `BtaftApplyDivides` the entry into a tunnel, `DecapEncapsulatedDivides` its end).
  `OneNeighbour` is needed for it, that a port leads to one switch at most, and
  `OneMeaningPerBit`.
- `NoneForgottenHolds` is the other half, for plans that are `Exact` and as long as no
  link is down: each step leaves every host in a cover that it does not serve. Its
  invariant `NInv` adds to `RInv` that members without the packet are in some cover
  (`Remembered`), and that the bits of interest a copy still has lead to nobody over a
  detour only (`Straight`). `RInv` is needed in the proof: `bs_remaining` has to be what
  the header will hold when the clone comes back, and a flag that makes a clone has to
  be set on every frame that does not take all of the cover with it. Nothing of it holds
  when a link is down, as a frame may then be lost on the wire, nor when a plan promises
  a host that only a tunnel leads to.
- `OnceEachHolds` puts both together: when the copies are gone, each member's host has
  got the packet once, and no other host has. What `AllMembersServed` says besides is
  that the copies do go, and what happens around a failed link.

`TableClientProofs`, from `ScriptAssumption`, `ServedAssumption`, `NumAssumption`,
`WordsAssumption` and `CrashesAssumption`, for any number of clients and any files:

- `TypeCorrect` and `OwnAnswerHolds`: `Flow` says of each client that there is one
  message at most, that it is on its way only while the client waits, and that it
  carries or answers the call of the line it is at. It is this, and not a check in
  `recv_*`, that keeps answers apart.
- `StandsHolds`: `Stands` with `Flow`. An answer that is still on its way counts as
  given, and `OnlyWriter` takes care of what other clients do meanwhile.
- `Implements`: `Spec => ImplementsCommands`. `Send`, `Receive` and `Lost` are
  stutters: what they are about has happened to the session before.

`IpNetworkProofs`, from `NetworksAssumption` (no two links join the same switches):

- `StartedRightHolds`, for every topology. `StartInv` follows `main`: which stage it is
  at (`Progress`), a port for every link made so far (`Wired`), no address but the
  one of the control network before the last process is started (`Addressed`), the
  ports of the processes that are started (`Attached`), the numbers (`Numbered`).
  `Addressed` is what the property rests on, and the order in `main` what it rests on.
- `OnlyAddresseeHolds` and `FewHopsHolds`, for any part of the files loaded and any TTL.
  They assume `FewPorts`: no switch has eight ports or more for hosts and links, since
  `action_port` is written with leading zeros and read as octal. `Led` says what is at
  the far end of each port, `Named` which MAC addresses are given out, `Written` that
  the files are the generator's, and `Routed` where a packet can be and what its
  addresses are there: at the switch of its sender, at that of its destination with the
  TTL one lower, or with its destination. That the drops are the first lines of the
  three tables is what makes a half-loaded switch safe: a route whose next hop is not
  there yet meets them.

Every invariant and every action property of a passing run is stated by a theorem. The
type invariants of `BierForwarding` and `BierNetwork` are proved and in no run.
Only model-checked are the liveness properties (`EveryPacketEnds`, `Drains`, `Settles`,
`ServedAfterInstall`, `AllMembersServed`, `HealthyMembersServed`, `EveryScriptEnds`,
`Reached`), which are out of reach of the prover. That a plan exists for a group is
shown by TLC for the groups of `te`, and assumed elsewhere: the least plan of a
group is defined by recursion over the hops of a packet, and induction over such a
definition is out of reach as well. Of the violated runs nothing is proved, as what
they check is false.

## 6. Not modelled

- The table commands that the command line inherits from bmv2's `runtime_CLI`, which
  is not in the repository: modules that use tables apply a file, or a line, as one
  step. Hence no file of `insert_all.bash` or `insert_bier_te` stops half-way, and
  scripts are not run a second time.
- `insert_bier_te_frr`: the one backup file is in place from the start.
- The binary encoding of Thrift messages, which belongs to its library.
- The end of the network (`net.stop`), `sysctl`, packet captures; parallel links,
  which no topology script writes; switches with eight ports or more, where
  `action_port`, written with leading zeros, would be read as octal (`ActionPort` has
  the reading, no run has such a switch, and the theorems exclude it by `FewPorts`).
- Multicast groups of several ports: the committed groups have one.
- The order in which queues serve packets of different flows: packets interleave
  freely instead, which includes it.
- `main.c`: driver of an older target whose libraries are absent. `classic_mc.p4`:
  applied by no control block. Drawings, demo scripts and compiled output.

## 7. Plan

Done, in this order: `BierForwarding`, `BierRouter` and the tables; the ring; BIER-TE;
the monitor; the proofs of the two BIER modules and of the monitor; lost messages and
restarts of the monitor; the table clients with the Thrift service and their proofs;
the network builder and IP forwarding, with the proof of how switches start; the
installation of BIER-TE; the proofs about the ring network; those about the windows
of the installation, BIER-TE, the whole of `IpNetwork`, the monitor with one failure, and
the committed rings; the plans of BIER-TE groups and the proofs that along them no host
gets a packet twice and, without a failure, none is forgotten.

Next:

1. that no member behind a failed link is forgotten once both ends have noticed, along a
   plan whose detours lead to all the adjacency did, and that `BierTeNetwork` without a
   failure implements a network of `BierForwarding`;
2. the registration of `main.c`.
