--------------------------- MODULE BierTeNetwork ---------------------------
(***************************************************************************)
(* Switches running p4src/bfr_bier_te.p4, joined by links: BIER-TE with    *)
(* fast reroute.  A bit of the BitString is an adjacency; each switch      *)
(* takes the bits that are its own (the bits of interest) out of the       *)
(* BitString and serves them one per pass, lowest first, by the same clone *)
(* and recirculation scheme as bfr.p4.  When the lowest bit is the one     *)
(* frr_indication holds for a failed link, the packet is put in a second   *)
(* BIER header that leads around the failure (btaft).                      *)
(*                                                                         *)
(* One multicast packet enters the network.  All its copies, with their    *)
(* headers and metadata, are in the bag copies; equal copies are possible  *)
(* and counted.  insert_bier_te fills the tables of one switch after the   *)
(* other; a table that is not filled has no default action and does        *)
(* nothing.  The tables of ip_forwarding stay empty.                       *)
(***************************************************************************)
EXTENDS TeBits, Topology, Bags

CONSTANTS
    Links,        \* the switch links, as in Topology
    NumSwitches,
    Hosts,        \* Hosts[s]: hosts at switch s
    Groups,       \* group |-> BitString, the table bier_ingress
    Entries,      \* switch |-> the a_r_bm_recursion entries of its btaft, by
                  \* priority, for the switches with a frr file
    Source,       \* group |-> the switch at which its packets enter
    Fragile,      \* indices of the links that may fail
    Monitored,    \* switches with a running nanomsg_link_status.py
    Detoured,     \* group |-> the members behind a fragile link
    Covered,      \* groups that meet a fragile link only at a switch with
                  \* entries for it
    FilledBefore, \* group |-> the switches, from the first on, that
                  \* insert_bier_te has been through when its packet enters
    Late          \* groups during whose packet a link may fail

Switches == 1 .. NumSwitches
HostPort == 1     \* the one node of multicast group 1
NullPort == 0
LinkBp(s, l) == MonitoredBit(s - 1, PortOn(Links, Hosts[s], s, l))

\* The number of hosts the generator uses for every switch: its variable still
\* holds the last switch of the loop before.
HostsTaken == Hosts[NumSwitches]

Port == 0 .. HostsTaken + MaxPortNum

\* The tables of the switches: get_bits_of_interest, bift, and the wiring.
Boi == [s \in Switches |-> BitsOfInterest(NumSwitches, HostsTaken, s)]
Bift == [s \in Switches |-> PortOfBit(NumSwitches, HostsTaken, s)]
Peer == [s \in Switches |-> [p \in Port |-> Peers(Links, Hosts[s], s, p)]]

\* The files insert_bier_te feeds a switch, in its order.
InstallOrder ==
    <<"bift_entries", "bier_ingress", "find_bit_pos", "do_cloning_table",
      "do_clone_recirculation_table", "mirroring", "do_decap_table",
      "do_reinsert_encapsulated", "do_handover_mc_overlay",
      "do_restore_bier_table", "do_remove_outer_bier_header",
      "do_frr_recursion", "mc_overlay">>

\* The files a switch has after n steps.
InPlace == [n \in 0 .. Len(InstallOrder) |-> {InstallOrder[i] : i \in 1 .. n}]

AllBits == UNION {Boi[s] : s \in Switches}

\* A header of the stack that is not valid; bits count from 1.
Invalid == {0}

\* The links at whose failure s makes an entry in frr_indication.
WatchedBy(s) == {l \in Fragile : s \in Monitored \cap Ends(Links[l])}

\* The topology scripts give each switch a host, as build_network.py expects.
ASSUME TopologyAssumption ==
    /\ NumSwitches \in Nat \ {0}
    /\ Links \in Seq(Switches \X Switches)
    /\ Hosts \in [Switches -> Nat \ {0}]
    /\ Fragile \subseteq DOMAIN Links
    /\ Monitored \subseteq Switches
    /\ \A s \in Switches : \A l \in WatchedBy(s) : LinkBp(s, l) \in 0 .. 63

ASSUME TablesAssumption ==
    /\ Groups \in [DOMAIN Groups -> SUBSET AllBits]
    /\ Source \in [DOMAIN Groups -> Switches]
    /\ Entries \in [DOMAIN Entries ->
                       Seq([bp : 0 .. 63, match : SUBSET Nat, nnh_bp : Nat,
                            add_bm : SUBSET AllBits, reset_bm : SUBSET AllBits])]

\* The entries for a link lead around it: neither end's bit is in add_bm.
ASSUME DetourAssumption ==
    \A s \in Switches \cap DOMAIN Entries : \A l \in WatchedBy(s) :
        \A i \in DOMAIN Entries[s] :
            Entries[s][i].bp = LinkBp(s, l) =>
                \A t \in Switches :
                    l \in WatchedBy(t) => LinkBp(t, l) \notin Entries[s][i].add_bm

VARIABLES
    group,        \* the destination of the packet
    copies,       \* its copies
    got,          \* got[s]: packets handed to the host of s, up to 2
    down,         \* links that have failed
    late,         \* a link failed while the packet was in the network
    indicated,    \* indicated[s]: the bit in frr_indication, 0 for no entry
    installed     \* installed[s]: how many files of InstallOrder s has

vars == <<group, copies, got, down, late, indicated, installed>>

\* The entries and the default action of a table of s are in place.
On(s, file) == file \in InPlace[installed[s]]

-----------------------------------------------------------------------------
Frr == [bp              : 0 .. 63,
        BitString       : SUBSET AllBits,
        add_bm          : SUBSET AllBits,
        reset_bm        : SUBSET AllBits,
        needs_recursion : BOOLEAN,
        needs_cloning   : BOOLEAN,
        decap_done      : BOOLEAN]

Packet == [at            : Switches,
           stage         : {"ingress", "egress"},
           inst          : {"normal", "clone"},
           port          : Port,
           eth           : {"BIER", "IPv4"},
           bier          : [{0, 1} -> (SUBSET AllBits) \cup {Invalid}],
           bs_remaining  : SUBSET AllBits,
           boi           : BOOLEAN,            \* bits_of_interest is set
           boi_bs        : SUBSET AllBits,     \* BitString_of_interest
           needs_cloning : BOOLEAN,
           decap         : BOOLEAN,
           recirc        : BOOLEAN,
           frr           : Frr]

Stack(outer, inner) == [i \in {0, 1} |-> IF i = 0 THEN outer ELSE inner]

\* A packet fresh from the parser of switch s, with metadata zeroed.
Parsed(s, eth, bier) ==
    [at |-> s, stage |-> "ingress", inst |-> "normal", port |-> NullPort,
     eth |-> eth, bier |-> bier, bs_remaining |-> {}, boi |-> FALSE,
     boi_bs |-> {}, needs_cloning |-> FALSE, decap |-> FALSE, recirc |-> FALSE,
     frr |-> [bp |-> 0, BitString |-> {}, add_bm |-> {}, reset_bm |-> {},
              needs_recursion |-> FALSE, needs_cloning |-> FALSE,
              decap_done |-> FALSE]]

\* The deparser writes the valid headers, the parser fills bier[0] first.
Reparsed(bier) == IF bier[0] = Invalid THEN Stack(bier[1], Invalid) ELSE bier

\* Assigning to a field of a header that is not valid changes no packet.
SetBitString(bier, bs) ==
    IF bier[0] = Invalid THEN bier ELSE [bier EXCEPT ![0] = bs]

Init ==
    /\ group \in DOMAIN Groups
    /\ copies = SetToBag({Parsed(Source[group], "IPv4", Stack(Invalid, Invalid))})
    /\ got = [s \in Switches |-> 0]
    /\ down \in {{}} \cup {{l} : l \in Fragile}
    /\ late = FALSE
    /\ indicated = [s \in Switches |->
                       IF s \in Monitored /\ \E l \in down : s \in Ends(Links[l])
                       THEN LinkBp(s, CHOOSE l \in down : TRUE) ELSE 0]
    /\ installed = [s \in Switches |->
                       IF s <= FilledBefore[group] THEN Len(InstallOrder) ELSE 0]

TypeOK ==
    /\ group \in DOMAIN Groups
    /\ \A c \in BagToSet(copies) : c \in Packet
    /\ got \in [Switches -> 0 .. 2]
    /\ down \subseteq DOMAIN Links
    /\ late \in BOOLEAN
    /\ indicated \in [Switches -> 0 .. 63]
    /\ installed \in [Switches -> 0 .. Len(InstallOrder)]

\* One of the copies c is replaced by the packets of a set.
Replace(c, new) ==
    copies' = (copies (-) SetToBag({c})) (+) SetToBag(new)

-----------------------------------------------------------------------------
(* Ingress pipeline.                                                       *)

\* save_bits_of_interest, for a packet that is not in the middle of the
\* passes, and save_bp, when the table has its entry.
Prepared(c) ==
    LET d == IF c.boi \/ ~On(c.at, "bift_entries")
             THEN c
             ELSE [c EXCEPT !.boi = TRUE,
                            !.boi_bs = c.bier[0] \cap Boi[c.at],
                            !.bier[0] = c.bier[0] \ Boi[c.at],
                            !.bs_remaining = c.bier[0] \ Boi[c.at]]
    IN  IF indicated[c.at] = 0 THEN d ELSE [d EXCEPT !.frr.bp = indicated[c.at]]

\* Mutation: the priorities of find_bit_pos the other way round.
HighBit(bs) == CHOOSE k \in bs : \A j \in bs : j <= k

\* The lowest bit, which find_bit_pos matches with the highest priority.
LowBit(bs) == CHOOSE k \in bs : \A j \in bs : k <= j

BierAtIngress(c) == c.stage = "ingress" /\ c.eth = "BIER"

ToEgress(c, d) ==
    /\ Replace(c, {[d EXCEPT !.stage = "egress"]})
    /\ UNCHANGED <<group, got, down, late, indicated, installed>>

AddBierHeader(c) ==
    /\ c.stage = "ingress"
    /\ c.eth = "IPv4"
    /\ ~c.decap /\ On(c.at, "bier_ingress")
    /\ ToEgress(c, [c EXCEPT !.bier = Stack(Groups[group], Invalid),
                             !.eth = "BIER",
                             !.recirc = TRUE])

\* No table matches, and none has a default action.
NoPortChosen(c) ==
    /\ c.stage = "ingress"
    /\ \/ c.eth = "IPv4" /\ (c.decap \/ ~On(c.at, "bier_ingress"))
       \/ c.eth = "BIER" /\ ~On(c.at, "find_bit_pos")
    /\ ToEgress(c, IF c.eth = "BIER" THEN Prepared(c) ELSE c)

DropEmpty(c) ==
    /\ BierAtIngress(c)
    /\ On(c.at, "find_bit_pos")
    /\ Prepared(c).boi_bs = {}
    /\ Replace(c, {})
    /\ UNCHANGED <<group, got, down, late, indicated, installed>>

\* find_bit_pos has a row for every bit and _drop as its default.
Found(d) == On(d.at, "find_bit_pos") /\ d.boi_bs # {}

Affected(d) == Found(d) /\ LowBit(d.boi_bs) = d.frr.bp

\* frr_copy_bitstring
FrrBitString(d) ==
    IF d.frr.BitString = {} THEN d.bier[0] ELSE d.frr.BitString

\* The priorities of the entries of btaft that match; the first is taken.
Matching(d) ==
    {i \in DOMAIN Entries[d.at] :
        /\ Entries[d.at][i].bp = d.frr.bp
        /\ Entries[d.at][i].match \subseteq FrrBitString(d)}

FirstMatch(d) ==
    Entries[d.at][CHOOSE i \in Matching(d) : \A j \in Matching(d) : i <= j]

\* Mutation: the bit nnh_bp stays set, and the entry matches again.
BtaftRecursionKeepsBit(c) ==
    LET d == Prepared(c)
        e == FirstMatch(d)
    IN  /\ BierAtIngress(c)
        /\ Affected(d)
        /\ d.at \in DOMAIN Entries
        /\ Matching(d) # {}
        /\ ToEgress(c, [d EXCEPT !.frr.add_bm = @ \cup e.add_bm,
                                 !.frr.reset_bm = @ \cup e.reset_bm,
                                 !.frr.needs_recursion = TRUE,
                                 !.frr.BitString = FrrBitString(d)])

BtaftRecursion(c) ==
    LET d == Prepared(c)
        e == FirstMatch(d)
    IN  /\ BierAtIngress(c)
        /\ Affected(d)
        /\ d.at \in DOMAIN Entries
        /\ Matching(d) # {}
        /\ ToEgress(c, [d EXCEPT !.frr.add_bm = @ \cup e.add_bm,
                                 !.frr.reset_bm = @ \cup e.reset_bm,
                                 !.frr.needs_recursion = TRUE,
                                 !.frr.BitString = FrrBitString(d) \ {e.nnh_bp}])

\* Mutation: reset_bm is not applied.
BtaftApplyNoReset(c) ==
    LET d == Prepared(c)
    IN  /\ BierAtIngress(c)
        /\ Affected(d)
        /\ d.at \in DOMAIN Entries
        /\ Matching(d) = {}
        /\ ToEgress(c, [d EXCEPT !.bier = Stack(d.frr.add_bm, d.bier[0]),
                                 !.frr.BitString = FrrBitString(d),
                                 !.frr.needs_recursion = FALSE,
                                 !.frr.needs_cloning = TRUE,
                                 !.boi = FALSE])

\* Mutation: the bits of interest are not looked for again.
BtaftApplyKeepsBoi(c) ==
    LET d == Prepared(c)
    IN  /\ BierAtIngress(c)
        /\ Affected(d)
        /\ d.at \in DOMAIN Entries
        /\ Matching(d) = {}
        /\ ToEgress(c, [d EXCEPT !.bier = Stack(d.frr.add_bm,
                                                d.bier[0] \ d.frr.reset_bm),
                                 !.frr.BitString = FrrBitString(d),
                                 !.frr.needs_recursion = FALSE,
                                 !.frr.needs_cloning = TRUE])

BtaftApply(c) ==
    LET d == Prepared(c)
    IN  /\ BierAtIngress(c)
        /\ Affected(d)
        /\ d.at \in DOMAIN Entries
        /\ Matching(d) = {}
        /\ ToEgress(c, [d EXCEPT !.bier = Stack(d.frr.add_bm,
                                                d.bier[0] \ d.frr.reset_bm),
                                 !.frr.BitString = FrrBitString(d),
                                 !.frr.needs_recursion = FALSE,
                                 !.frr.needs_cloning = TRUE,
                                 !.boi = FALSE])

\* Without a frr file btaft and frr_copy_bitstring have no default action.
BtaftMissing(c) ==
    /\ BierAtIngress(c)
    /\ Affected(Prepared(c))
    /\ c.at \notin DOMAIN Entries
    /\ ToEgress(c, Prepared(c))

Unaffected(d) == Found(d) /\ LowBit(d.boi_bs) # d.frr.bp

Decapsulated(d) ==
    [d EXCEPT !.boi_bs = @ \ {LowBit(d.boi_bs)},
              !.needs_cloning = TRUE,
              !.decap = TRUE]

LocalDecap(c) ==
    /\ BierAtIngress(c)
    /\ Unaffected(Prepared(c))
    /\ LowBit(Prepared(c).boi_bs) = DecapBit(c.at)

\* The packet is for group 1: do_handover_mc_overlay.
HandedOver(c) ==
    /\ LocalDecap(c)
    /\ c.bier[1] = Invalid
    /\ On(c.at, "do_handover_mc_overlay")

\* It goes to the ports of group 1.
Handover(c) ==
    /\ HandedOver(c)
    /\ On(c.at, "mc_overlay")
    /\ ToEgress(c, [Decapsulated(Prepared(c)) EXCEPT !.port = HostPort])

\* The group has no ports yet.
HandoverToNone(c) ==
    /\ HandedOver(c)
    /\ ~On(c.at, "mc_overlay")
    /\ Replace(c, {})
    /\ UNCHANGED <<group, got, down, late, indicated, installed>>

\* No table hands the packet over.
HandoverMissing(c) ==
    /\ LocalDecap(c)
    /\ c.bier[1] = Invalid
    /\ ~On(c.at, "do_handover_mc_overlay")
    /\ ToEgress(c, Decapsulated(Prepared(c)))

\* BIER in BIER: do_reinsert_encapsulated resubmits the packet as it was when
\* this pass began, with the metadata of now, to strip the outer header when
\* its next bit is served.  The second time no port is chosen.
DecapEncapsulated(c) ==
    LET d == Decapsulated(Prepared(c))
    IN  /\ LocalDecap(c)
        /\ c.bier[1] # Invalid
        /\ Replace(c, {IF c.frr.decap_done \/ ~On(c.at, "do_reinsert_encapsulated")
                       THEN [d EXCEPT !.stage = "egress"]
                       ELSE [d EXCEPT !.frr.decap_done = TRUE, !.bier = c.bier]})
        /\ UNCHANGED <<group, got, down, late, indicated, installed>>

\* Mutation: the bit is taken for the port.
ForwardConnectedToBit(c) ==
    LET d == Prepared(c)
        k == LowBit(d.boi_bs)
    IN  /\ BierAtIngress(c)
        /\ Unaffected(d)
        /\ k # DecapBit(c.at)
        /\ ToEgress(c, [d EXCEPT !.boi_bs = @ \ {k},
                                 !.needs_cloning = TRUE,
                                 !.port = k])

ForwardConnected(c) ==
    LET d == Prepared(c)
        k == LowBit(d.boi_bs)
    IN  /\ BierAtIngress(c)
        /\ Unaffected(d)
        /\ k # DecapBit(c.at)
        /\ ToEgress(c, [d EXCEPT !.boi_bs = @ \ {k},
                                 !.needs_cloning = TRUE,
                                 !.port = Bift[c.at][k]])

Ingress(c) ==
    \/ AddBierHeader(c)
    \/ NoPortChosen(c)
    \/ DropEmpty(c)
    \/ BtaftRecursion(c)
    \/ BtaftApply(c)
    \/ BtaftMissing(c)
    \/ Handover(c)
    \/ HandoverToNone(c)
    \/ HandoverMissing(c)
    \/ DecapEncapsulated(c)
    \/ ForwardConnected(c)

-----------------------------------------------------------------------------
(* Egress pipeline.                                                        *)

Restored(c) ==
    IF c.decap /\ On(c.at, "do_restore_bier_table")
    THEN [c EXCEPT !.bier[0] = c.bs_remaining, !.decap = FALSE, !.eth = "BIER"]
    ELSE c

\* Mutation: the bits of interest are looked for again in the next pass.
RequeuedAfresh(c) ==
    IF c.needs_cloning /\ On(c.at, "do_clone_recirculation_table")
    THEN [c EXCEPT !.needs_cloning = FALSE, !.recirc = TRUE, !.boi = FALSE,
                   !.bier = SetBitString(c.bier, c.bs_remaining)]
    ELSE c

Requeued(c) ==
    IF c.needs_cloning /\ On(c.at, "do_clone_recirculation_table")
    THEN [c EXCEPT !.needs_cloning = FALSE, !.recirc = TRUE,
                   !.bier = SetBitString(c.bier, c.bs_remaining)]
    ELSE c

FrrRequeued(c) ==
    IF /\ c.frr.needs_recursion \/ c.frr.needs_cloning
       /\ On(c.at, "do_frr_recursion")
    THEN [c EXCEPT !.needs_cloning = FALSE, !.recirc = TRUE]
    ELSE c

\* do_remove_outer_bier_header for BIER in BIER, else do_decap.
Decapped(c) ==
    CASE c.decap /\ c.bier[1] # Invalid /\ On(c.at, "do_remove_outer_bier_header") ->
             [c EXCEPT !.bier[0] = Invalid, !.boi = FALSE, !.decap = FALSE]
      [] c.decap /\ c.bier[1] = Invalid /\ On(c.at, "do_decap_table") ->
             [c EXCEPT !.bier[0] = Invalid, !.eth = "IPv4"]
      [] OTHER -> c

EgressResult(c) ==
    Decapped(IF c.inst = "clone" THEN FrrRequeued(Requeued(Restored(c))) ELSE c)

\* do_cloning_table, and the mirroring session that turns clone 1 into a
\* packet for HostPort.
Clones(c) ==
    /\ c.inst # "clone"
    /\ On(c.at, "do_cloning_table") /\ On(c.at, "mirroring")
    /\ \/ c.needs_cloning
       \/ c.decap
       \/ c.frr.needs_recursion
       \/ c.frr.needs_cloning

\* The clone keeps the metadata the packet has at the end of the pipeline.
CloneOf(c) == IF Clones(c) THEN {[EgressResult(c) EXCEPT !.inst = "clone",
                                                       !.port = HostPort]} ELSE {}

\* bmv2 parses a recirculated packet again; it keeps the fields of bier_FL.
Recirculated(e) ==
    IF e.recirc
    THEN {[e EXCEPT !.stage = "ingress", !.inst = "normal", !.port = NullPort,
                    !.bier = Reparsed(e.bier), !.recirc = FALSE]}
    ELSE {}

\* The copy that arrives at the other end of a link that works.
Transmitted(e) ==
    IF e.recirc
    THEN {}
    ELSE {Parsed(t, e.eth, Reparsed(e.bier)) :
            t \in {u \in Peer[e.at][e.port] :
                      \A l \in down : Ends(Links[l]) # {e.at, u}}}

Egress(c) ==
    LET e == EgressResult(c)
        host == ~e.recirc /\ e.port = HostPort
    IN  /\ c.stage = "egress"
        /\ Replace(c, CloneOf(c) \cup Recirculated(e) \cup Transmitted(e))
        /\ got' = IF host THEN [got EXCEPT ![c.at] = IF @ = 2 THEN 2 ELSE @ + 1]
                          ELSE got
        /\ UNCHANGED <<group, down, late, indicated, installed>>

-----------------------------------------------------------------------------
(* A link fails, and each end's monitor puts its bit in frr_indication.    *)

Fail(l) ==
    /\ group \in Late
    /\ down = {}
    /\ down' = {l}
    /\ late' = TRUE
    /\ UNCHANGED <<group, copies, got, indicated, installed>>

Indicate(s, l) ==
    /\ indicated[s] = 0
    /\ indicated' = [indicated EXCEPT ![s] = LinkBp(s, l)]
    /\ UNCHANGED <<group, copies, got, down, late, installed>>

\* The next file of insert_bier_te, which serves one switch after the other.
Install(s) ==
    /\ installed[s] < Len(InstallOrder)
    /\ \A t \in 1 .. s - 1 : installed[t] = Len(InstallOrder)
    /\ installed' = [installed EXCEPT ![s] = @ + 1]
    /\ UNCHANGED <<group, copies, got, down, late, indicated>>

Handle(c) == Ingress(c) \/ Egress(c)

Next ==
    \/ \E c \in BagToSet(copies) : Handle(c)
    \/ \E l \in Fragile : Fail(l)
    \/ \E s \in Switches : Install(s)
    \/ \E l \in down : \E s \in Monitored \cap Ends(Links[l]) : Indicate(s, l)

Spec == Init /\ [][Next]_vars

\* Every switch keeps serving its queues, and insert_bier_te comes to its end.
FairSpec ==
    /\ Spec
    /\ WF_vars(\E c \in BagToSet(copies) : Handle(c))
    /\ WF_vars(\E s \in Switches : Install(s))

-----------------------------------------------------------------------------
Members == Groups[group] \cap Switches

\* No host gets the packet twice, nor one outside the group: neither the
\* passes nor the backup path around a failure duplicate it.
AtMostOncePerHost ==
    \A s \in Switches : got[s] > 0 => got[s] = 1 /\ s \in Members

Filled == \A s \in Switches : installed[s] = Len(InstallOrder)

Fresh == copies = SetToBag({Parsed(Source[group], "IPv4", Stack(Invalid, Invalid))})

\* A packet no switch has touched before insert_bier_te is through gets to the
\* hosts of all members, when no link fails, and when the link is down from the
\* start that the entries of btaft lead around.
AllMembersServed ==
    Filled /\ Fresh
    ~> \/ \A s \in Members : got[s] > 0
       \/ late
       \/ down # {} /\ group \notin Covered

\* A failure costs the hosts that are not behind the failed link nothing,
\* whether or not the switch next to it has entries for it.
HealthyMembersServed ==
    Filled /\ Fresh
    ~> \A s \in Members \ Detoured[group] : got[s] > 0

\* No copy stays in the network forever.
Drains == <>[](copies = EmptyBag)

\* There is no loop through the backup path: a packet that is in two BIER
\* headers is not put in a third, which the stack of two would not hold.
NoThirdHeader ==
    \A c \in BagToSet(copies) :
        BierAtIngress(c) /\ c.bier[1] # Invalid => ~Affected(Prepared(c))
=============================================================================
