----------------------------- MODULE BierRouter -----------------------------
(***************************************************************************)
(* One switch running p4src/bfr.p4 on simple_switch.  A BIER packet is     *)
(* served bit by bit: a pass of the pipeline takes the highest bit of the  *)
(* BitString, sends the packet to where that bit leads, and an egress      *)
(* clone of it, carrying the bits that remain in bs_remaining, is          *)
(* recirculated for the next pass.  Egress tables, mirroring session and   *)
(* decapsulation are all separate tables filled by insert_all.bash one     *)
(* after the other while traffic may already flow.                         *)
(*                                                                         *)
(* pkt[a] is the one live copy of packet a; OneCopy states that there is   *)
(* never a second.  A table that is not yet filled has no default action   *)
(* and does nothing.                                                       *)
(***************************************************************************)
EXTENDS Naturals, Sequences

CONSTANTS
    Arrivals,     \* the packets the switch receives
    Bits,         \* positions of the BitString, 1 is the lowest
    Dsts,         \* IPv4 destinations
    Ports,        \* ports with an interface attached
    HostPort,     \* packet_for_bfr and the mirroring session use port 1
    NullPort,     \* egress_spec of a packet no table chose a port for (0)
    BfrId,        \* the key of check_bfr_id
    BfrBm,        \* the bits of the parameter bm of packet_for_bfr
    Bift,         \* k_pos |-> [f_bm, nbr_port]
    BierIngress,  \* destination |-> BitString
    Ipv4Lpm,      \* destination |-> [nhop_ipv4, port]
    Neighbours,   \* the nhop_ipv4 with an entry in forward
    SendFrame,    \* the ports with an entry in send_frame
    Preinstalled  \* how many files of InstallOrder are in place initially

\* Mutation: the tables that make the clone come before those that reset it.
InstallCloningFirst ==
    <<"ip_forwarding", "bier_ingress", "find_pos", "bift", "check_bfr_id",
      "do_cloning", "mirroring", "do_clone_recirculation", "do_decap",
      "do_restore_bier">>

\* Mutation: do_restore_bier_table is forgotten.
InstallNoRestore ==
    <<"ip_forwarding", "bier_ingress", "find_pos", "bift", "check_bfr_id",
      "do_clone_recirculation", "do_cloning", "mirroring", "do_decap">>

\* The files insert_all.bash feeds a switch, in its order.
InstallOrder == <<"ip_forwarding", "bier_ingress", "find_pos", "bift",
                  "check_bfr_id", "do_clone_recirculation", "do_cloning",
                  "mirroring", "do_decap", "do_restore_bier">>

ASSUME RouterAssumption ==
    /\ Bits \subseteq Nat
    /\ BfrId \in Bits
    /\ BfrBm \subseteq Bits
    /\ HostPort \in Ports
    /\ NullPort \notin Ports
    /\ DOMAIN Bift \subseteq Bits
    /\ \A k \in DOMAIN Bift : Bift[k] \in [f_bm : SUBSET Bits, nbr_port : Ports]
    /\ DOMAIN BierIngress \subseteq Dsts
    /\ \A d \in DOMAIN BierIngress : BierIngress[d] \in SUBSET Bits
    /\ DOMAIN Ipv4Lpm \subseteq Dsts
    /\ \A d \in DOMAIN Ipv4Lpm : Ipv4Lpm[d].port \in Ports
    /\ Preinstalled \in 0 .. Len(InstallOrder)

\* A BitString that is not empty has a highest bit (the BitString is finite).
ASSUME HighestBitAssumption ==
    \A bs \in SUBSET Bits : bs # {} => \E k \in bs : \A j \in bs : j <= k

VARIABLES
    wire,       \* wire[a]: the frame as it came in
    pkt,        \* pkt[a]: the live copy, headers and metadata
    out,        \* out[a]: the frames transmitted for it, in order
    installed   \* how many files of InstallOrder are in place

vars == <<wire, pkt, out, installed>>

-----------------------------------------------------------------------------
EtherType == {"BIER", "IPv4", "Other"}

Frame == [eth : EtherType, bs : SUBSET Bits, dst : Dsts]

Packet == [stage         : {"ingress", "egress", "done"},
           inst          : {"normal", "clone", "recirc"},
           port          : Ports \cup {NullPort},
           eth           : EtherType,
           bier          : BOOLEAN,         \* valid(bier)
           bs            : SUBSET Bits,     \* bier.BitString
           bs_remaining  : SUBSET Bits,
           needs_cloning : BOOLEAN,
           decap         : BOOLEAN,
           recirc        : BOOLEAN]         \* recirculate() was called

Emission == [port : Ports, eth : EtherType, bier : BOOLEAN, bs : SUBSET Bits]

TypeOK ==
    /\ wire \in [Arrivals -> Frame]
    /\ pkt \in [Arrivals -> Packet]
    /\ out \in [Arrivals -> Seq(Emission)]
    /\ installed \in 0 .. Len(InstallOrder)

\* A frame fresh from the parser, with metadata zeroed.
Received(f) ==
    [stage |-> "ingress", inst |-> "normal", port |-> NullPort,
     eth |-> f.eth, bier |-> f.eth = "BIER", bs |-> f.bs,
     bs_remaining |-> {}, needs_cloning |-> FALSE, decap |-> FALSE,
     recirc |-> FALSE]

\* BIER frames come from an ingress router, which encapsulates groups only.
Init ==
    /\ wire \in {w \in [Arrivals -> Frame] : \A a \in Arrivals :
                    IF w[a].eth = "BIER" THEN w[a].dst \in DOMAIN BierIngress
                                         ELSE w[a].bs = {}}
    /\ pkt = [a \in Arrivals |-> Received(wire[a])]
    /\ out = [a \in Arrivals |-> << >>]
    /\ installed = Preinstalled

\* The entries and the default action of a table are in place.
On(file) == \E i \in 1 .. installed : InstallOrder[i] = file

TopBit(bs) == CHOOSE k \in bs : \A j \in bs : j <= k

-----------------------------------------------------------------------------
(* Ingress pipeline: one action per outcome.                               *)

ToEgress(a, c) ==
    /\ pkt' = [pkt EXCEPT ![a] = [c EXCEPT !.stage = "egress"]]
    /\ UNCHANGED <<wire, out, installed>>

Drop(a) ==
    /\ pkt' = [pkt EXCEPT ![a].stage = "done"]
    /\ UNCHANGED <<wire, out, installed>>

AtIngress(a, eth) == pkt[a].stage = "ingress" /\ pkt[a].eth = eth

\* find_pos has a row for every bit and _drop as its default.
Found(a) == On("find_pos") /\ pkt[a].bs # {}

ForThisBfr(a) == On("check_bfr_id") /\ TopBit(pkt[a].bs) = BfrId

DropEmpty(a) ==
    /\ AtIngress(a, "BIER")
    /\ On("find_pos")
    /\ pkt[a].bs = {}
    /\ Drop(a)

PacketForBfr(a) ==
    /\ AtIngress(a, "BIER")
    /\ Found(a)
    /\ ForThisBfr(a)
    /\ ToEgress(a, [pkt[a] EXCEPT !.bs_remaining = pkt[a].bs \ BfrBm,
                                  !.port = HostPort,
                                  !.needs_cloning = TRUE,
                                  !.decap = TRUE])

\* Mutation: the BitString is masked before what remains of it is saved.
BiftActionMasksFirst(a) ==
    LET k == TopBit(pkt[a].bs)
    IN  /\ AtIngress(a, "BIER")
        /\ Found(a)
        /\ ~ForThisBfr(a)
        /\ On("bift")
        /\ k \in DOMAIN Bift
        /\ ToEgress(a, [pkt[a] EXCEPT !.bs_remaining = {},
                                      !.port = Bift[k].nbr_port,
                                      !.needs_cloning = TRUE,
                                      !.bs = pkt[a].bs \cap Bift[k].f_bm])

\* Mutation: f_bm is not taken out of what remains.
BiftActionKeepsAll(a) ==
    LET k == TopBit(pkt[a].bs)
    IN  /\ AtIngress(a, "BIER")
        /\ Found(a)
        /\ ~ForThisBfr(a)
        /\ On("bift")
        /\ k \in DOMAIN Bift
        /\ ToEgress(a, [pkt[a] EXCEPT !.bs_remaining = pkt[a].bs,
                                      !.port = Bift[k].nbr_port,
                                      !.needs_cloning = TRUE,
                                      !.bs = pkt[a].bs \cap Bift[k].f_bm])

BiftAction(a) ==
    LET k == TopBit(pkt[a].bs)
    IN  /\ AtIngress(a, "BIER")
        /\ Found(a)
        /\ ~ForThisBfr(a)
        /\ On("bift")
        /\ k \in DOMAIN Bift
        /\ ToEgress(a, [pkt[a] EXCEPT !.bs_remaining = pkt[a].bs \ Bift[k].f_bm,
                                      !.port = Bift[k].nbr_port,
                                      !.needs_cloning = TRUE,
                                      !.bs = pkt[a].bs \cap Bift[k].f_bm])

\* No table chooses a port.  The file's "table_set_default bift _drop" names
\* an action bift does not have and is refused, so a miss there does nothing.
NoPortChosen(a) ==
    /\ \/ /\ AtIngress(a, "BIER")
          /\ \/ ~On("find_pos")
             \/ /\ Found(a)
                /\ ~ForThisBfr(a)
                /\ On("bift") => TopBit(pkt[a].bs) \notin DOMAIN Bift
       \/ AtIngress(a, "Other")
    /\ ToEgress(a, pkt[a])

\* The packet a decap clone left behind is not given a new header.
EntersDomain(a) ==
    ~pkt[a].decap /\ On("bier_ingress") /\ wire[a].dst \in DOMAIN BierIngress

AddBierHeader(a) ==
    /\ AtIngress(a, "IPv4")
    /\ EntersDomain(a)
    /\ ToEgress(a, [pkt[a] EXCEPT !.bier = TRUE,
                                  !.bs = BierIngress[wire[a].dst],
                                  !.eth = "BIER",
                                  !.recirc = TRUE])

HasRoute(dst) ==
    dst \in DOMAIN Ipv4Lpm /\ Ipv4Lpm[dst].nhop_ipv4 \in Neighbours

IpForward(a) ==
    LET dst == wire[a].dst
    IN  /\ AtIngress(a, "IPv4")
        /\ ~EntersDomain(a)
        /\ On("ip_forwarding") => HasRoute(dst)
        /\ ToEgress(a, IF On("ip_forwarding")
                       THEN [pkt[a] EXCEPT !.port = Ipv4Lpm[dst].port]
                       ELSE pkt[a])

IpDrop(a) ==
    /\ AtIngress(a, "IPv4")
    /\ ~EntersDomain(a)
    /\ On("ip_forwarding")
    /\ ~HasRoute(wire[a].dst)
    /\ Drop(a)

Ingress(a) ==
    \/ DropEmpty(a)
    \/ PacketForBfr(a)
    \/ BiftAction(a)
    \/ NoPortChosen(a)
    \/ AddBierHeader(a)
    \/ IpForward(a)
    \/ IpDrop(a)

-----------------------------------------------------------------------------
(* Egress pipeline: the tables in their order, then what simple_switch     *)
(* does with the result (clone, drop, recirculate, transmit).              *)

\* Mutation: decap is not reset.
RestoredStillDecap(c) ==
    IF c.decap /\ On("do_restore_bier")
    THEN [c EXCEPT !.bier = TRUE, !.bs = c.bs_remaining, !.eth = "BIER"]
    ELSE c

Restored(c) ==
    IF c.decap /\ On("do_restore_bier")
    THEN [c EXCEPT !.bier = TRUE, !.bs = c.bs_remaining,
                   !.decap = FALSE, !.eth = "BIER"]
    ELSE c

\* Mutation: needs_cloning is not reset.
RequeuedStillCloning(c) ==
    IF c.needs_cloning /\ On("do_clone_recirculation")
    THEN [c EXCEPT !.bs = c.bs_remaining, !.recirc = TRUE]
    ELSE c

Requeued(c) ==
    IF c.needs_cloning /\ On("do_clone_recirculation")
    THEN [c EXCEPT !.needs_cloning = FALSE, !.bs = c.bs_remaining,
                   !.recirc = TRUE]
    ELSE c

\* do_cloning_table, and the mirroring session that turns clone 1 into a
\* packet for HostPort.
Clones(c) ==
    /\ c.inst # "clone"
    /\ c.needs_cloning \/ c.decap
    /\ On("do_cloning") /\ On("mirroring")

\* send_frame drops IPv4 frames for a port it has no entry for.
Unsendable(c) == c.eth = "IPv4" /\ On("ip_forwarding") /\ c.port \notin SendFrame

\* Mutation: the ether type is not set back.
DecappedUntyped(c) ==
    IF c.decap /\ On("do_decap") THEN [c EXCEPT !.bier = FALSE] ELSE c

Decapped(c) ==
    IF c.decap /\ On("do_decap")
    THEN [c EXCEPT !.eth = "IPv4", !.bier = FALSE]
    ELSE c

\* Mutation: without the test of instance_type.
AfterCloneAlways(c) == Requeued(Restored(c))

AfterClone(c) == IF c.inst = "clone" THEN Requeued(Restored(c)) ELSE c

EgressResult(c) == Decapped(AfterClone(c))

Transmit(a, c) ==
    LET e == EgressResult(c)
    IN  out' = IF Unsendable(AfterClone(c)) \/ e.recirc \/ e.port \notin Ports
               THEN out
               ELSE [out EXCEPT ![a] = Append(@, [port |-> e.port, eth |-> e.eth,
                                                  bier |-> e.bier, bs |-> e.bs])]

\* The clone is taken at the end of the egress pipeline, before a drop, keeps
\* bier_metadata, and goes through the egress pipeline of HostPort.
EgressClones(a) ==
    /\ pkt[a].stage = "egress"
    /\ Clones(pkt[a])
    /\ Transmit(a, pkt[a])
    /\ pkt' = [pkt EXCEPT ![a] = [EgressResult(pkt[a]) EXCEPT
                                      !.inst = "clone", !.port = HostPort,
                                      !.recirc = FALSE]]
    /\ UNCHANGED <<wire, installed>>

\* A recirculated packet is parsed again and keeps only bier_metadata.
EgressRecirculates(a) ==
    LET e == EgressResult(pkt[a])
    IN  /\ pkt[a].stage = "egress"
        /\ ~Clones(pkt[a])
        /\ e.recirc
        /\ ~Unsendable(AfterClone(pkt[a]))
        /\ pkt' = [pkt EXCEPT ![a] = [e EXCEPT !.stage = "ingress",
                                          !.inst = "recirc", !.port = NullPort,
                                          !.bier = e.eth = "BIER",
                                          !.recirc = FALSE]]
        /\ UNCHANGED <<wire, out, installed>>

EgressEnds(a) ==
    /\ pkt[a].stage = "egress"
    /\ ~Clones(pkt[a])
    /\ EgressResult(pkt[a]).recirc => Unsendable(AfterClone(pkt[a]))
    /\ Transmit(a, pkt[a])
    /\ pkt' = [pkt EXCEPT ![a].stage = "done"]
    /\ UNCHANGED <<wire, installed>>

Egress(a) == EgressClones(a) \/ EgressRecirculates(a) \/ EgressEnds(a)

\* Mutation: one file too many.
InstallOneMore ==
    /\ installed <= Len(InstallOrder)
    /\ installed' = installed + 1
    /\ UNCHANGED <<wire, pkt, out>>

\* insert_all.bash feeds the next file to the switch.
Install ==
    /\ installed < Len(InstallOrder)
    /\ installed' = installed + 1
    /\ UNCHANGED <<wire, pkt, out>>

Handle(a) == Ingress(a) \/ Egress(a)

Next == Install \/ \E a \in Arrivals : Handle(a)

Spec == Init /\ [][Next]_vars

\* The threads of simple_switch serve every queue, and the script runs to its
\* end.
FairSpec == Spec /\ WF_vars(Install) /\ \A a \in Arrivals : WF_vars(Handle(a))
-----------------------------------------------------------------------------
(* What the switch owes a packet, and what of it is still to come.         *)

Multicast(a) ==
    \/ wire[a].eth = "BIER"
    \/ wire[a].eth = "IPv4" /\ wire[a].dst \in DOMAIN BierIngress

Want(a) ==
    CASE wire[a].eth = "BIER" -> wire[a].bs
      [] wire[a].eth = "IPv4" /\ Multicast(a) -> BierIngress[wire[a].dst]
      [] OTHER -> {}

\* The bits a frame for e.port is the copy for.
ServedBy(e) == IF e.port = HostPort THEN {BfrId} ELSE e.bs

\* The bits that a live copy c of a, and the clone it is going to leave, serve.
PendingIn(a, c) ==
    CASE c.stage = "ingress" /\ c.eth = "BIER" -> c.bs
      [] c.stage = "ingress" /\ c.eth # "BIER" /\ ~c.decap -> Want(a)
      [] c.stage = "egress" /\ c.recirc -> c.bs
      [] c.stage = "egress" /\ ~c.recirc /\ c.inst = "clone" -> c.bs_remaining
      [] c.stage = "egress" /\ ~c.recirc /\ c.inst # "clone" /\ c.needs_cloning ->
             c.bs_remaining \cup ServedBy(c)
      [] OTHER -> {}

Pending(a) == PendingIn(a, pkt[a])

AsCopies(frames) ==
    [i \in DOMAIN frames |-> [port |-> frames[i].port, bits |-> ServedBy(frames[i])]]

Sent(a) == IF Multicast(a) THEN AsCopies(out[a]) ELSE << >>

Promise == INSTANCE BierForwarding WITH
    want <- [a \in Arrivals |-> Want(a)],
    todo <- [a \in Arrivals |-> Pending(a)],
    sent <- [a \in Arrivals |-> Sent(a)]

\* The clones and recirculations of the program serve the bits one entry at a
\* time, as BierForwarding asks (bfr.p4:11-84 against its table of promises).
ImplementsForwarding == Promise!Spec

\* Every bit is served by at most one frame.
ServedOnce == Promise!ServedOnce

Known(a) == Want(a) \subseteq DOMAIN Bift \cup {BfrId}

\* While the tables are filled, too, except that the host may get a packet with
\* an unknown bit again: before do_restore_bier is in place decap stays on the
\* clone, and the pass in which bift finds nothing then clones it to the host.
ServedOnceWhileInstalling ==
    \A a \in Arrivals : \A i, j \in DOMAIN out[a] :
        i # j => ServedBy(out[a][i]) \cap ServedBy(out[a][j])
                    \subseteq IF Known(a) THEN {} ELSE {BfrId}

\* A packet whose bits all have an entry is not given up before all are served.
NoneLost == Promise!NoneLost

\* No packet is cloned and recirculated in the same pass: simple_switch would
\* go on with two copies of it, which would serve the same bits twice.
OneCopy ==
    \A a \in Arrivals :
        /\ pkt[a].stage = "egress"
        /\ Clones(pkt[a])
        => ~EgressResult(pkt[a]).recirc

\* Flags of an earlier pass are gone when a packet is at the ingress again:
\* bier_metadata survives clone and recirculation, and a stale decap would
\* strip the header of a frame for a neighbour.
NoStaleFlags ==
    \A a \in Arrivals :
        pkt[a].stage = "ingress" => ~pkt[a].needs_cloning /\ ~pkt[a].decap

\* Off every frame of a for the host, on every frame for a neighbour.
Confined(a) ==
    Multicast(a) =>
        \A i \in DOMAIN out[a] :
            LET e == out[a][i]
            IN  e.bier = (e.port # HostPort) /\ e.bier = (e.eth = "BIER")

\* The BIER header, and the ether type that announces it, stay on every frame
\* for a neighbour and are off every frame for the host.
HeaderConfined == \A a \in Arrivals : Confined(a)

\* While the tables are filled a frame for the host can keep its header, and,
\* when decap is stale in a packet that is between two passes as do_decap gets
\* its entry, one for a neighbour can lose it; but no frame of a packet that is
\* first looked at with do_decap in place does, although do_restore_bier is
\* still to come.
HeaderConfinedOnceFilled ==
    \A a \in Arrivals :
        [](On("do_decap") /\ pkt[a] = Received(wire[a]) => []Confined(a))

\* packet_for_bfr sets the bit of this BFR to 0 in what remains.
OwnBitCleared ==
    \A a \in Arrivals :
        pkt[a].stage = "egress" /\ pkt[a].decap => BfrId \notin pkt[a].bs_remaining

\* Every frame sent for a multicast packet leaves fewer bits to serve, so the
\* recirculation ends.
EachCopyProgresses ==
    [][\A a \in Arrivals :
          Multicast(a) /\ out'[a] # out[a] =>
              /\ Pending(a)' \subseteq Pending(a)
              /\ Pending(a)' # Pending(a)]_vars

\* Every packet leaves the recirculation loop.
EveryPacketEnds == \A a \in Arrivals : <>(pkt[a].stage = "done")

\* A packet that is first looked at when the script is done is served in full,
\* whatever the tables did to the packets before it.
ServedAfterInstall ==
    \A a \in Arrivals :
        (/\ installed = Len(InstallOrder)
         /\ pkt[a] = Received(wire[a])
         /\ Known(a))
        ~> (Want(a) \subseteq Promise!Served(a))
=============================================================================
