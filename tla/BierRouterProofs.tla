-------------------------- MODULE BierRouterProofs --------------------------
(***************************************************************************)
(* BierRouter keeps the types of its variables whatever tables are in      *)
(* place, and with all of them in place it implements BierForwarding.      *)
(***************************************************************************)
EXTENDS BierRouter, SequenceTheorems, TLAPS

-----------------------------------------------------------------------------
(* Types.                                                                  *)

LEMMA TopBitIsSet ==
    ASSUME NEW bs \in SUBSET Bits, bs # {}
    PROVE  TopBit(bs) \in bs
  BY HighestBitAssumption DEF TopBit

LEMMA EgressTypes ==
    ASSUME NEW c \in Packet
    PROVE  /\ Restored(c) \in Packet
           /\ Requeued(c) \in Packet
           /\ Decapped(c) \in Packet
           /\ AfterClone(c) \in Packet
           /\ EgressResult(c) \in Packet
  <1>1. ASSUME NEW d \in Packet
        PROVE  Restored(d) \in Packet /\ Requeued(d) \in Packet /\ Decapped(d) \in Packet
    <2>1. [d EXCEPT !.bier = TRUE, !.bs = d.bs_remaining, !.decap = FALSE,
                    !.eth = "BIER"] \in Packet
      BY <1>1 DEF Packet, EtherType
    <2>2. [d EXCEPT !.needs_cloning = FALSE, !.bs = d.bs_remaining,
                    !.recirc = TRUE] \in Packet
      BY <1>1 DEF Packet
    <2>3. [d EXCEPT !.eth = "IPv4", !.bier = FALSE] \in Packet
      BY <1>1 DEF Packet, EtherType
    <2> QED BY <1>1, <2>1, <2>2, <2>3, Zenon DEF Restored, Requeued, Decapped
  <1>2. AfterClone(c) \in Packet
    BY <1>1 DEF AfterClone
  <1> QED BY <1>1, <1>2 DEF EgressResult

LEMMA FrameTransmitted ==
    ASSUME TypeOK, NEW a \in Arrivals, NEW c \in Packet, Transmit(a, c)
    PROVE  out' \in [Arrivals -> Seq(Emission)]
  <1> DEFINE e == EgressResult(c)
             f == [port |-> e.port, eth |-> e.eth, bier |-> e.bier, bs |-> e.bs]
  <1>1. e \in Packet
    BY EgressTypes
  <1>2. e.port \in Ports => f \in Emission
    BY <1>1 DEF Packet, Emission
  <1>3. out[a] \in Seq(Emission) /\ out \in [Arrivals -> Seq(Emission)]
    BY DEF TypeOK
  <1>4. \/ out' = out
        \/ e.port \in Ports /\ out' = [out EXCEPT ![a] = Append(out[a], f)]
    BY DEF Transmit
  <1> HIDE DEF e, f
  <1>5. e.port \in Ports => Append(out[a], f) \in Seq(Emission)
    BY <1>2, <1>3
  <1> QED BY <1>3, <1>4, <1>5

LEMMA ToEgressKeepsTypes ==
    ASSUME TypeOK, NEW a \in Arrivals, NEW c \in Packet, ToEgress(a, c)
    PROVE  TypeOK'
  <1>1. [c EXCEPT !.stage = "egress"] \in Packet
    BY DEF Packet
  <1> QED BY <1>1 DEF ToEgress, TypeOK

LEMMA DropKeepsTypes ==
    ASSUME TypeOK, NEW a \in Arrivals, Drop(a)
    PROVE  TypeOK'
  <1>1. [pkt[a] EXCEPT !.stage = "done"] \in Packet
    BY DEF TypeOK, Packet
  <1>2. pkt' = [pkt EXCEPT ![a] = [pkt[a] EXCEPT !.stage = "done"]]
    BY DEF Drop
  <1> QED BY <1>1, <1>2 DEF Drop, TypeOK

LEMMA IngressKeepsTypes ==
    ASSUME TypeOK, NEW a \in Arrivals, Ingress(a)
    PROVE  TypeOK'
  <1>1. pkt[a] \in Packet /\ wire[a] \in Frame
    BY DEF TypeOK
  <1>2. CASE DropEmpty(a)
    BY <1>2, DropKeepsTypes DEF DropEmpty
  <1>3. CASE PacketForBfr(a)
    <2> DEFINE c == [pkt[a] EXCEPT !.bs_remaining = pkt[a].bs \ BfrBm,
                                   !.port = HostPort,
                                   !.needs_cloning = TRUE,
                                   !.decap = TRUE]
    <2>1. c \in Packet
      BY <1>1, RouterAssumption DEF Packet
    <2>2. ToEgress(a, c)
      BY <1>3 DEF PacketForBfr
    <2> QED BY <2>1, <2>2, ToEgressKeepsTypes
  <1>4. CASE BiftAction(a)
    <2> DEFINE k == TopBit(pkt[a].bs)
               c == [pkt[a] EXCEPT !.bs_remaining = pkt[a].bs \ Bift[k].f_bm,
                                   !.port = Bift[k].nbr_port,
                                   !.needs_cloning = TRUE,
                                   !.bs = pkt[a].bs \cap Bift[k].f_bm]
    <2>1. Bift[k] \in [f_bm : SUBSET Bits, nbr_port : Ports]
      BY <1>4, RouterAssumption DEF BiftAction
    <2>2. ToEgress(a, c)
      BY <1>4 DEF BiftAction
    <2>3. Bift[k].f_bm \in SUBSET Bits /\ Bift[k].nbr_port \in Ports
      BY <2>1
    <2> HIDE DEF k
    <2>4. c \in Packet
      BY <1>1, <2>3 DEF Packet
    <2> QED BY <2>2, <2>4, ToEgressKeepsTypes
  <1>5. CASE NoPortChosen(a)
    BY <1>1, <1>5, ToEgressKeepsTypes DEF NoPortChosen
  <1>6. CASE AddBierHeader(a)
    <2> DEFINE c == [pkt[a] EXCEPT !.bier = TRUE,
                                   !.bs = BierIngress[wire[a].dst],
                                   !.eth = "BIER",
                                   !.recirc = TRUE]
    <2>1. BierIngress[wire[a].dst] \in SUBSET Bits
      BY <1>6, RouterAssumption DEF AddBierHeader, EntersDomain
    <2>2. c \in Packet
      BY <1>1, <2>1 DEF Packet, EtherType
    <2>3. ToEgress(a, c)
      BY <1>6 DEF AddBierHeader
    <2> QED BY <2>2, <2>3, ToEgressKeepsTypes
  <1>7. CASE IpForward(a)
    <2> DEFINE dst == wire[a].dst
               c == IF On("ip_forwarding")
                    THEN [pkt[a] EXCEPT !.port = Ipv4Lpm[dst].port]
                    ELSE pkt[a]
    <2>1. On("ip_forwarding") => Ipv4Lpm[dst].port \in Ports
      BY <1>7, RouterAssumption DEF IpForward, HasRoute
    <2>2. c \in Packet
      BY <1>1, <2>1 DEF Packet
    <2>3. ToEgress(a, c)
      BY <1>7 DEF IpForward
    <2> QED BY <2>2, <2>3, ToEgressKeepsTypes
  <1>8. CASE IpDrop(a)
    BY <1>8, DropKeepsTypes DEF IpDrop
  <1> QED
    BY <1>2, <1>3, <1>4, <1>5, <1>6, <1>7, <1>8 DEF Ingress

LEMMA EgressKeepsTypes ==
    ASSUME TypeOK, NEW a \in Arrivals, Egress(a)
    PROVE  TypeOK'
  <1> DEFINE e == EgressResult(pkt[a])
  <1>1. pkt[a] \in Packet /\ e \in Packet
    BY EgressTypes DEF TypeOK
  <1> HIDE DEF e
  <1>2. CASE EgressClones(a)
    <2>1. [e EXCEPT !.inst = "clone", !.port = HostPort, !.recirc = FALSE] \in Packet
      BY <1>1, RouterAssumption DEF Packet
    <2>2. pkt' \in [Arrivals -> Packet]
      BY <1>2, <2>1 DEF EgressClones, TypeOK, e
    <2>3. out' \in [Arrivals -> Seq(Emission)]
      BY <1>1, <1>2, FrameTransmitted DEF EgressClones
    <2> QED BY <1>2, <2>2, <2>3 DEF EgressClones, TypeOK
  <1>3. CASE EgressRecirculates(a)
    <2>1. [e EXCEPT !.stage = "ingress", !.inst = "recirc", !.port = NullPort,
                    !.bier = (e.eth = "BIER"), !.recirc = FALSE] \in Packet
      BY <1>1 DEF Packet
    <2>2. pkt' \in [Arrivals -> Packet]
      BY <1>3, <2>1 DEF EgressRecirculates, TypeOK, e
    <2> QED BY <1>3, <2>2 DEF EgressRecirculates, TypeOK
  <1>4. CASE EgressEnds(a)
    <2>1. [pkt[a] EXCEPT !.stage = "done"] \in Packet
      BY <1>1 DEF Packet
    <2>2. pkt' = [pkt EXCEPT ![a] = [pkt[a] EXCEPT !.stage = "done"]]
      BY <1>4 DEF EgressEnds
    <2>3. out' \in [Arrivals -> Seq(Emission)]
      BY <1>1, <1>4, FrameTransmitted DEF EgressEnds
    <2> QED BY <1>4, <2>1, <2>2, <2>3 DEF EgressEnds, TypeOK
  <1> QED
    BY <1>2, <1>3, <1>4 DEF Egress

LEMMA TypeOKInitially ==
    ASSUME Init
    PROVE  TypeOK
  <1>1. wire \in [Arrivals -> Frame]
    BY DEF Init
  <1>2. \A a \in Arrivals : Received(wire[a]) \in Packet
    BY <1>1 DEF Received, Packet, Frame, EtherType
  <1>3. out \in [Arrivals -> Seq(Emission)]
    BY EmptySeq DEF Init
  <1> QED BY <1>1, <1>2, <1>3, RouterAssumption DEF Init, TypeOK

LEMMA TypeOKInductive ==
    ASSUME TypeOK, [Next]_vars
    PROVE  TypeOK'
  <1>1. CASE Install
    <2>1. Len(InstallOrder) \in Nat
      BY DEF InstallOrder
    <2> QED BY <1>1, <2>1 DEF Install, TypeOK
  <1>2. ASSUME NEW a \in Arrivals, Handle(a)
        PROVE  TypeOK'
    BY <1>2, IngressKeepsTypes, EgressKeepsTypes DEF Handle
  <1>3. CASE UNCHANGED vars
    BY <1>3 DEF vars, TypeOK
  <1> QED BY <1>1, <1>2, <1>3 DEF Next

\* The variables keep their types, whichever tables are in place and in
\* whatever order packets and the insertion of tables interleave.
THEOREM TypeCorrect == Spec => []TypeOK
  BY TypeOKInitially, TypeOKInductive, PTL DEF Spec
-----------------------------------------------------------------------------
(* One copy, whatever the tables say and however many are in place.        *)

\* A packet on its way to the ingress has no flag that makes a clone, and one
\* that add_bier_header sends round again has none either.
NotTwice(c) ==
    /\ c.stage = "ingress" => ~c.needs_cloning /\ ~c.recirc /\ c.inst # "clone"
    /\ c.stage = "egress" /\ c.recirc =>
           ~c.needs_cloning /\ ~c.decap /\ c.inst # "clone"

OneCopyInv == TypeOK /\ \A a \in Arrivals : NotTwice(pkt[a])

LEMMA RecirculatedIsReset ==
    ASSUME NEW c \in Packet, NotTwice(c), c.stage = "egress", EgressResult(c).recirc
    PROVE  ~EgressResult(c).needs_cloning
  <1>1. ASSUME NEW r \in Packet
        PROVE  /\ Restored(r).recirc = r.recirc
               /\ Restored(r).needs_cloning = r.needs_cloning
               /\ Decapped(r).recirc = r.recirc
               /\ Decapped(r).needs_cloning = r.needs_cloning
               /\ Requeued(r).recirc => r.recirc \/ ~Requeued(r).needs_cloning
               /\ ~r.needs_cloning => ~Requeued(r).needs_cloning
    BY <1>1 DEF Packet, Restored, Decapped, Requeued
  <1>2. /\ Restored(c) \in Packet
        /\ Requeued(Restored(c)) \in Packet
    BY EgressTypes
  <1>3. CASE c.inst = "clone"
    <2>1. EgressResult(c) = Decapped(Requeued(Restored(c)))
      BY <1>3 DEF EgressResult, AfterClone
    <2>2. ~c.recirc
      BY <1>3 DEF NotTwice
    <2> QED BY <1>1, <1>2, <2>1, <2>2
  <1>4. CASE c.inst # "clone"
    <2>1. EgressResult(c) = Decapped(c)
      BY <1>4 DEF EgressResult, AfterClone
    <2> QED BY <1>1, <2>1 DEF NotTwice
  <1> QED BY <1>3, <1>4

LEMMA NotTwiceStep ==
    ASSUME OneCopyInv, NEW a \in Arrivals, Handle(a)
    PROVE  \E d : pkt' = [pkt EXCEPT ![a] = d] /\ NotTwice(d)
  <1> DEFINE c == pkt[a]
             e == EgressResult(c)
  <1>1. c \in Packet /\ e \in Packet /\ NotTwice(c)
    BY EgressTypes DEF OneCopyInv, TypeOK
  <1>2. ASSUME NEW r, r \in Packet, pkt' = [pkt EXCEPT ![a] = [r EXCEPT !.stage = "egress"]],
               r.recirc => ~r.needs_cloning /\ ~r.decap /\ r.inst # "clone"
        PROVE  \E d : pkt' = [pkt EXCEPT ![a] = d] /\ NotTwice(d)
    <2>1. NotTwice([r EXCEPT !.stage = "egress"])
      BY <1>2 DEF Packet, NotTwice
    <2> QED BY <1>2, <2>1
  <1>3. CASE DropEmpty(a) \/ IpDrop(a) \/ EgressEnds(a)
    <2>1. NotTwice([c EXCEPT !.stage = "done"])
      BY <1>1 DEF Packet, NotTwice
    <2> QED BY <1>3, <2>1 DEF DropEmpty, IpDrop, EgressEnds, Drop
  <1>4. ASSUME c.stage = "ingress"
        PROVE  ~c.needs_cloning /\ ~c.recirc /\ c.inst # "clone"
    BY <1>1, <1>4 DEF NotTwice
  <1>5. CASE PacketForBfr(a)
    <2> DEFINE r == [c EXCEPT !.bs_remaining = c.bs \ BfrBm, !.port = HostPort,
                              !.needs_cloning = TRUE, !.decap = TRUE]
    <2>1. r \in Packet /\ ~r.recirc
      BY <1>1, <1>4, <1>5, RouterAssumption DEF Packet, PacketForBfr, AtIngress
    <2>2. pkt' = [pkt EXCEPT ![a] = [r EXCEPT !.stage = "egress"]]
      BY <1>5 DEF PacketForBfr, ToEgress
    <2> QED BY <1>2, <2>1, <2>2
  <1>6. CASE BiftAction(a)
    <2> DEFINE k == TopBit(c.bs)
               r == [c EXCEPT !.bs_remaining = c.bs \ Bift[k].f_bm,
                              !.port = Bift[k].nbr_port,
                              !.needs_cloning = TRUE,
                              !.bs = c.bs \cap Bift[k].f_bm]
    <2>1. Bift[k] \in [f_bm : SUBSET Bits, nbr_port : Ports]
      BY <1>6, RouterAssumption DEF BiftAction
    <2>2. Bift[k].f_bm \in SUBSET Bits /\ Bift[k].nbr_port \in Ports
      BY <2>1
    <2>3. pkt' = [pkt EXCEPT ![a] = [r EXCEPT !.stage = "egress"]]
      BY <1>6 DEF BiftAction, ToEgress
    <2> HIDE DEF k
    <2>4. r \in Packet /\ ~r.recirc
      BY <1>1, <1>4, <1>6, <2>2 DEF Packet, BiftAction, AtIngress
    <2> QED BY <1>2, <2>3, <2>4
  <1>7. CASE NoPortChosen(a)
    BY <1>1, <1>2, <1>4, <1>7 DEF NoPortChosen, AtIngress, ToEgress
  <1>8. CASE AddBierHeader(a)
    <2> DEFINE r == [c EXCEPT !.bier = TRUE, !.bs = BierIngress[wire[a].dst],
                              !.eth = "BIER", !.recirc = TRUE]
    <2>1. BierIngress[wire[a].dst] \in SUBSET Bits
      BY <1>8, RouterAssumption DEF AddBierHeader, EntersDomain
    <2>2. r \in Packet /\ ~r.needs_cloning /\ ~r.decap /\ r.inst # "clone"
      BY <1>1, <1>4, <1>8, <2>1
         DEF Packet, EtherType, AddBierHeader, EntersDomain, AtIngress
    <2>3. pkt' = [pkt EXCEPT ![a] = [r EXCEPT !.stage = "egress"]]
      BY <1>8 DEF AddBierHeader, ToEgress
    <2> QED BY <1>2, <2>2, <2>3
  <1>9. CASE IpForward(a)
    <2> DEFINE r == IF On("ip_forwarding")
                    THEN [c EXCEPT !.port = Ipv4Lpm[wire[a].dst].port]
                    ELSE c
    <2>1. On("ip_forwarding") => Ipv4Lpm[wire[a].dst].port \in Ports
      BY <1>9, RouterAssumption DEF IpForward, HasRoute
    <2>2. r \in Packet /\ ~r.recirc
      BY <1>1, <1>4, <1>9, <2>1 DEF Packet, IpForward, AtIngress
    <2>3. pkt' = [pkt EXCEPT ![a] = [r EXCEPT !.stage = "egress"]]
      BY <1>9 DEF IpForward, ToEgress
    <2> QED BY <1>2, <2>2, <2>3
  <1>10. CASE EgressClones(a)
    <2> DEFINE d == [e EXCEPT !.inst = "clone", !.port = HostPort, !.recirc = FALSE]
    <2>1. pkt' = [pkt EXCEPT ![a] = d]
      BY <1>10 DEF EgressClones
    <2> HIDE DEF e
    <2>2. ~d.recirc /\ d.stage = e.stage
      BY <1>1 DEF Packet
    <2>3. c.stage = "egress"
      BY <1>10 DEF EgressClones
    <2>4. ASSUME NEW r \in Packet
          PROVE  /\ Restored(r).stage = r.stage /\ Requeued(r).stage = r.stage
                 /\ Decapped(r).stage = r.stage
      BY <2>4 DEF Packet, Restored, Requeued, Decapped
    <2>5. /\ Restored(c) \in Packet /\ Requeued(Restored(c)) \in Packet
          /\ AfterClone(c) \in Packet
      BY <1>1, EgressTypes
    <2>6. e.stage = "egress"
      BY <1>1, <2>3, <2>4, <2>5 DEF e, EgressResult, AfterClone
    <2>7. NotTwice(d)
      BY <2>2, <2>6 DEF NotTwice
    <2> QED BY <2>1, <2>7
  <1>11. CASE EgressRecirculates(a)
    <2> DEFINE d == [e EXCEPT !.stage = "ingress", !.inst = "recirc",
                              !.port = NullPort, !.bier = (e.eth = "BIER"),
                              !.recirc = FALSE]
    <2>1. pkt' = [pkt EXCEPT ![a] = d]
      BY <1>11 DEF EgressRecirculates
    <2>2. ~e.needs_cloning
      BY <1>1, <1>11, RecirculatedIsReset DEF EgressRecirculates
    <2> HIDE DEF e
    <2>3. NotTwice(d)
      BY <1>1, <2>2 DEF Packet, NotTwice
    <2> QED BY <2>1, <2>3
  <1> QED BY <1>3, <1>5, <1>6, <1>7, <1>8, <1>9, <1>10, <1>11
          DEF Handle, Ingress, Egress

LEMMA OneCopyInvInductive ==
    ASSUME OneCopyInv, [Next]_vars
    PROVE  OneCopyInv'
  <1>1. TypeOK'
    BY TypeOKInductive DEF OneCopyInv
  <1>2. ASSUME NEW a \in Arrivals, Handle(a)
        PROVE  OneCopyInv'
    <2>1. PICK d : pkt' = [pkt EXCEPT ![a] = d] /\ NotTwice(d)
      BY <1>2, NotTwiceStep
    <2>2. \A b \in Arrivals : pkt'[b] = d \/ pkt'[b] = pkt[b]
      BY <2>1 DEF OneCopyInv, TypeOK
    <2> QED BY <1>1, <2>1, <2>2 DEF OneCopyInv, NotTwice
  <1>3. CASE pkt' = pkt
    BY <1>1, <1>3 DEF OneCopyInv, NotTwice
  <1> QED BY <1>2, <1>3 DEF Next, Install, vars

\* No pass of a packet both clones it and sends it round again, whatever is in
\* the tables and however many of them are filled (bfr.p4:38-74, 244-249).
THEOREM OneCopyHolds == Spec => []OneCopy
  <1>1. Init => OneCopyInv
    BY TypeOKInitially DEF Init, Received, OneCopyInv, NotTwice
  <1>2. ASSUME OneCopyInv, NEW a \in Arrivals, pkt[a].stage = "egress", Clones(pkt[a])
        PROVE  ~EgressResult(pkt[a]).recirc
    <2>1. pkt[a] \in Packet /\ NotTwice(pkt[a])
      BY <1>2 DEF OneCopyInv, TypeOK
    <2>2. pkt[a].inst # "clone" /\ ~pkt[a].recirc
      BY <1>2, <2>1 DEF Clones, NotTwice
    <2>3. EgressResult(pkt[a]) = Decapped(pkt[a])
      BY <2>2 DEF EgressResult, AfterClone
    <2> QED BY <2>1, <2>2, <2>3 DEF Decapped, Packet
  <1>3. OneCopyInv => OneCopy
    BY <1>2 DEF OneCopy
  <1> QED BY <1>1, <1>3, OneCopyInvInductive, PTL DEF Spec

-----------------------------------------------------------------------------
(* The passes of a packet, with all tables in place.                       *)

\* All tables are filled before the first packet; check_bfr_id clears just the
\* router's own bit; the port of the host leads to no neighbour.
TablesFilled ==
    /\ Preinstalled = Len(InstallOrder)
    /\ BfrBm = {BfrId}
    /\ \A k \in DOMAIN Bift : Bift[k].nbr_port # HostPort

\* A packet that is at the ingress has no flag of an earlier pass, and is a
\* BIER packet unless it is as it was received.
ReadyForPass(a, c) ==
    /\ ~c.needs_cloning /\ ~c.decap /\ ~c.recirc
    /\ c.inst # "clone"
    /\ c.port = NullPort
    /\ IF c.eth = "BIER" THEN c.bier /\ Multicast(a) ELSE c.eth = wire[a].eth

\* add_bier_header has recirculated it.
Encapsulated(a, c) ==
    /\ Multicast(a)
    /\ c.recirc
    /\ ~c.needs_cloning /\ ~c.decap
    /\ c.inst # "clone"
    /\ c.eth = "BIER"

\* check_bfr_id, or entry k of bift, has split the BitString into what this
\* copy serves and what remains.
ForHost(c) ==
    /\ c.decap
    /\ c.port = HostPort
    /\ BfrId \notin c.bs_remaining

ForNeighbour(c) ==
    /\ ~c.decap
    /\ \E k \in DOMAIN Bift \ {BfrId} :
          /\ k \in c.bs \cup c.bs_remaining
          /\ c.port = Bift[k].nbr_port
          /\ c.bs \subseteq Bift[k].f_bm
          /\ c.bs_remaining \cap Bift[k].f_bm = {}

Chosen(a, c) ==
    /\ Multicast(a)
    /\ c.needs_cloning /\ ~c.recirc
    /\ c.inst # "clone"
    /\ c.eth = "BIER" /\ c.bier
    /\ ForHost(c) \/ ForNeighbour(c)

\* The clone of such a packet, which goes round again.
Remainder(a, c) ==
    /\ Multicast(a)
    /\ c.inst = "clone"
    /\ c.needs_cloning /\ ~c.recirc
    /\ c.decap \/ c.eth = "BIER"
    /\ c.decap => BfrId \notin c.bs_remaining

\* Anything else is not multicast traffic, or has no port.
Passing(a, c) ==
    /\ ~c.needs_cloning /\ ~c.decap /\ ~c.recirc
    /\ c.inst # "clone"
    /\ Multicast(a) => c.port = NullPort

InPass(a, c) ==
    /\ c.stage = "ingress" => ReadyForPass(a, c)
    /\ c.stage = "egress" => \/ Encapsulated(a, c)
                             \/ Chosen(a, c)
                             \/ Remainder(a, c)
                             \/ Passing(a, c)

IInv ==
    /\ TypeOK
    /\ installed = Len(InstallOrder)
    /\ \A a \in Arrivals : InPass(a, pkt[a])

\* All tables and default actions are there.
AllOn ==
    /\ On("ip_forwarding") /\ On("bier_ingress") /\ On("find_pos") /\ On("bift")
    /\ On("check_bfr_id") /\ On("do_clone_recirculation") /\ On("do_cloning")
    /\ On("mirroring") /\ On("do_decap") /\ On("do_restore_bier")

LEMMA FilledIsAllOn ==
    ASSUME installed = Len(InstallOrder)
    PROVE  AllOn
  <1>1. installed = 10
    BY DEF InstallOrder
  <1>2. ASSUME NEW i \in 1 .. 10
        PROVE  On(InstallOrder[i])
    BY <1>1, <1>2 DEF On
  <1>3. /\ 1 \in 1 .. 10 /\ 2 \in 1 .. 10 /\ 3 \in 1 .. 10 /\ 4 \in 1 .. 10
        /\ 5 \in 1 .. 10 /\ 6 \in 1 .. 10 /\ 7 \in 1 .. 10 /\ 8 \in 1 .. 10
        /\ 9 \in 1 .. 10 /\ 10 \in 1 .. 10
    OBVIOUS
  <1>4. /\ InstallOrder[1] = "ip_forwarding" /\ InstallOrder[2] = "bier_ingress"
        /\ InstallOrder[3] = "find_pos" /\ InstallOrder[4] = "bift"
        /\ InstallOrder[5] = "check_bfr_id"
        /\ InstallOrder[6] = "do_clone_recirculation"
        /\ InstallOrder[7] = "do_cloning" /\ InstallOrder[8] = "mirroring"
        /\ InstallOrder[9] = "do_decap" /\ InstallOrder[10] = "do_restore_bier"
    BY DEF InstallOrder
  <1> HIDE DEF InstallOrder
  <1>5. /\ On(InstallOrder[1]) /\ On(InstallOrder[2]) /\ On(InstallOrder[3])
        /\ On(InstallOrder[4]) /\ On(InstallOrder[5]) /\ On(InstallOrder[6])
        /\ On(InstallOrder[7]) /\ On(InstallOrder[8]) /\ On(InstallOrder[9])
        /\ On(InstallOrder[10])
    BY <1>2, <1>3
  <1> QED BY <1>4, <1>5 DEF AllOn

\* PendingIn, case by case.
LEMMA PendingCases ==
    ASSUME NEW a \in Arrivals, NEW c \in Packet
    PROVE  /\ c.stage = "ingress" /\ c.eth = "BIER" => PendingIn(a, c) = c.bs
           /\ c.stage = "ingress" /\ c.eth # "BIER" /\ ~c.decap =>
                 PendingIn(a, c) = Want(a)
           /\ c.stage = "egress" /\ c.recirc => PendingIn(a, c) = c.bs
           /\ c.stage = "egress" /\ ~c.recirc /\ c.inst = "clone" =>
                 PendingIn(a, c) = c.bs_remaining
           /\ c.stage = "egress" /\ ~c.recirc /\ c.inst # "clone" /\ c.needs_cloning =>
                 PendingIn(a, c) = c.bs_remaining \cup ServedBy(c)
           /\ c.stage = "egress" /\ ~c.recirc /\ c.inst # "clone" /\ ~c.needs_cloning =>
                 PendingIn(a, c) = {}
           /\ c.stage = "done" => PendingIn(a, c) = {}
  BY DEF PendingIn, Packet

\* The live copy of a becomes d; nothing else about the switch changes but,
\* perhaps, what it has sent.
Becomes(a, d) ==
    /\ pkt' = [pkt EXCEPT ![a] = d]
    /\ UNCHANGED <<wire, installed>>

\* The two kinds of ingress step: the bits to serve stay the same, or a packet
\* with a bit that has no entry is given up.
KeepsOrGivesUp(a, d) ==
    \/ PendingIn(a, d) = Pending(a)
    \/ PendingIn(a, d) = {} /\ Pending(a) \ (DOMAIN Bift \cup {BfrId}) # {}

IngressEffect(a, d) ==
    /\ d \in Packet
    /\ Becomes(a, d)
    /\ out' = out
    /\ InPass(a, d)
    /\ KeepsOrGivesUp(a, d)

LEMMA IngressChooses ==
    ASSUME IInv, AllOn, TablesFilled, NEW a \in Arrivals,
           BiftAction(a) \/ PacketForBfr(a)
    PROVE  \E d : IngressEffect(a, d)
  <1> DEFINE c == pkt[a]
             k == TopBit(c.bs)
  <1>1. c \in Packet /\ c.stage = "ingress" /\ c.eth = "BIER" /\ c.bs # {}
    BY DEF IInv, TypeOK, BiftAction, PacketForBfr, AtIngress, Found
  <1>2. k \in c.bs
    BY <1>1, TopBitIsSet DEF Packet
  <1>3. ReadyForPass(a, c) /\ Multicast(a)
    BY <1>1 DEF IInv, InPass, ReadyForPass
  <1>4. Pending(a) = c.bs
    BY <1>1, PendingCases DEF Pending
  <1>5. CASE PacketForBfr(a)
    <2> DEFINE d == [c EXCEPT !.bs_remaining = c.bs \ BfrBm, !.port = HostPort,
                              !.needs_cloning = TRUE, !.decap = TRUE,
                              !.stage = "egress"]
    <2>1. BfrId = k
      BY <1>5 DEF PacketForBfr, ForThisBfr
    <2>2. Becomes(a, d) /\ out' = out
      BY <1>5 DEF PacketForBfr, ToEgress, Becomes
    <2>3. d \in Packet
      BY <1>1, RouterAssumption DEF Packet
    <2>4. /\ d.stage = "egress" /\ ~d.recirc /\ d.inst # "clone"
          /\ d.needs_cloning /\ d.decap /\ d.eth = "BIER" /\ d.bier
          /\ d.port = HostPort /\ d.bs_remaining = c.bs \ {BfrId}
      BY <1>1, <1>3 DEF Packet, ReadyForPass, TablesFilled
    <2> HIDE DEF d, c, k
    <2>5. PendingIn(a, d) = (c.bs \ {BfrId}) \cup {BfrId}
      BY <2>3, <2>4, PendingCases DEF ServedBy
    <2>6. PendingIn(a, d) = Pending(a)
      BY <1>2, <1>4, <2>1, <2>5
    <2>7. InPass(a, d)
      BY <1>3, <2>4 DEF InPass, Chosen, ForHost
    <2> QED BY <2>2, <2>3, <2>6, <2>7 DEF IngressEffect, KeepsOrGivesUp
  <1>6. CASE BiftAction(a)
    <2> DEFINE d == [c EXCEPT !.bs_remaining = c.bs \ Bift[k].f_bm,
                              !.port = Bift[k].nbr_port,
                              !.needs_cloning = TRUE,
                              !.bs = c.bs \cap Bift[k].f_bm,
                              !.stage = "egress"]
    <2>1. k \in DOMAIN Bift
      BY <1>6 DEF BiftAction
    <2>2. Becomes(a, d) /\ out' = out
      BY <1>6 DEF BiftAction, ToEgress, Becomes
    <2>3. k # BfrId
      BY <1>6 DEF BiftAction, ForThisBfr, AllOn
    <2>4. Bift[k] \in [f_bm : SUBSET Bits, nbr_port : Ports]
      BY <2>1, RouterAssumption
    <2>5. Bift[k].f_bm \in SUBSET Bits /\ Bift[k].nbr_port \in Ports
      BY <2>4
    <2>6. Bift[k].nbr_port # HostPort
      BY <2>1 DEF TablesFilled
    <2> HIDE DEF k
    <2>7. d \in Packet
      BY <1>1, <2>5 DEF Packet
    <2>8. /\ d.stage = "egress" /\ ~d.recirc /\ d.inst # "clone"
          /\ d.needs_cloning /\ ~d.decap /\ d.eth = "BIER" /\ d.bier
          /\ d.port = Bift[k].nbr_port
          /\ d.bs = c.bs \cap Bift[k].f_bm
          /\ d.bs_remaining = c.bs \ Bift[k].f_bm
      BY <1>1, <1>3 DEF Packet, ReadyForPass
    <2> HIDE DEF d, c
    <2>9. PendingIn(a, d) = d.bs_remaining \cup d.bs
      BY <2>6, <2>7, <2>8, PendingCases DEF ServedBy
    <2>10. PendingIn(a, d) = Pending(a)
      BY <1>4, <2>8, <2>9
    <2>11. ForNeighbour(d)
      BY <1>2, <2>1, <2>3, <2>8 DEF ForNeighbour
    <2>12. InPass(a, d)
      BY <1>3, <2>8, <2>11 DEF InPass, Chosen
    <2> QED BY <2>2, <2>7, <2>10, <2>12 DEF IngressEffect, KeepsOrGivesUp
  <1> QED BY <1>5, <1>6

LEMMA IngressDrops ==
    ASSUME IInv, AllOn, NEW a \in Arrivals, DropEmpty(a) \/ IpDrop(a)
    PROVE  \E d : IngressEffect(a, d)
  <1> DEFINE c == pkt[a]
             d == [c EXCEPT !.stage = "done"]
  <1>1. c \in Packet /\ c.stage = "ingress" /\ wire[a] \in Frame
    BY DEF IInv, TypeOK, DropEmpty, IpDrop, AtIngress
  <1>2. Becomes(a, d) /\ out' = out
    BY DEF DropEmpty, IpDrop, Drop, Becomes
  <1>3. d \in Packet /\ d.stage = "done"
    BY <1>1 DEF Packet
  <1>4. ReadyForPass(a, c)
    BY <1>1 DEF IInv, InPass
  <1>5. Pending(a) = {}
    <2>1. CASE DropEmpty(a)
      BY <1>1, <2>1, PendingCases DEF DropEmpty, AtIngress, Pending
    <2>2. CASE IpDrop(a)
      <3>1. wire[a].eth = "IPv4" /\ c.eth = "IPv4" /\ ~c.decap
        BY <1>4, <2>2 DEF IpDrop, AtIngress, ReadyForPass
      <3>2. wire[a].dst \notin DOMAIN BierIngress
        BY <2>2, <3>1 DEF IpDrop, EntersDomain, AllOn
      <3>3. Want(a) = {}
        BY <3>1, <3>2 DEF Want, Multicast
      <3> QED BY <1>1, <3>1, <3>3, PendingCases DEF Pending
    <2> QED BY <2>1, <2>2
  <1> HIDE DEF d
  <1>6. PendingIn(a, d) = {} /\ InPass(a, d)
    BY <1>3, PendingCases DEF InPass
  <1> QED BY <1>2, <1>3, <1>5, <1>6 DEF IngressEffect, KeepsOrGivesUp

LEMMA IngressPasses ==
    ASSUME IInv, AllOn, NEW a \in Arrivals, NoPortChosen(a) \/ IpForward(a)
    PROVE  \E d : IngressEffect(a, d)
  <1> DEFINE c == pkt[a]
  <1>1. c \in Packet /\ c.stage = "ingress" /\ wire[a] \in Frame
    BY DEF IInv, TypeOK, NoPortChosen, IpForward, AtIngress
  <1>2. ReadyForPass(a, c)
    BY <1>1 DEF IInv, InPass
  <1>3. CASE NoPortChosen(a)
    <2> DEFINE d == [c EXCEPT !.stage = "egress"]
    <2>1. Becomes(a, d) /\ out' = out
      BY <1>3 DEF NoPortChosen, ToEgress, Becomes
    <2>2. d \in Packet /\ d.stage = "egress" /\ Passing(a, d)
          /\ ~d.recirc /\ d.inst # "clone" /\ ~d.needs_cloning
      BY <1>1, <1>2 DEF Packet, ReadyForPass, Passing
    <2>3. KeepsOrGivesUp(a, d)
      <3>1. PendingIn(a, d) = {}
        BY <2>2, PendingCases
      <3>2. CASE c.eth = "BIER"
        <4>1. /\ c.bs # {}
              /\ TopBit(c.bs) # BfrId
              /\ TopBit(c.bs) \notin DOMAIN Bift
          BY <1>3, <3>2 DEF NoPortChosen, AtIngress, Found, ForThisBfr, AllOn
        <4>2. TopBit(c.bs) \in c.bs
          BY <1>1, <4>1, TopBitIsSet DEF Packet
        <4>3. Pending(a) = c.bs
          BY <1>1, <3>2, PendingCases DEF Pending
        <4> QED BY <3>1, <4>1, <4>2, <4>3 DEF KeepsOrGivesUp
      <3>3. CASE c.eth = "Other"
        <4>1. wire[a].eth = "Other" /\ ~c.decap
          BY <1>2, <3>3 DEF ReadyForPass
        <4>2. Want(a) = {}
          BY <4>1 DEF Want, Multicast
        <4>3. Pending(a) = {}
          BY <1>1, <3>3, <4>1, <4>2, PendingCases DEF Pending
        <4> QED BY <3>1, <4>3 DEF KeepsOrGivesUp
      <3> QED BY <1>3, <3>2, <3>3 DEF NoPortChosen, AtIngress
    <2> HIDE DEF d
    <2>4. InPass(a, d)
      BY <2>2 DEF InPass
    <2> QED BY <2>1, <2>2, <2>3, <2>4 DEF IngressEffect
  <1>4. CASE IpForward(a)
    <2> DEFINE port == Ipv4Lpm[wire[a].dst].port
               d == [c EXCEPT !.port = port, !.stage = "egress"]
    <2>1. Becomes(a, d) /\ out' = out
      BY <1>4 DEF IpForward, ToEgress, Becomes, AllOn
    <2>2. port \in Ports
      BY <1>4, RouterAssumption DEF IpForward, HasRoute, AllOn
    <2>3. wire[a].eth = "IPv4" /\ c.eth = "IPv4" /\ ~c.decap
      BY <1>2, <1>4 DEF IpForward, AtIngress, ReadyForPass
    <2>4. wire[a].dst \notin DOMAIN BierIngress
      BY <1>4, <2>3 DEF IpForward, EntersDomain, AllOn
    <2>5. ~Multicast(a) /\ Want(a) = {}
      BY <2>3, <2>4 DEF Want, Multicast
    <2> HIDE DEF port
    <2>6. d \in Packet /\ d.stage = "egress" /\ Passing(a, d)
          /\ ~d.recirc /\ d.inst # "clone" /\ ~d.needs_cloning
      BY <1>1, <1>2, <2>2, <2>5 DEF Packet, ReadyForPass, Passing
    <2> HIDE DEF d
    <2>7. PendingIn(a, d) = {} /\ InPass(a, d)
      BY <2>6, PendingCases DEF InPass
    <2>8. Pending(a) = {}
      BY <1>1, <2>3, <2>5, PendingCases DEF Pending
    <2> QED BY <2>1, <2>6, <2>7, <2>8 DEF IngressEffect, KeepsOrGivesUp
  <1> QED BY <1>3, <1>4

LEMMA IngressEncapsulates ==
    ASSUME IInv, NEW a \in Arrivals, AddBierHeader(a)
    PROVE  \E d : IngressEffect(a, d)
  <1> DEFINE c == pkt[a]
             bs == BierIngress[wire[a].dst]
             d == [c EXCEPT !.bier = TRUE, !.bs = bs, !.eth = "BIER",
                            !.recirc = TRUE, !.stage = "egress"]
  <1>1. c \in Packet /\ c.stage = "ingress" /\ c.eth = "IPv4"
    BY DEF IInv, TypeOK, AddBierHeader, AtIngress
  <1>2. ReadyForPass(a, c)
    BY <1>1 DEF IInv, InPass
  <1>3. wire[a].eth = "IPv4" /\ wire[a].dst \in DOMAIN BierIngress /\ ~c.decap
    BY <1>1, <1>2 DEF AddBierHeader, EntersDomain, ReadyForPass
  <1>4. bs \in SUBSET Bits
    BY <1>3, RouterAssumption
  <1>5. Multicast(a) /\ Want(a) = bs
    BY <1>3 DEF Multicast, Want
  <1>6. Becomes(a, d) /\ out' = out
    BY DEF AddBierHeader, ToEgress, Becomes
  <1> HIDE DEF bs
  <1>7. d \in Packet /\ d.stage = "egress" /\ d.recirc /\ d.bs = bs
        /\ Encapsulated(a, d)
    BY <1>1, <1>2, <1>4, <1>5 DEF Packet, EtherType, ReadyForPass, Encapsulated
  <1> HIDE DEF d
  <1>8. PendingIn(a, d) = bs /\ InPass(a, d)
    BY <1>7, PendingCases DEF InPass
  <1>9. Pending(a) = bs
    BY <1>1, <1>3, <1>5, PendingCases DEF Pending
  <1> QED BY <1>6, <1>7, <1>8, <1>9 DEF IngressEffect, KeepsOrGivesUp

LEMMA IngressHasEffect ==
    ASSUME IInv, AllOn, TablesFilled, NEW a \in Arrivals, Ingress(a)
    PROVE  \E d : IngressEffect(a, d)
  BY IngressChooses, IngressDrops, IngressPasses, IngressEncapsulates DEF Ingress

\* The kinds of egress step: nothing is sent for a multicast packet and its
\* bits stay the same, or a frame is sent for some of them.
Silent(a, d) ==
    /\ PendingIn(a, d) = Pending(a)
    /\ \/ out' = out
       \/ /\ ~Multicast(a)
          /\ \E s : out' = [out EXCEPT ![a] = s]

Serves(a, d, f) ==
    \/ /\ BfrId \in Pending(a)
       /\ f.port = HostPort
       /\ PendingIn(a, d) = Pending(a) \ {BfrId}
    \/ \E k \in (Pending(a) \cap DOMAIN Bift) \ {BfrId} :
          /\ f.port = Bift[k].nbr_port /\ f.port # HostPort
          /\ f.bs = Pending(a) \cap Bift[k].f_bm
          /\ PendingIn(a, d) = Pending(a) \ Bift[k].f_bm

\* As HeaderConfined has it.
HeaderFits(f) == f.bier = (f.port # HostPort) /\ f.bier = (f.eth = "BIER")

Sends(a, d, f) ==
    /\ Multicast(a)
    /\ f \in Emission
    /\ HeaderFits(f)
    /\ out' = [out EXCEPT ![a] = Append(@, f)]
    /\ Serves(a, d, f)

EgressEffect(a, d) ==
    /\ d \in Packet
    /\ Becomes(a, d)
    /\ InPass(a, d)
    /\ Silent(a, d) \/ \E f : Sends(a, d, f)

LEMMA RecirculatedIsReady ==
    ASSUME NEW a \in Arrivals, NEW e \in Packet, Multicast(a), e.eth = "BIER",
           ~e.needs_cloning, ~e.decap,
           NEW d, d = [e EXCEPT !.stage = "ingress", !.inst = "recirc",
                                !.port = NullPort, !.bier = (e.eth = "BIER"),
                                !.recirc = FALSE]
    PROVE  /\ d \in Packet
           /\ InPass(a, d)
           /\ PendingIn(a, d) = e.bs
  <1>1. d \in Packet /\ d.stage = "ingress" /\ d.eth = "BIER" /\ d.bs = e.bs
        /\ ReadyForPass(a, d)
    BY DEF Packet, ReadyForPass
  <1> QED BY <1>1, PendingCases DEF InPass

LEMMA EncapsulatedRecirculates ==
    ASSUME IInv, AllOn, NEW a \in Arrivals, Egress(a), Encapsulated(a, pkt[a])
    PROVE  \E d : EgressEffect(a, d)
  <1> DEFINE c == pkt[a]
             d == [c EXCEPT !.stage = "ingress", !.inst = "recirc",
                            !.port = NullPort, !.bier = (c.eth = "BIER"),
                            !.recirc = FALSE]
  <1>1. c \in Packet /\ c.stage = "egress"
    BY DEF IInv, TypeOK, Egress, EgressClones, EgressRecirculates, EgressEnds
  <1>2. ~Clones(c) /\ EgressResult(c) = c /\ AfterClone(c) = c /\ ~Unsendable(c)
    BY DEF Encapsulated, Clones, EgressResult, AfterClone, Decapped, Unsendable
  <1>3. EgressRecirculates(a)
    BY <1>2 DEF Egress, EgressClones, EgressEnds, Encapsulated
  <1>4. Becomes(a, d) /\ out' = out
    BY <1>2, <1>3 DEF EgressRecirculates, Becomes
  <1> HIDE DEF d
  <1>5. d \in Packet /\ InPass(a, d) /\ PendingIn(a, d) = c.bs
    BY <1>1, RecirculatedIsReady DEF Encapsulated, d
  <1>6. Pending(a) = c.bs
    BY <1>1, PendingCases DEF Encapsulated, Pending
  <1> QED BY <1>4, <1>5, <1>6 DEF EgressEffect, Silent

LEMMA RemainderRecirculates ==
    ASSUME IInv, AllOn, NEW a \in Arrivals, Egress(a), Remainder(a, pkt[a]),
           pkt[a].stage = "egress"
    PROVE  \E d : EgressEffect(a, d)
  <1> DEFINE c == pkt[a]
             r == Restored(c)
             q == Requeued(r)
             e == EgressResult(c)
  <1>1. c \in Packet /\ c.stage = "egress"
    BY DEF IInv, TypeOK
  <1>2. /\ r \in Packet /\ r.needs_cloning /\ ~r.decap /\ r.eth = "BIER"
        /\ r.bs_remaining = c.bs_remaining
    <2>1. CASE c.decap
      <3>1. r = [c EXCEPT !.bier = TRUE, !.bs = c.bs_remaining, !.decap = FALSE,
                          !.eth = "BIER"]
        BY <2>1 DEF Restored, AllOn
      <3> QED BY <1>1, <3>1 DEF Packet, EtherType, Remainder
    <2>2. CASE ~c.decap
      <3>1. r = c
        BY <2>2 DEF Restored
      <3> QED BY <1>1, <2>2, <3>1 DEF Remainder
    <2> QED BY <2>1, <2>2
  <1> HIDE DEF r
  <1>3. /\ q \in Packet /\ ~q.needs_cloning /\ ~q.decap /\ q.eth = "BIER"
        /\ q.bs = c.bs_remaining /\ q.recirc
    <2>1. q = [r EXCEPT !.needs_cloning = FALSE, !.bs = r.bs_remaining, !.recirc = TRUE]
      BY <1>2 DEF Requeued, AllOn
    <2> QED BY <1>2, <2>1 DEF Packet
  <1> HIDE DEF q
  <1>4. AfterClone(c) = q
    BY DEF AfterClone, Remainder, q, r
  <1>5. e = q /\ ~Unsendable(AfterClone(c)) /\ ~Clones(c)
    BY <1>3, <1>4 DEF EgressResult, Decapped, Unsendable, Clones, Remainder
  <1>6. EgressRecirculates(a)
    BY <1>3, <1>5 DEF Egress, EgressClones, EgressEnds
  <1> DEFINE d == [q EXCEPT !.stage = "ingress", !.inst = "recirc",
                            !.port = NullPort, !.bier = (q.eth = "BIER"),
                            !.recirc = FALSE]
  <1>7. Becomes(a, d) /\ out' = out
    BY <1>5, <1>6 DEF EgressRecirculates, Becomes
  <1> HIDE DEF d
  <1>8. d \in Packet /\ InPass(a, d) /\ PendingIn(a, d) = q.bs
    BY <1>3, RecirculatedIsReady DEF Remainder, d
  <1>9. Pending(a) = c.bs_remaining
    BY <1>1, PendingCases DEF Remainder, Pending
  <1> QED BY <1>3, <1>7, <1>8, <1>9 DEF EgressEffect, Silent

LEMMA PassingEnds ==
    ASSUME IInv, AllOn, NEW a \in Arrivals, Egress(a), Passing(a, pkt[a]),
           pkt[a].stage = "egress"
    PROVE  \E d : EgressEffect(a, d)
  <1> DEFINE c == pkt[a]
             d == [c EXCEPT !.stage = "done"]
  <1>1. c \in Packet
    BY DEF IInv, TypeOK
  <1>2. ~Clones(c) /\ EgressResult(c) = c
    BY DEF Passing, Clones, EgressResult, AfterClone, Decapped
  <1>3. EgressEnds(a)
    BY <1>2 DEF Egress, EgressClones, EgressRecirculates, Passing
  <1>4. Becomes(a, d)
    BY <1>3 DEF EgressEnds, Becomes
  <1>5. d \in Packet /\ d.stage = "done"
    BY <1>1 DEF Packet
  <1>6. \/ out' = out
        \/ /\ ~Multicast(a)
           /\ \E s : out' = [out EXCEPT ![a] = s]
    BY <1>2, <1>3, RouterAssumption DEF EgressEnds, Transmit, Passing
  <1> HIDE DEF d
  <1>7. PendingIn(a, d) = {} /\ InPass(a, d)
    BY <1>5, PendingCases DEF InPass
  <1>8. Pending(a) = {}
    BY <1>1, PendingCases DEF Pending, Passing
  <1> QED BY <1>4, <1>5, <1>6, <1>7, <1>8 DEF EgressEffect, Silent

LEMMA ChosenClones ==
    ASSUME IInv, AllOn, TablesFilled, NEW a \in Arrivals, Egress(a),
           Chosen(a, pkt[a]), pkt[a].stage = "egress"
    PROVE  \E d : EgressEffect(a, d)
  <1> DEFINE c == pkt[a]
             e == EgressResult(c)
             d == [e EXCEPT !.inst = "clone", !.port = HostPort, !.recirc = FALSE]
             f == [port |-> e.port, eth |-> e.eth, bier |-> e.bier, bs |-> e.bs]
  <1>1. c \in Packet /\ e \in Packet
    BY EgressTypes DEF IInv, TypeOK
  <1>2. Clones(c) /\ AfterClone(c) = c /\ ~Unsendable(c)
    BY DEF Chosen, Clones, AllOn, AfterClone, Unsendable
  <1>3. /\ e.port = c.port /\ e.bs = c.bs /\ e.bs_remaining = c.bs_remaining
        /\ e.stage = "egress" /\ ~e.recirc /\ e.needs_cloning
        /\ e.decap = c.decap
        /\ IF c.decap THEN e.eth = "IPv4" /\ ~e.bier ELSE e.eth = "BIER" /\ e.bier
    <2>1. e = IF c.decap THEN [c EXCEPT !.eth = "IPv4", !.bier = FALSE] ELSE c
      BY <1>2 DEF EgressResult, Decapped, AllOn
    <2>2. CASE c.decap
      BY <1>1, <2>1, <2>2 DEF Packet, Chosen
    <2>3. CASE ~c.decap
      BY <1>1, <2>1, <2>3 DEF Chosen
    <2> QED BY <2>2, <2>3
  <1>4. c.port \in Ports
    BY RouterAssumption DEF Chosen, ForHost, ForNeighbour
  <1>5. EgressClones(a)
    BY <1>2 DEF Egress, EgressRecirculates, EgressEnds
  <1>6. Becomes(a, d) /\ out' = [out EXCEPT ![a] = Append(@, f)]
    BY <1>2, <1>3, <1>4, <1>5 DEF EgressClones, Becomes, Transmit
  <1> HIDE DEF e
  <1>7. f \in Emission /\ f.port = c.port /\ f.bs = c.bs
    BY <1>1, <1>3, <1>4 DEF Emission, Packet
  <1>8. /\ d \in Packet /\ d.stage = "egress" /\ d.inst = "clone" /\ ~d.recirc
        /\ d.bs_remaining = c.bs_remaining /\ Remainder(a, d)
    BY <1>1, <1>3, RouterAssumption
       DEF Packet, Chosen, ForHost, ForNeighbour, Remainder
  <1> HIDE DEF d, f
  <1>9. PendingIn(a, d) = c.bs_remaining /\ InPass(a, d)
    BY <1>8, PendingCases DEF InPass
  <1>10. Pending(a) = c.bs_remaining \cup ServedBy(c)
    BY <1>1, PendingCases DEF Pending, Chosen
  <1>11. Serves(a, d, f)
    <2>1. CASE ForHost(c)
      <3>1. Pending(a) = c.bs_remaining \cup {BfrId}
        BY <1>10, <2>1 DEF ForHost, ServedBy
      <3> QED BY <1>7, <1>9, <2>1, <3>1 DEF ForHost, Serves
    <2>2. CASE ForNeighbour(c)
      <3>1. PICK k \in DOMAIN Bift \ {BfrId} :
               /\ k \in c.bs \cup c.bs_remaining
               /\ c.port = Bift[k].nbr_port
               /\ c.bs \subseteq Bift[k].f_bm
               /\ c.bs_remaining \cap Bift[k].f_bm = {}
        BY <2>2 DEF ForNeighbour
      <3>2. c.port # HostPort
        BY <3>1 DEF TablesFilled
      <3>3. Pending(a) = c.bs_remaining \cup c.bs
        BY <1>10, <3>2 DEF ServedBy
      <3>4. /\ k \in (Pending(a) \cap DOMAIN Bift) \ {BfrId}
            /\ f.bs = Pending(a) \cap Bift[k].f_bm
            /\ PendingIn(a, d) = Pending(a) \ Bift[k].f_bm
        BY <1>7, <1>9, <3>1, <3>3
      <3> QED BY <1>7, <3>1, <3>2, <3>4 DEF Serves
    <2> QED BY <2>1, <2>2 DEF Chosen
  <1>12. HeaderFits(f)
    <2>1. c.port = HostPort <=> c.decap
      BY DEF Chosen, ForHost, ForNeighbour, TablesFilled
    <2>2. f.port = e.port /\ f.eth = e.eth /\ f.bier = e.bier
      BY DEF f
    <2>3. e.bier \in BOOLEAN
      BY <1>1 DEF Packet
    <2>4. CASE c.decap
      <3>1. e.bier = FALSE /\ e.eth = "IPv4" /\ e.port = HostPort
        BY <1>3, <2>1, <2>3, <2>4
      <3> QED BY <2>2, <3>1 DEF HeaderFits
    <2>5. CASE ~c.decap
      <3>1. e.bier = TRUE /\ e.eth = "BIER" /\ e.port # HostPort
        BY <1>3, <2>1, <2>3, <2>5
      <3> QED BY <2>2, <3>1 DEF HeaderFits
    <2> QED BY <2>4, <2>5
  <1>13. Sends(a, d, f)
    BY <1>6, <1>7, <1>11, <1>12 DEF Sends, Chosen
  <1> QED BY <1>6, <1>8, <1>9, <1>13 DEF EgressEffect

LEMMA EgressHasEffect ==
    ASSUME IInv, AllOn, TablesFilled, NEW a \in Arrivals, Egress(a)
    PROVE  \E d : EgressEffect(a, d)
  <1>1. pkt[a].stage = "egress"
    BY DEF Egress, EgressClones, EgressRecirculates, EgressEnds
  <1>2. \/ Encapsulated(a, pkt[a])
        \/ Chosen(a, pkt[a])
        \/ Remainder(a, pkt[a])
        \/ Passing(a, pkt[a])
    BY <1>1 DEF IInv, InPass
  <1> QED BY <1>1, <1>2, EncapsulatedRecirculates, RemainderRecirculates,
             PassingEnds, ChosenClones

-----------------------------------------------------------------------------
(* From the passes of one packet to the switch.                            *)

LEMMA EffectKeepsIInv ==
    ASSUME IInv, TypeOK', NEW a \in Arrivals, NEW d, Becomes(a, d), InPass(a, d)
    PROVE  IInv'
  <1>1. pkt'[a] = d /\ \A b \in Arrivals \ {a} : pkt'[b] = pkt[b]
    BY DEF IInv, TypeOK, Becomes
  <1>2. wire' = wire /\ installed' = installed
    BY DEF Becomes
  <1>3. ASSUME NEW b \in Arrivals
        PROVE  InPass(b, pkt[b])' <=> InPass(b, pkt'[b])
    BY <1>2 DEF InPass, ReadyForPass, Encapsulated, Chosen, ForHost, ForNeighbour,
                Remainder, Passing, Multicast
  <1>4. \A b \in Arrivals : InPass(b, pkt[b])'
    BY <1>1, <1>3 DEF IInv
  <1> QED BY <1>2, <1>4 DEF IInv

LEMMA IInvInductive ==
    ASSUME TablesFilled, IInv, [Next]_vars
    PROVE  IInv'
  <1>1. TypeOK'
    BY TypeOKInductive DEF IInv
  <1>2. ~Install
    BY DEF IInv, Install, InstallOrder
  <1>3. CASE UNCHANGED vars
    BY <1>1, <1>3 DEF vars, IInv, InPass, ReadyForPass, Encapsulated, Chosen,
                      ForHost, ForNeighbour, Remainder, Passing, Multicast
  <1>4. ASSUME NEW a \in Arrivals, Handle(a)
        PROVE  IInv'
    <2>1. AllOn
      BY FilledIsAllOn DEF IInv
    <2>2. CASE Ingress(a)
      BY <1>1, <2>1, <2>2, IngressHasEffect, EffectKeepsIInv DEF IngressEffect
    <2>3. CASE Egress(a)
      BY <1>1, <2>1, <2>3, EgressHasEffect, EffectKeepsIInv DEF EgressEffect
    <2> QED BY <1>4, <2>2, <2>3 DEF Handle
  <1> QED BY <1>2, <1>3, <1>4 DEF Next

LEMMA IInvInitially ==
    ASSUME TablesFilled, Init
    PROVE  IInv
  <1>1. TypeOK
    BY TypeOKInitially
  <1>2. installed = Len(InstallOrder)
    BY DEF TablesFilled, Init
  <1>3. ASSUME NEW a \in Arrivals
        PROVE  InPass(a, pkt[a])
    BY DEF Init, Received, InPass, ReadyForPass, Multicast
  <1> QED BY <1>1, <1>2, <1>3 DEF IInv

-----------------------------------------------------------------------------
(* The refinement: the variables of BierForwarding, and what a step of the *)
(* program does to them.                                                   *)

WantMap == [a \in Arrivals |-> Want(a)]
TodoMap == [a \in Arrivals |-> Pending(a)]
SentMap == [a \in Arrivals |-> Sent(a)]

AsCopy(f) == [port |-> f.port, bits |-> ServedBy(f)]

LEMMA CopiesAppended ==
    ASSUME NEW s \in Seq(Emission), NEW f \in Emission
    PROVE  AsCopies(Append(s, f)) = Append(AsCopies(s), AsCopy(f))
  <1> DEFINE C == {AsCopy(g) : g \in Emission}
             t == Append(s, f)
  <1>1. ASSUME NEW r \in Seq(Emission)
        PROVE  /\ AsCopies(r) \in Seq(C)
               /\ Len(AsCopies(r)) = Len(r)
               /\ \A i \in 1 .. Len(r) : AsCopies(r)[i] = AsCopy(r[i])
    <2>1. AsCopies(r) = [i \in 1 .. Len(r) |-> AsCopy(r[i])]
      BY DEF AsCopies, AsCopy
    <2>2. \A i \in 1 .. Len(r) : AsCopy(r[i]) \in C
      OBVIOUS
    <2> HIDE DEF C
    <2>3. Len(r) \in Nat
      OBVIOUS
    <2> QED BY <2>1, <2>2, <2>3
  <1>2. AsCopy(f) \in C
    OBVIOUS
  <1>3. /\ t \in Seq(Emission) /\ Len(t) = Len(s) + 1
        /\ \A i \in 1 .. Len(s) : t[i] = s[i]
        /\ t[Len(s) + 1] = f
    BY AppendProperties
  <1> HIDE DEF C, t
  <1>4. /\ AsCopies(s) \in Seq(C) /\ Len(AsCopies(s)) = Len(s)
        /\ \A i \in 1 .. Len(s) : AsCopies(s)[i] = AsCopy(s[i])
    BY <1>1
  <1>5. /\ AsCopies(t) \in Seq(C) /\ Len(AsCopies(t)) = Len(s) + 1
        /\ \A i \in 1 .. Len(s) + 1 : AsCopies(t)[i] = AsCopy(t[i])
    BY <1>1, <1>3
  <1> DEFINE u == Append(AsCopies(s), AsCopy(f))
  <1>6. /\ u \in Seq(C) /\ Len(u) = Len(s) + 1
        /\ \A i \in 1 .. Len(s) : u[i] = AsCopies(s)[i]
        /\ u[Len(s) + 1] = AsCopy(f)
    BY <1>2, <1>4, AppendProperties
  <1> HIDE DEF u
  <1>7. \A i \in 1 .. Len(s) + 1 : AsCopies(t)[i] = u[i]
    BY <1>3, <1>4, <1>5, <1>6
  <1>8. AsCopies(t) = u
    BY <1>5, <1>6, <1>7, SeqEqual
  <1> QED BY <1>8 DEF t, u

LEMMA MapsOfStep ==
    ASSUME IInv, NEW a \in Arrivals, NEW d, Becomes(a, d)
    PROVE  /\ WantMap' = WantMap
           /\ TodoMap' = [TodoMap EXCEPT ![a] = PendingIn(a, d)]
  <1>1. pkt'[a] = d /\ \A b \in Arrivals \ {a} : pkt'[b] = pkt[b]
    BY DEF IInv, TypeOK, Becomes
  <1>2. wire' = wire
    BY DEF Becomes
  <1>3. ASSUME NEW b \in Arrivals
        PROVE  Want(b)' = Want(b) /\ Pending(b)' = PendingIn(b, pkt'[b])
    BY <1>2 DEF Want, Multicast, Pending, PendingIn, ServedBy
  <1> QED BY <1>1, <1>3 DEF WantMap, TodoMap, Pending

LEMMA SentUnchanged ==
    ASSUME IInv, NEW a \in Arrivals, NEW d, Becomes(a, d),
           \/ out' = out
           \/ ~Multicast(a) /\ (\E s : out' = [out EXCEPT ![a] = s])
    PROVE  SentMap' = SentMap
  <1>1. \A b \in Arrivals : Multicast(b) => out'[b] = out[b]
    BY DEF IInv, TypeOK
  <1>2. ASSUME NEW b \in Arrivals
        PROVE  Sent(b)' = Sent(b)
    <2>1. Multicast(b)' <=> Multicast(b)
      BY DEF Becomes, Multicast
    <2>2. Multicast(b) => AsCopies(out[b])' = AsCopies(out[b])
      BY <1>1 DEF AsCopies, ServedBy
    <2> QED BY <2>1, <2>2 DEF Sent
  <1> QED BY <1>2 DEF SentMap

LEMMA SentAppended ==
    ASSUME IInv, NEW a \in Arrivals, NEW d, Becomes(a, d), Multicast(a),
           NEW f \in Emission, out' = [out EXCEPT ![a] = Append(@, f)]
    PROVE  SentMap' = [SentMap EXCEPT ![a] = Append(@, AsCopy(f))]
  <1>1. out \in [Arrivals -> Seq(Emission)]
    BY DEF IInv, TypeOK
  <1>2. out'[a] = Append(out[a], f) /\ \A b \in Arrivals \ {a} : out'[b] = out[b]
    BY <1>1
  <1>3. ASSUME NEW b \in Arrivals
        PROVE  Sent(b)' = IF b = a THEN Append(Sent(a), AsCopy(f)) ELSE Sent(b)
    <2>1. Multicast(b)' <=> Multicast(b)
      BY DEF Becomes, Multicast
    <2>2. AsCopies(out[b])' = AsCopies(out'[b])
      BY DEF AsCopies, ServedBy
    <2>3. b = a => AsCopies(out'[b]) = Append(AsCopies(out[a]), AsCopy(f))
      BY <1>1, <1>2, CopiesAppended
    <2>4. b # a => AsCopies(out'[b]) = AsCopies(out[b])
      BY <1>2
    <2> QED BY <2>1, <2>2, <2>3, <2>4 DEF Sent
  <1> QED BY <1>3 DEF SentMap

LEMMA StepRefines ==
    ASSUME IInv, TablesFilled, NEW a \in Arrivals, Handle(a)
    PROVE  [Promise!Next]_(Promise!vars)
  <1>1. AllOn
    BY FilledIsAllOn DEF IInv
  <1>2. TodoMap[a] = Pending(a) /\ SentMap[a] = Sent(a)
    BY DEF TodoMap, SentMap
  <1>3. CASE UNCHANGED <<WantMap, TodoMap, SentMap>>
    BY <1>3 DEF Promise!vars, WantMap, TodoMap, SentMap
  <1>4. ASSUME NEW d, Becomes(a, d), PendingIn(a, d) = {}, out' = out,
               Pending(a) \ (DOMAIN Bift \cup {BfrId}) # {}
        PROVE  Promise!GiveUp(a)
    <2>1. WantMap' = WantMap /\ TodoMap' = [TodoMap EXCEPT ![a] = {}]
      BY <1>4, MapsOfStep
    <2>2. SentMap' = SentMap
      BY <1>4, SentUnchanged
    <2> QED BY <1>2, <1>4, <2>1, <2>2
            DEF Promise!GiveUp, WantMap, TodoMap, SentMap
  <1>5. ASSUME NEW d, Becomes(a, d), NEW f, Sends(a, d, f)
        PROVE  Promise!Serve(a)
    <2>1. WantMap' = WantMap /\ TodoMap' = [TodoMap EXCEPT ![a] = PendingIn(a, d)]
      BY <1>5, MapsOfStep
    <2>2. SentMap' = [SentMap EXCEPT ![a] = Append(@, AsCopy(f))]
      BY <1>5, SentAppended DEF Sends
    <2>3. CASE /\ BfrId \in Pending(a)
               /\ f.port = HostPort
               /\ PendingIn(a, d) = Pending(a) \ {BfrId}
      <3>1. AsCopy(f) = [port |-> HostPort, bits |-> {BfrId}]
        BY <2>3 DEF AsCopy, ServedBy
      <3>2. TodoMap' = [TodoMap EXCEPT ![a] = @ \ {BfrId}]
        BY <1>2, <2>1, <2>3
      <3>3. Promise!Deliver(a)
        BY <1>2, <2>1, <2>2, <2>3, <3>1, <3>2
        DEF Promise!Deliver, Promise!Send, WantMap, TodoMap, SentMap
      <3> QED BY <3>3 DEF Promise!Serve
    <2>4. ASSUME NEW k \in (Pending(a) \cap DOMAIN Bift) \ {BfrId},
                 f.port = Bift[k].nbr_port, f.port # HostPort,
                 f.bs = Pending(a) \cap Bift[k].f_bm,
                 PendingIn(a, d) = Pending(a) \ Bift[k].f_bm
          PROVE  Promise!Serve(a)
      <3>1. AsCopy(f) = [port |-> Bift[k].nbr_port,
                         bits |-> TodoMap[a] \cap Bift[k].f_bm]
        BY <1>2, <2>4 DEF AsCopy, ServedBy
      <3>2. TodoMap' = [TodoMap EXCEPT ![a] = @ \ Bift[k].f_bm]
        BY <1>2, <2>1, <2>4
      <3>3. Promise!Forward(a, k)
        BY <1>2, <2>1, <2>2, <2>4, <3>1, <3>2
        DEF Promise!Forward, Promise!Send, WantMap, TodoMap, SentMap
      <3>4. k \in Bits
        BY RouterAssumption
      <3> QED BY <3>3, <3>4 DEF Promise!Serve
    <2> QED BY <1>5, <2>3, <2>4 DEF Sends, Serves
  <1>6. ASSUME NEW d, Becomes(a, d), PendingIn(a, d) = Pending(a),
               \/ out' = out
               \/ ~Multicast(a) /\ (\E s : out' = [out EXCEPT ![a] = s])
        PROVE  UNCHANGED <<WantMap, TodoMap, SentMap>>
    <2>1. WantMap' = WantMap /\ TodoMap' = [TodoMap EXCEPT ![a] = PendingIn(a, d)]
      BY <1>6, MapsOfStep
    <2>2. TodoMap' = TodoMap
      BY <1>2, <1>6, <2>1 DEF TodoMap
    <2>3. SentMap' = SentMap
      BY <1>6, SentUnchanged
    <2> QED BY <2>1, <2>2, <2>3
  <1>7. CASE Ingress(a)
    <2>1. PICK d : IngressEffect(a, d)
      BY <1>1, <1>7, IngressHasEffect
    <2>2. CASE PendingIn(a, d) = Pending(a)
      BY <1>3, <1>6, <2>1, <2>2 DEF IngressEffect
    <2>3. CASE PendingIn(a, d) = {} /\ Pending(a) \ (DOMAIN Bift \cup {BfrId}) # {}
      BY <1>4, <2>1, <2>3 DEF IngressEffect, Promise!Serve, Promise!Next
    <2> QED BY <2>1, <2>2, <2>3 DEF IngressEffect, KeepsOrGivesUp
  <1>8. CASE Egress(a)
    <2>1. PICK d : EgressEffect(a, d)
      BY <1>1, <1>8, EgressHasEffect
    <2>2. CASE Silent(a, d)
      BY <1>3, <1>6, <2>1, <2>2 DEF EgressEffect, Silent
    <2>3. CASE \E f : Sends(a, d, f)
      BY <1>5, <2>1, <2>3 DEF EgressEffect, Promise!Next
    <2> QED BY <2>1, <2>2, <2>3 DEF EgressEffect
  <1> QED BY <1>7, <1>8 DEF Handle

LEMMA InitRefines ==
    ASSUME Init
    PROVE  Promise!Init
  <1>1. wire \in [Arrivals -> Frame]
    BY DEF Init
  <1>2. ASSUME NEW a \in Arrivals
        PROVE  Want(a) \in SUBSET Bits /\ Pending(a) = Want(a) /\ Sent(a) = << >>
    <2>1. wire[a] \in Frame /\ pkt[a] = Received(wire[a]) /\ out[a] = << >>
      BY <1>1 DEF Init
    <2>2. pkt[a] \in Packet
      BY TypeOKInitially DEF TypeOK
    <2>3. Want(a) \in SUBSET Bits
      BY <2>1, RouterAssumption DEF Want, Multicast, Frame
    <2>4. Pending(a) = Want(a)
      BY <2>1, <2>2, PendingCases DEF Pending, Received, Want
    <2>5. Sent(a) = << >>
      BY <2>1 DEF Sent, AsCopies
    <2> QED BY <2>3, <2>4, <2>5
  <1> QED BY <1>2 DEF Promise!Init

\* With all its tables filled, a check_bfr_id that clears just the router's own
\* bit and no neighbour on the port of the host, the program implements
\* BierForwarding, for every forwarding table and every mix of packets: its
\* clones and recirculations serve the bits of a packet entry by entry, each
\* bit by one frame, and give up only packets with a bit that has no entry.
THEOREM Implements ==
    ASSUME TablesFilled
    PROVE  Spec => ImplementsForwarding
  <1>1. Init => IInv /\ Promise!Init
    BY IInvInitially, InitRefines
  <1>2. IInv /\ [Next]_vars => IInv'
    BY IInvInductive
  <1>3. IInv /\ [Next]_vars => [Promise!Next]_(Promise!vars)
    <2> SUFFICES ASSUME IInv, [Next]_vars
                 PROVE  [Promise!Next]_(Promise!vars)
      OBVIOUS
    <2>1. ~Install
      BY DEF IInv, Install, InstallOrder
    <2>2. CASE UNCHANGED vars
      BY <2>2 DEF vars, Promise!vars, Want, Multicast, Pending, PendingIn,
                  ServedBy, Sent, AsCopies
    <2> QED BY <2>1, <2>2, StepRefines DEF Next
  <1> QED BY <1>1, <1>2, <1>3, PTL DEF Spec, ImplementsForwarding, Promise!Spec

\* What is proved of BierForwarding, for the variables that are mapped to it.
Promised == INSTANCE BierForwardingProofs WITH
    want <- [a \in Arrivals |-> Want(a)],
    todo <- [a \in Arrivals |-> Pending(a)],
    sent <- [a \in Arrivals |-> Sent(a)]

LEMMA KeepsThePromise ==
    ASSUME TablesFilled
    PROVE  Spec => Promised!Spec
  <1>1. Promise!Init => Promised!Init
    BY DEF Promise!Init, Promised!Init
  <1>2. [Promise!Next]_(Promise!vars) => [Promised!Next]_(Promised!vars)
    BY DEF Promise!Next, Promised!Next, Promise!vars, Promised!vars,
           Promise!Serve, Promised!Serve, Promise!Deliver, Promised!Deliver,
           Promise!Forward, Promised!Forward, Promise!GiveUp, Promised!GiveUp,
           Promise!Send, Promised!Send
  <1> QED BY <1>1, <1>2, Implements, PTL
          DEF ImplementsForwarding, Promise!Spec, Promised!Spec

\* No bit of a packet is served by two frames (bfr.p4:11-27, 53-74, 167-178).
THEOREM ServedOnceHolds ==
    ASSUME TablesFilled
    PROVE  Spec => []ServedOnce
  <1>1. Promised!ForwardingAssumption
    BY RouterAssumption DEF Promised!ForwardingAssumption
  <1>2. Promised!Spec => []Promised!ServedOnce
    BY <1>1, Promised!ServedOnceHolds, PTL DEF Promised!ForwardingAssumption
  <1>3. Promised!ServedOnce <=> ServedOnce
    BY DEF Promised!ServedOnce, ServedOnce, Promise!ServedOnce
  <1> QED BY <1>2, <1>3, KeepsThePromise, PTL

\* A packet all of whose bits have an entry loses none on its way through the
\* clones and recirculations (bfr.p4:11-27, 53-74, 167-178).
THEOREM NoneLostHolds ==
    ASSUME TablesFilled
    PROVE  Spec => []NoneLost
  <1>1. Promised!ForwardingAssumption
    BY RouterAssumption DEF Promised!ForwardingAssumption
  <1>2. Promised!Spec => []Promised!NoneLost
    BY <1>1, Promised!NoneLostHolds, PTL DEF Promised!ForwardingAssumption
  <1>3. Promised!NoneLost <=> NoneLost
    BY DEF Promised!NoneLost, NoneLost, Promise!NoneLost, Promised!Served,
           Promise!Served
  <1> QED BY <1>2, <1>3, KeepsThePromise, PTL

-----------------------------------------------------------------------------
(* What IInv says of the flags.                                            *)

LEMMA IInvHolds ==
    ASSUME TablesFilled
    PROVE  Spec => []IInv
  BY IInvInitially, IInvInductive, PTL DEF Spec

\* No packet comes back to the ingress with needs_cloning or decap still set
\* (bfr.p4:53-74).
THEOREM NoStaleFlagsHolds ==
    ASSUME TablesFilled
    PROVE  Spec => []NoStaleFlags
  <1>1. IInv => NoStaleFlags
    BY DEF IInv, InPass, ReadyForPass, NoStaleFlags
  <1> QED BY <1>1, IInvHolds, PTL

\* packet_for_bfr leaves its own bit out of what goes round again
\* (bfr.p4:193-205).
THEOREM OwnBitClearedHolds ==
    ASSUME TablesFilled
    PROVE  Spec => []OwnBitCleared
  <1>1. IInv => OwnBitCleared
    BY DEF IInv, InPass, Encapsulated, Chosen, ForHost, ForNeighbour, Remainder,
           Passing, OwnBitCleared
  <1> QED BY <1>1, IInvHolds, PTL

-----------------------------------------------------------------------------
(* What a frame that is sent does to the packet.                           *)

\* The step of an arrival that sends something for multicast packet b is an
\* egress step of b that serves some of its bits.
LEMMA OnlyServingSends ==
    ASSUME IInv, TablesFilled, [Next]_vars,
           NEW b \in Arrivals, Multicast(b), out'[b] # out[b]
    PROVE  \E d, f : Becomes(b, d) /\ Sends(b, d, f)
  <1>1. ~Install /\ AllOn
    BY FilledIsAllOn DEF IInv, Install, InstallOrder
  <1>2. PICK a \in Arrivals : Handle(a)
    BY <1>1 DEF Next, vars
  <1>3. ~Ingress(a)
    BY <1>1, IngressHasEffect DEF IngressEffect
  <1>4. PICK d : EgressEffect(a, d)
    BY <1>1, <1>2, <1>3, EgressHasEffect DEF Handle
  <1>5. out \in [Arrivals -> Seq(Emission)]
    BY DEF IInv, TypeOK
  <1>6. ~Silent(a, d)
    BY <1>5 DEF Silent
  <1>7. PICK f : Sends(a, d, f)
    BY <1>4, <1>6 DEF EgressEffect
  <1>8. a = b
    BY <1>5, <1>7 DEF Sends
  <1> QED BY <1>4, <1>7, <1>8 DEF EgressEffect

\* Every frame sent for a multicast packet leaves strictly fewer bits to
\* serve, if the f_bm of each bift entry holds the bit of the entry
\* (bfr.p4:14-27, 167-178, 193-205).
THEOREM EachCopyProgressesHolds ==
    ASSUME TablesFilled, \A k \in DOMAIN Bift : k \in Bift[k].f_bm
    PROVE  Spec => EachCopyProgresses
  <1> DEFINE Fewer == \A a \in Arrivals :
                         Multicast(a) /\ out'[a] # out[a] =>
                             /\ Pending(a)' \subseteq Pending(a)
                             /\ Pending(a)' # Pending(a)
  <1>1. ASSUME IInv, [Next]_vars, NEW a \in Arrivals, Multicast(a),
               out'[a] # out[a]
        PROVE  Pending(a)' \subseteq Pending(a) /\ Pending(a)' # Pending(a)
    <2>1. PICK d, f : Becomes(a, d) /\ Sends(a, d, f)
      BY <1>1, OnlyServingSends
    <2>2. TodoMap' = [TodoMap EXCEPT ![a] = PendingIn(a, d)]
      BY <1>1, <2>1, MapsOfStep
    <2>3. Pending(a)' = PendingIn(a, d)
      BY <2>2 DEF TodoMap
    <2>4. CASE BfrId \in Pending(a) /\ PendingIn(a, d) = Pending(a) \ {BfrId}
      BY <2>3, <2>4
    <2>5. ASSUME NEW k \in (Pending(a) \cap DOMAIN Bift) \ {BfrId},
                 f.bs = Pending(a) \cap Bift[k].f_bm,
                 PendingIn(a, d) = Pending(a) \ Bift[k].f_bm
          PROVE  Pending(a)' \subseteq Pending(a) /\ Pending(a)' # Pending(a)
      BY <2>3, <2>5
    <2> QED BY <2>1, <2>4, <2>5 DEF Sends, Serves
  <1>2. IInv /\ [Next]_vars => [Fewer]_vars
    BY <1>1
  <1> QED BY <1>2, IInvHolds, PTL DEF Spec, EachCopyProgresses

HeadersFit(a) == Multicast(a) => \A i \in DOMAIN out[a] : HeaderFits(out[a][i])

LEMMA HeadersFitStep ==
    ASSUME IInv, TablesFilled, [Next]_vars, NEW a \in Arrivals, HeadersFit(a)
    PROVE  HeadersFit(a)'
  <1>1. out \in [Arrivals -> Seq(Emission)] /\ out[a] \in Seq(Emission)
    BY DEF IInv, TypeOK
  <1>2. wire' = wire
    BY DEF Next, Install, Handle, Ingress, DropEmpty, PacketForBfr, BiftAction,
           NoPortChosen, AddBierHeader, IpForward, IpDrop, ToEgress, Drop,
           Egress, EgressClones, EgressRecirculates, EgressEnds, vars
  <1>3. Multicast(a)' <=> Multicast(a)
    BY <1>2 DEF Multicast
  <1>4. CASE out'[a] = out[a]
    BY <1>3, <1>4 DEF HeadersFit, HeaderFits
  <1>5. CASE Multicast(a) /\ out'[a] # out[a]
    <2>1. PICK d, f : Becomes(a, d) /\ Sends(a, d, f)
      BY <1>5, OnlyServingSends
    <2>2. f \in Emission /\ HeaderFits(f) /\ out'[a] = Append(out[a], f)
      BY <1>1, <2>1 DEF Sends
    <2>3. \A i \in DOMAIN out'[a] :
            out'[a][i] = f \/ (i \in DOMAIN out[a] /\ out'[a][i] = out[a][i])
      BY <1>1, <2>2
    <2> QED BY <1>5, <2>2, <2>3 DEF HeadersFit, HeaderFits
  <1> QED BY <1>3, <1>4, <1>5 DEF HeadersFit

\* The BIER header is on the frames for the neighbours and off those for the
\* host: the clone of a packet that was decapsulated gets it back
\* (bfr.p4:53-84, 130-150).
THEOREM HeaderConfinedHolds ==
    ASSUME TablesFilled
    PROVE  Spec => []HeaderConfined
  <1> DEFINE AllFit == \A a \in Arrivals : HeadersFit(a)
  <1>1. Init => AllFit
    BY DEF Init, HeadersFit
  <1>2. IInv /\ AllFit /\ [Next]_vars => AllFit'
    BY HeadersFitStep
  <1>3. AllFit => HeaderConfined
    BY DEF HeadersFit, HeaderFits, HeaderConfined, Confined
  <1> QED BY <1>1, <1>2, <1>3, IInvHolds, PTL DEF Spec

=============================================================================
