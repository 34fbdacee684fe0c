--------------------------- MODULE BierInstallProofs ---------------------------
(***************************************************************************)
(* BierRouter while insert_all.bash fills its tables: how many files are   *)
(* in place at first, and when each of the others comes, is open.          *)
(***************************************************************************)
EXTENDS BierRouterProofs

-----------------------------------------------------------------------------
(* The order of the files.                                                 *)

LEMMA FilesInOrder ==
    ASSUME TypeOK
    PROVE  /\ On("ip_forwarding") <=> installed >= 1
           /\ On("bier_ingress") <=> installed >= 2
           /\ On("find_pos") <=> installed >= 3
           /\ On("bift") <=> installed >= 4
           /\ On("check_bfr_id") <=> installed >= 5
           /\ On("do_clone_recirculation") <=> installed >= 6
           /\ On("do_cloning") <=> installed >= 7
           /\ On("mirroring") <=> installed >= 8
           /\ On("do_decap") <=> installed >= 9
  <1>1. installed \in 0 .. 10
    BY DEF TypeOK, InstallOrder
  <1>2. /\ InstallOrder[1] = "ip_forwarding" /\ InstallOrder[2] = "bier_ingress"
        /\ InstallOrder[3] = "find_pos" /\ InstallOrder[4] = "bift"
        /\ InstallOrder[5] = "check_bfr_id"
        /\ InstallOrder[6] = "do_clone_recirculation"
        /\ InstallOrder[7] = "do_cloning" /\ InstallOrder[8] = "mirroring"
        /\ InstallOrder[9] = "do_decap" /\ InstallOrder[10] = "do_restore_bier"
    BY DEF InstallOrder
  <1> HIDE DEF InstallOrder
  <1>3. ASSUME NEW n \in 1 .. 10
        PROVE  (\E i \in 1 .. installed : i = n) <=> installed >= n
    BY <1>1
  <1>4. ASSUME NEW n \in 1 .. 9, NEW i \in 1 .. 10, InstallOrder[i] = InstallOrder[n]
        PROVE  i = n
    <2>1. /\ n \in {1, 2, 3, 4, 5, 6, 7, 8, 9}
          /\ i \in {1, 2, 3, 4, 5, 6, 7, 8, 9, 10}
      BY <1>4
    <2> QED BY <1>2, <1>4, <2>1
  <1>5. ASSUME NEW n \in 1 .. 9
        PROVE  On(InstallOrder[n]) <=> installed >= n
    <2>1. 1 .. installed \subseteq 1 .. 10
      BY <1>1
    <2> QED BY <1>3, <1>4, <2>1 DEF On
  <1>6. /\ 1 \in 1 .. 9 /\ 2 \in 1 .. 9 /\ 3 \in 1 .. 9 /\ 4 \in 1 .. 9 /\ 5 \in 1 .. 9
        /\ 6 \in 1 .. 9 /\ 7 \in 1 .. 9 /\ 8 \in 1 .. 9 /\ 9 \in 1 .. 9
    OBVIOUS
  <1>7. /\ On(InstallOrder[1]) <=> installed >= 1
        /\ On(InstallOrder[2]) <=> installed >= 2
        /\ On(InstallOrder[3]) <=> installed >= 3
        /\ On(InstallOrder[4]) <=> installed >= 4
        /\ On(InstallOrder[5]) <=> installed >= 5
        /\ On(InstallOrder[6]) <=> installed >= 6
        /\ On(InstallOrder[7]) <=> installed >= 7
        /\ On(InstallOrder[8]) <=> installed >= 8
        /\ On(InstallOrder[9]) <=> installed >= 9
    BY <1>5, <1>6
  <1> QED BY <1>2, <1>7

\* Packets are cloned: from then on the tables up to the mirroring session are
\* in place, among them the one that resets needs_cloning.
Cloning == On("do_cloning") /\ On("mirroring")

LEMMA CloningComesLate ==
    ASSUME TypeOK
    PROVE  /\ Cloning => /\ On("ip_forwarding") /\ On("bier_ingress")
                         /\ On("find_pos") /\ On("bift") /\ On("check_bfr_id")
                         /\ On("do_clone_recirculation")
           /\ On("do_decap") => Cloning
  <1>1. installed \in Nat
    BY DEF TypeOK
  <1> QED BY <1>1, FilesInOrder DEF Cloning

\* What is in place stays.
LEMMA FilesStay ==
    ASSUME TypeOK, Install, NEW file, On(file)
    PROVE  On(file)'
  <1>1. PICK i \in 1 .. installed : InstallOrder[i] = file
    BY DEF On
  <1>2. i \in 1 .. installed + 1 /\ installed' = installed + 1
    BY DEF TypeOK, Install
  <1>3. InstallOrder' = InstallOrder
    BY DEF InstallOrder
  <1> QED BY <1>1, <1>2 DEF On

-----------------------------------------------------------------------------
(* The passes of a packet.                                                 *)

\* check_bfr_id clears just the router's own bit, no neighbour is behind the
\* port of the host, and no route leads to a multicast group.
TablesRight ==
    /\ BfrBm = {BfrId}
    /\ \A k \in DOMAIN Bift : Bift[k].nbr_port # HostPort
    /\ \A dst \in DOMAIN BierIngress : ~HasRoute(dst)

\* A packet at the ingress.  A stale decap is that of a packet that went to
\* the host and was cloned while do_restore_bier was missing.
Awaits(a, c, frames) ==
    /\ ~c.needs_cloning /\ ~c.recirc
    /\ c.inst # "clone"
    /\ c.port = NullPort
    /\ c.eth = "BIER" => Multicast(a) /\ c.bier
    /\ c.inst = "normal" => frames = << >>
    /\ ~c.decap /\ c.eth # "BIER" => c.eth = wire[a].eth /\ c.inst = "normal"
    /\ c.decap => /\ Multicast(a) /\ Cloning
                  /\ c.eth # "Other"
                  /\ BfrId \notin c.bs \cup c.bs_remaining

\* The BitString is split into what this copy serves and what remains.
Split(a, c) ==
    /\ Multicast(a)
    /\ c.needs_cloning /\ ~c.recirc
    /\ c.inst # "clone"
    /\ c.eth = "BIER" /\ c.bier
    /\ c.port \in Ports
    /\ ServedBy(c) \cap c.bs_remaining = {}
    /\ c.port = HostPort => c.decap
    /\ c.decap => BfrId \notin c.bs_remaining

\* The clone of a packet that has been split.
Left(a, c) ==
    /\ Remainder(a, c)
    /\ Cloning
    /\ c.eth # "Other"

\* A packet with a stale decap, in which no table found anything: it is cloned
\* for decap's sake, and the clone goes to the host.
Astray(a, c) ==
    /\ Multicast(a) /\ ~Known(a)
    /\ ~c.needs_cloning /\ c.decap /\ ~c.recirc
    /\ IF c.inst = "clone" THEN c.port = HostPort ELSE c.port = NullPort
    /\ BfrId \notin c.bs_remaining

\* Neither flagged nor, as a multicast packet, sent anywhere.
Idle(a, c, frames) ==
    /\ Passing(a, c)
    /\ c.port = NullPort \/ frames = << >>

Underway(a, c, frames) ==
    /\ c.stage = "ingress" => Awaits(a, c, frames)
    /\ c.stage = "egress" => \/ Encapsulated(a, c)
                             \/ Split(a, c)
                             \/ Left(a, c)
                             \/ Astray(a, c)
                             \/ Idle(a, c, frames)

\* The bits that c and the clones of it have still to serve.
Owed(a, c) ==
    IF c.stage = "egress" /\ c.decap /\ ~c.needs_cloning THEN {} ELSE PendingIn(a, c)

\* What the host may get again.
Spare(a) == IF Known(a) THEN {} ELSE {BfrId}

Apart(a) ==
    \A i, j \in DOMAIN out[a] :
        i # j => ServedBy(out[a][i]) \cap ServedBy(out[a][j]) \subseteq Spare(a)

Accounted(a, c) ==
    /\ Owed(a, c) \subseteq Want(a)
    /\ \A i \in DOMAIN out[a] : ServedBy(out[a][i]) \cap Owed(a, c) = {}

\* BIER frames are those of groups, too (Init).
ForGroup(a) == Multicast(a) => wire[a].dst \in DOMAIN BierIngress

InstallInv ==
    /\ TypeOK
    /\ \A a \in Arrivals : /\ Underway(a, pkt[a], out[a])
                           /\ Accounted(a, pkt[a])
                           /\ Apart(a)
                           /\ ForGroup(a)

\* With do_decap in place from its first pass on, a packet has a stale decap
\* only to be dropped, and the header goes with the port.
Clean(a, c) ==
    /\ c.stage = "ingress" /\ c.eth = "BIER" => ~c.decap
    /\ c.stage = "egress" /\ c.decap => c.needs_cloning
    /\ c.stage = "egress" /\ c.needs_cloning /\ c.inst # "clone" =>
           (c.decap <=> c.port = HostPort)

-----------------------------------------------------------------------------
(* The kinds of steps.                                                     *)

\* Nothing is sent, and no more is owed than before.
Quiet(a, d) ==
    /\ out' = out
    /\ Owed(a, d) \subseteq Owed(a, pkt[a])

\* A frame is sent for bits that were owed and no longer are; or for the host,
\* which gets it again.
Pays(a, d, f) ==
    /\ f \in Emission
    /\ out' = [out EXCEPT ![a] = Append(@, f)]
    /\ Owed(a, d) \subseteq Owed(a, pkt[a])
    /\ Owed(a, d) \cap ServedBy(f) = {}
    /\ \A i \in DOMAIN out[a] : ServedBy(out[a][i]) \cap ServedBy(f) \subseteq Spare(a)

Keeps(a, d) ==
    /\ d \in Packet
    /\ Becomes(a, d)
    /\ Underway(a, d, out'[a])
    /\ Quiet(a, d) \/ \E f : Pays(a, d, f)
    /\ On("do_decap") /\ Clean(a, pkt[a]) =>
           /\ Clean(a, d)
           /\ Multicast(a) => \/ out' = out
                              \/ \E f : Pays(a, d, f) /\ HeaderFits(f)

\* What is known of a packet before its step.
LEMMA BeforeStep ==
    ASSUME InstallInv, NEW a \in Arrivals
    PROVE  /\ pkt[a] \in Packet /\ wire[a] \in Frame
           /\ out[a] \in Seq(Emission)
           /\ out \in [Arrivals -> Seq(Emission)] /\ pkt \in [Arrivals -> Packet]
           /\ Underway(a, pkt[a], out[a])
           /\ Accounted(a, pkt[a])
           /\ ForGroup(a)
           /\ TypeOK
  BY DEF InstallInv, TypeOK

LEMMA SplitsForHost ==
    ASSUME InstallInv, TablesRight, NEW a \in Arrivals, PacketForBfr(a)
    PROVE  \E d : Keeps(a, d)
  <1> DEFINE c == pkt[a]
             d == [c EXCEPT !.bs_remaining = c.bs \ BfrBm, !.port = HostPort,
                            !.needs_cloning = TRUE, !.decap = TRUE,
                            !.stage = "egress"]
  <1>1. c \in Packet /\ c.stage = "ingress" /\ c.eth = "BIER" /\ c.bs # {}
    BY BeforeStep DEF PacketForBfr, AtIngress, Found
  <1>2. Awaits(a, c, out[a])
    BY <1>1, BeforeStep DEF Underway
  <1>3. BfrId \in c.bs
    BY <1>1, TopBitIsSet DEF Packet, PacketForBfr, ForThisBfr
  <1>4. Becomes(a, d) /\ out' = out
    BY DEF PacketForBfr, ToEgress, Becomes
  <1>5. d \in Packet
    BY <1>1, RouterAssumption DEF Packet
  <1>6. /\ d.stage = "egress" /\ ~d.recirc /\ d.inst # "clone"
        /\ d.needs_cloning /\ d.decap /\ d.eth = "BIER" /\ d.bier
        /\ d.port = HostPort /\ d.bs_remaining = c.bs \ {BfrId}
    BY <1>1, <1>2 DEF Packet, Awaits, TablesRight
  <1> HIDE DEF d
  <1>7. Owed(a, d) = (c.bs \ {BfrId}) \cup {BfrId}
    BY <1>5, <1>6, PendingCases DEF Owed, ServedBy
  <1>8. Owed(a, c) = c.bs
    BY <1>1, PendingCases DEF Owed
  <1>9. Quiet(a, d)
    BY <1>3, <1>4, <1>7, <1>8 DEF Quiet
  <1>10. Split(a, d)
    BY <1>1, <1>2, <1>6, RouterAssumption DEF Split, Awaits, ServedBy
  <1>11. Clean(a, d)
    BY <1>6 DEF Clean
  <1> QED BY <1>4, <1>5, <1>6, <1>9, <1>10, <1>11 DEF Keeps, Underway

LEMMA SplitsForNeighbour ==
    ASSUME InstallInv, TablesRight, NEW a \in Arrivals, BiftAction(a)
    PROVE  \E d : Keeps(a, d)
  <1> DEFINE c == pkt[a]
             k == TopBit(c.bs)
             d == [c EXCEPT !.bs_remaining = c.bs \ Bift[k].f_bm,
                            !.port = Bift[k].nbr_port,
                            !.needs_cloning = TRUE,
                            !.bs = c.bs \cap Bift[k].f_bm,
                            !.stage = "egress"]
  <1>1. c \in Packet /\ c.stage = "ingress" /\ c.eth = "BIER"
    BY BeforeStep DEF BiftAction, AtIngress
  <1>2. Awaits(a, c, out[a])
    BY <1>1, BeforeStep DEF Underway
  <1>3. k \in DOMAIN Bift
    BY DEF BiftAction
  <1>4. Becomes(a, d) /\ out' = out
    BY DEF BiftAction, ToEgress, Becomes
  <1>5. Bift[k] \in [f_bm : SUBSET Bits, nbr_port : Ports]
    BY <1>3, RouterAssumption
  <1>6. /\ Bift[k].f_bm \in SUBSET Bits
        /\ Bift[k].nbr_port \in Ports /\ Bift[k].nbr_port # HostPort
    BY <1>3, <1>5 DEF TablesRight
  <1> HIDE DEF k
  <1>7. d \in Packet
    BY <1>1, <1>6 DEF Packet
  <1>8. /\ d.stage = "egress" /\ ~d.recirc /\ d.inst # "clone"
        /\ d.needs_cloning /\ d.decap = c.decap /\ d.eth = "BIER" /\ d.bier
        /\ d.port \in Ports /\ d.port # HostPort
        /\ d.bs = c.bs \cap Bift[k].f_bm
        /\ d.bs_remaining = c.bs \ Bift[k].f_bm
    BY <1>1, <1>2, <1>6 DEF Packet, Awaits
  <1> HIDE DEF d
  <1>9. ServedBy(d) = d.bs
    BY <1>8 DEF ServedBy
  <1>10. Owed(a, d) = d.bs_remaining \cup d.bs
    BY <1>7, <1>8, <1>9, PendingCases DEF Owed
  <1>11. Owed(a, c) = c.bs
    BY <1>1, PendingCases DEF Owed
  <1>12. Quiet(a, d)
    BY <1>4, <1>8, <1>10, <1>11 DEF Quiet
  <1>13. d.decap => BfrId \notin d.bs_remaining
    BY <1>2, <1>8 DEF Awaits
  <1>14. ServedBy(d) \cap d.bs_remaining = {}
    BY <1>8, <1>9
  <1>15. Split(a, d)
    BY <1>1, <1>2, <1>8, <1>13, <1>14 DEF Split, Awaits
  <1>16. Clean(a, c) => Clean(a, d)
    BY <1>1, <1>8 DEF Clean
  <1> QED BY <1>4, <1>7, <1>8, <1>12, <1>15, <1>16 DEF Keeps, Underway

LEMMA GivesUp ==
    ASSUME InstallInv, NEW a \in Arrivals, DropEmpty(a) \/ IpDrop(a)
    PROVE  \E d : Keeps(a, d)
  <1> DEFINE d == [pkt[a] EXCEPT !.stage = "done"]
  <1>1. Becomes(a, d) /\ out' = out
    BY DEF DropEmpty, IpDrop, Drop, Becomes
  <1>2. d \in Packet /\ d.stage = "done"
    BY BeforeStep DEF Packet
  <1> HIDE DEF d
  <1>3. Owed(a, d) = {}
    BY <1>2, PendingCases DEF Owed
  <1> QED BY <1>1, <1>2, <1>3 DEF Keeps, Quiet, Underway, Clean

LEMMA GoesOnWithoutPort ==
    ASSUME InstallInv, NEW a \in Arrivals, NoPortChosen(a)
    PROVE  \E d : Keeps(a, d)
  <1> DEFINE c == pkt[a]
             d == [c EXCEPT !.stage = "egress"]
  <1>1. c \in Packet /\ c.stage = "ingress" /\ c.eth \in {"BIER", "Other"}
    BY BeforeStep DEF NoPortChosen, AtIngress
  <1>2. Awaits(a, c, out[a])
    BY <1>1, BeforeStep DEF Underway
  <1>3. Becomes(a, d) /\ out' = out
    BY DEF NoPortChosen, ToEgress, Becomes
  <1>4. d \in Packet
    BY <1>1 DEF Packet
  <1>5. /\ d.stage = "egress" /\ ~d.recirc /\ d.inst # "clone" /\ ~d.needs_cloning
        /\ d.decap = c.decap /\ d.port = NullPort
        /\ d.bs_remaining = c.bs_remaining
    BY <1>1, <1>2 DEF Packet, Awaits
  <1> HIDE DEF d
  <1>6. Owed(a, d) = {}
    BY <1>4, <1>5, PendingCases DEF Owed
  <1>7. CASE ~c.decap
    <2>1. Idle(a, d, out'[a])
      BY <1>5, <1>7 DEF Idle, Passing
    <2>2. Clean(a, d)
      BY <1>5, <1>7 DEF Clean
    <2> QED BY <1>3, <1>4, <1>5, <1>6, <2>1, <2>2 DEF Keeps, Quiet, Underway
  <1>8. CASE c.decap
    <2>1. c.eth = "BIER" /\ Multicast(a) /\ Cloning /\ BfrId \notin c.bs_remaining
      BY <1>1, <1>2, <1>8 DEF Awaits
    <2>2. On("find_pos") /\ On("bift") /\ On("check_bfr_id")
      BY <2>1, CloningComesLate, BeforeStep
    <2>3. /\ c.bs # {}
          /\ TopBit(c.bs) # BfrId
          /\ TopBit(c.bs) \notin DOMAIN Bift
      BY <2>1, <2>2 DEF NoPortChosen, AtIngress, Found, ForThisBfr
    <2>4. TopBit(c.bs) \in c.bs
      BY <1>1, <2>3, TopBitIsSet DEF Packet
    <2>5. c.bs \subseteq Want(a)
      BY <1>1, <2>1, BeforeStep, PendingCases DEF Accounted, Owed
    <2>6. ~Known(a)
      BY <2>3, <2>4, <2>5 DEF Known
    <2>7. Astray(a, d)
      BY <1>5, <1>8, <2>1, <2>6 DEF Astray
    <2>8. ~Clean(a, c)
      BY <1>1, <1>8, <2>1 DEF Clean
    <2> QED BY <1>3, <1>4, <1>5, <1>6, <2>7, <2>8 DEF Keeps, Quiet, Underway
  <1> QED BY <1>7, <1>8

LEMMA Encapsulates ==
    ASSUME InstallInv, NEW a \in Arrivals, AddBierHeader(a)
    PROVE  \E d : Keeps(a, d)
  <1> DEFINE c == pkt[a]
             bs == BierIngress[wire[a].dst]
             d == [c EXCEPT !.bier = TRUE, !.bs = bs, !.eth = "BIER",
                            !.recirc = TRUE, !.stage = "egress"]
  <1>1. c \in Packet /\ c.stage = "ingress" /\ c.eth = "IPv4" /\ ~c.decap
    BY BeforeStep DEF AddBierHeader, AtIngress, EntersDomain
  <1>2. Awaits(a, c, out[a])
    BY <1>1, BeforeStep DEF Underway
  <1>3. wire[a].eth = "IPv4" /\ wire[a].dst \in DOMAIN BierIngress
    BY <1>1, <1>2 DEF AddBierHeader, EntersDomain, Awaits
  <1>4. bs \in SUBSET Bits
    BY <1>3, RouterAssumption
  <1>5. Multicast(a) /\ Want(a) = bs
    BY <1>3 DEF Multicast, Want
  <1>6. Becomes(a, d) /\ out' = out
    BY DEF AddBierHeader, ToEgress, Becomes
  <1> HIDE DEF bs
  <1>7. /\ d \in Packet /\ d.stage = "egress" /\ d.recirc /\ d.bs = bs
        /\ ~d.decap /\ ~d.needs_cloning
        /\ Encapsulated(a, d)
    BY <1>1, <1>2, <1>4, <1>5 DEF Packet, EtherType, Awaits, Encapsulated
  <1> HIDE DEF d
  <1>8. Owed(a, d) = bs
    BY <1>7, PendingCases DEF Owed
  <1>9. Owed(a, c) = bs
    BY <1>1, <1>5, PendingCases DEF Owed
  <1>10. Clean(a, d)
    BY <1>7 DEF Clean
  <1> QED BY <1>6, <1>7, <1>8, <1>9, <1>10 DEF Keeps, Quiet, Underway

LEMMA RoutesAsUnicast ==
    ASSUME InstallInv, TablesRight, NEW a \in Arrivals, IpForward(a)
    PROVE  \E d : Keeps(a, d)
  <1> DEFINE c == pkt[a]
             port == IF On("ip_forwarding") THEN Ipv4Lpm[wire[a].dst].port ELSE c.port
             d == [c EXCEPT !.port = port, !.stage = "egress"]
  <1>1. c \in Packet /\ c.stage = "ingress" /\ c.eth = "IPv4"
    BY BeforeStep DEF IpForward, AtIngress
  <1>2. Awaits(a, c, out[a])
    BY <1>1, BeforeStep DEF Underway
  <1>3. Becomes(a, d) /\ out' = out
    <2>1. pkt' = [pkt EXCEPT ![a] = d]
      <3>1. CASE On("ip_forwarding")
        BY <3>1 DEF IpForward, ToEgress
      <3>2. CASE ~On("ip_forwarding")
        <4>1. c \in Packet /\ pkt' = [pkt EXCEPT ![a] = [c EXCEPT !.stage = "egress"]]
          BY <1>1, <3>2 DEF IpForward, ToEgress
        <4>2. [c EXCEPT !.port = c.port, !.stage = "egress"] = [c EXCEPT !.stage = "egress"]
          BY <1>1 DEF Packet
        <4> QED BY <3>2, <4>1, <4>2
      <3> QED BY <3>1, <3>2
    <2> QED BY <2>1 DEF IpForward, ToEgress, Becomes
  <1>4. port \in Ports \cup {NullPort}
    BY <1>1, RouterAssumption DEF IpForward, HasRoute, Packet
  <1>5. On("ip_forwarding") => ~Multicast(a)
    BY BeforeStep DEF IpForward, ForGroup, TablesRight
  <1>6. ~c.decap
    BY <1>2, <1>5, CloningComesLate, BeforeStep DEF Awaits
  <1>7. out[a] = << >> /\ (Multicast(a) => port = NullPort)
    BY <1>1, <1>2, <1>5, <1>6 DEF Awaits
  <1> HIDE DEF port
  <1>8. d \in Packet
    BY <1>1, <1>4 DEF Packet
  <1>9. /\ d.stage = "egress" /\ ~d.recirc /\ d.inst # "clone" /\ ~d.needs_cloning
        /\ ~d.decap /\ d.port = port
    BY <1>1, <1>2, <1>4, <1>6 DEF Packet, Awaits
  <1> HIDE DEF d
  <1>10. Owed(a, d) = {}
    BY <1>8, <1>9, PendingCases DEF Owed
  <1>11. Idle(a, d, out'[a])
    BY <1>3, <1>7, <1>9 DEF Idle, Passing
  <1>12. Clean(a, d)
    BY <1>9 DEF Clean
  <1> QED BY <1>3, <1>8, <1>9, <1>10, <1>11, <1>12 DEF Keeps, Quiet, Underway

LEMMA EncapsulatedGoesRound ==
    ASSUME InstallInv, NEW a \in Arrivals, Egress(a), Encapsulated(a, pkt[a])
    PROVE  \E d : Keeps(a, d)
  <1> DEFINE c == pkt[a]
             d == [c EXCEPT !.stage = "ingress", !.inst = "recirc",
                            !.port = NullPort, !.bier = (c.eth = "BIER"),
                            !.recirc = FALSE]
  <1>1. c \in Packet /\ c.stage = "egress"
    BY BeforeStep DEF Egress, EgressClones, EgressRecirculates, EgressEnds
  <1>2. ~Clones(c) /\ EgressResult(c) = c /\ AfterClone(c) = c /\ ~Unsendable(c)
    BY DEF Encapsulated, Clones, EgressResult, AfterClone, Decapped, Unsendable
  <1>3. EgressRecirculates(a)
    BY <1>2 DEF Egress, EgressClones, EgressEnds, Encapsulated
  <1>4. Becomes(a, d) /\ out' = out
    BY <1>2, <1>3 DEF EgressRecirculates, Becomes
  <1>5. /\ d \in Packet /\ d.stage = "ingress" /\ d.eth = "BIER" /\ d.bs = c.bs
        /\ ~d.decap /\ ~d.needs_cloning
        /\ Awaits(a, d, out'[a])
    BY <1>1 DEF Packet, Encapsulated, Awaits
  <1> HIDE DEF d
  <1>6. Owed(a, d) = Owed(a, c)
    BY <1>1, <1>5, PendingCases DEF Encapsulated, Owed
  <1>7. Clean(a, d)
    BY <1>5 DEF Clean
  <1> QED BY <1>4, <1>5, <1>6, <1>7 DEF Keeps, Quiet, Underway

\* What the egress makes of a clone that goes round again.
LEMMA LeftAfterTables ==
    ASSUME TypeOK, NEW a \in Arrivals, NEW c \in Packet, Left(a, c),
           NEW e, e = EgressResult(c)
    PROVE  /\ e \in Packet
           /\ e.recirc /\ ~e.needs_cloning
           /\ e.bs = c.bs_remaining /\ e.bs_remaining = c.bs_remaining
           /\ e.eth # "Other"
           /\ e.decap \/ e.eth = "BIER"
           /\ e.decap => c.decap
           /\ e.decap /\ On("do_decap") => e.eth = "IPv4"
  <1> DEFINE r == Restored(c)
             q == Requeued(r)
  <1>1. /\ r \in Packet /\ r.needs_cloning /\ r.bs_remaining = c.bs_remaining
        /\ r.eth # "Other" /\ (r.decap \/ r.eth = "BIER") /\ (r.decap => c.decap)
    <2>1. CASE c.decap /\ On("do_restore_bier")
      <3>1. r = [c EXCEPT !.bier = TRUE, !.bs = c.bs_remaining, !.decap = FALSE,
                          !.eth = "BIER"]
        BY <2>1 DEF Restored
      <3> QED BY <3>1 DEF Packet, EtherType, Left, Remainder
    <2>2. CASE ~(c.decap /\ On("do_restore_bier"))
      <3>1. r = c
        BY <2>2 DEF Restored
      <3> QED BY <3>1 DEF Left, Remainder
    <2> QED BY <2>1, <2>2
  <1> HIDE DEF r
  <1>2. On("do_clone_recirculation")
    BY CloningComesLate DEF Left
  <1>3. /\ q \in Packet /\ ~q.needs_cloning /\ q.recirc
        /\ q.bs = c.bs_remaining /\ q.bs_remaining = c.bs_remaining
        /\ q.eth # "Other" /\ (q.decap \/ q.eth = "BIER") /\ (q.decap => c.decap)
    <2>1. q = [r EXCEPT !.needs_cloning = FALSE, !.bs = r.bs_remaining, !.recirc = TRUE]
      BY <1>1, <1>2 DEF Requeued
    <2> QED BY <1>1, <2>1 DEF Packet
  <1> HIDE DEF q
  <1>4. e = Decapped(q)
    BY DEF EgressResult, AfterClone, Left, Remainder, q, r
  <1>5. CASE q.decap /\ On("do_decap")
    <2>1. e = [q EXCEPT !.eth = "IPv4", !.bier = FALSE]
      BY <1>4, <1>5 DEF Decapped
    <2> QED BY <1>3, <1>5, <2>1 DEF Packet, EtherType
  <1>6. CASE ~(q.decap /\ On("do_decap"))
    <2>1. e = q
      BY <1>4, <1>6 DEF Decapped
    <2> QED BY <1>3, <1>6, <2>1
  <1> QED BY <1>5, <1>6

LEMMA LeftGoesRound ==
    ASSUME InstallInv, NEW a \in Arrivals, Egress(a), Left(a, pkt[a]),
           pkt[a].stage = "egress"
    PROVE  \E d : Keeps(a, d)
  <1> DEFINE c == pkt[a]
             e == EgressResult(c)
  <1>1. c \in Packet /\ TypeOK
    BY BeforeStep
  <1>2. /\ e \in Packet
        /\ e.recirc /\ ~e.needs_cloning
        /\ e.bs = c.bs_remaining /\ e.bs_remaining = c.bs_remaining
        /\ e.eth # "Other" /\ (e.decap \/ e.eth = "BIER") /\ (e.decap => c.decap)
        /\ e.decap /\ On("do_decap") => e.eth = "IPv4"
    BY <1>1, LeftAfterTables
  <1>3. ~Clones(c)
    BY DEF Clones, Left, Remainder
  <1>4. /\ c.inst = "clone" /\ c.needs_cloning /\ ~c.recirc /\ Cloning
        /\ Multicast(a) /\ (c.decap => BfrId \notin c.bs_remaining)
    BY DEF Left, Remainder
  <1>5. Owed(a, c) = c.bs_remaining
    BY <1>1, <1>4, PendingCases DEF Owed
  <1>6. CASE EgressRecirculates(a)
    <2> DEFINE d == [e EXCEPT !.stage = "ingress", !.inst = "recirc",
                              !.port = NullPort, !.bier = (e.eth = "BIER"),
                              !.recirc = FALSE]
    <2>1. Becomes(a, d) /\ out' = out
      BY <1>6 DEF EgressRecirculates, Becomes
    <2> HIDE DEF e
    <2>2. /\ d \in Packet /\ d.stage = "ingress" /\ d.inst = "recirc"
          /\ d.port = NullPort /\ ~d.recirc /\ ~d.needs_cloning
          /\ d.eth = e.eth /\ d.decap = e.decap /\ (d.eth = "BIER" => d.bier)
          /\ d.bs = e.bs /\ d.bs_remaining = e.bs_remaining
      BY <1>2 DEF Packet
    <2> HIDE DEF d
    <2>3. Awaits(a, d, out'[a])
      BY <1>2, <1>4, <2>2 DEF Awaits
    <2>4. Owed(a, d) \subseteq c.bs_remaining
      <3>1. CASE d.eth = "BIER"
        BY <1>2, <2>2, <3>1, PendingCases DEF Owed
      <3>2. CASE d.eth # "BIER"
        BY <1>2, <2>2, <3>2 DEF Owed, PendingIn
      <3> QED BY <3>1, <3>2
    <2>5. On("do_decap") => Clean(a, d)
      BY <1>2, <2>2 DEF Clean
    <2> QED BY <1>5, <2>1, <2>2, <2>3, <2>4, <2>5 DEF Keeps, Quiet, Underway
  <1>7. CASE EgressEnds(a)
    <2> DEFINE d == [c EXCEPT !.stage = "done"]
    <2>1. Becomes(a, d)
      BY <1>7 DEF EgressEnds, Becomes
    <2>2. out' = out
      BY <1>2, <1>7 DEF EgressEnds, Transmit
    <2>3. d \in Packet /\ d.stage = "done"
      BY <1>1 DEF Packet
    <2> HIDE DEF d
    <2>4. Owed(a, d) = {}
      BY <2>3, PendingCases DEF Owed
    <2> QED BY <2>1, <2>2, <2>3, <2>4 DEF Keeps, Quiet, Underway, Clean
  <1> QED BY <1>3, <1>6, <1>7 DEF Egress, EgressClones

LEMMA SplitSends ==
    ASSUME InstallInv, NEW a \in Arrivals, Egress(a), Split(a, pkt[a]),
           pkt[a].stage = "egress"
    PROVE  \E d : Keeps(a, d)
  <1> DEFINE c == pkt[a]
             e == EgressResult(c)
             f == [port |-> e.port, eth |-> e.eth, bier |-> e.bier, bs |-> e.bs]
  <1>1. c \in Packet /\ e \in Packet
    BY BeforeStep, EgressTypes
  <1>2. AfterClone(c) = c /\ ~Unsendable(c)
    BY DEF Split, AfterClone, Unsendable
  <1>3. /\ e.port = c.port /\ e.bs = c.bs /\ e.bs_remaining = c.bs_remaining
        /\ e.stage = "egress" /\ ~e.recirc /\ e.needs_cloning
        /\ e.decap = c.decap
        /\ IF c.decap /\ On("do_decap") THEN e.eth = "IPv4" /\ ~e.bier
                                        ELSE e.eth = "BIER" /\ e.bier
    <2>1. e = IF c.decap /\ On("do_decap")
              THEN [c EXCEPT !.eth = "IPv4", !.bier = FALSE] ELSE c
      BY <1>2 DEF EgressResult, Decapped
    <2>2. CASE c.decap /\ On("do_decap")
      BY <1>1, <2>1, <2>2 DEF Packet, Split
    <2>3. CASE ~(c.decap /\ On("do_decap"))
      BY <1>1, <2>1, <2>3 DEF Split
    <2> QED BY <2>2, <2>3
  <1>4. Transmit(a, c) => out' = [out EXCEPT ![a] = Append(@, f)]
    BY <1>2, <1>3 DEF Transmit, Split
  <1> HIDE DEF e
  <1>5. /\ f \in Emission /\ f.port = c.port /\ f.bs = c.bs
        /\ f.eth = e.eth /\ f.bier = e.bier
    BY <1>1, <1>3 DEF Emission, Packet, Split
  <1> HIDE DEF f
  <1>6. ServedBy(f) = ServedBy(c)
    BY <1>5 DEF ServedBy
  <1>7. Owed(a, c) = c.bs_remaining \cup ServedBy(c)
    BY <1>1, PendingCases DEF Owed, Split
  <1>8. /\ \A i \in DOMAIN out[a] : ServedBy(out[a][i]) \cap ServedBy(f) \subseteq Spare(a)
        /\ c.bs_remaining \cap ServedBy(f) = {}
    BY <1>6, <1>7, BeforeStep DEF Accounted, Split
  <1>9. On("do_decap") /\ Clean(a, c) => HeaderFits(f)
    <2>1. ASSUME On("do_decap"), Clean(a, c)
          PROVE  HeaderFits(f)
      <3>1. c.decap <=> c.port = HostPort
        BY <2>1 DEF Clean, Split
      <3>2. e.bier \in BOOLEAN
        BY <1>1 DEF Packet
      <3>3. CASE c.decap
        <4>1. f.bier = FALSE /\ f.eth = "IPv4" /\ f.port = HostPort
          BY <1>3, <1>5, <2>1, <3>1, <3>2, <3>3
        <4> QED BY <4>1 DEF HeaderFits
      <3>4. CASE ~c.decap
        <4>1. f.bier = TRUE /\ f.eth = "BIER" /\ f.port # HostPort
          BY <1>3, <1>5, <3>1, <3>2, <3>4
        <4> QED BY <4>1 DEF HeaderFits
      <3> QED BY <3>3, <3>4
    <2> QED BY <2>1
  <1>10. ASSUME NEW d \in Packet, Becomes(a, d), Transmit(a, c),
                Underway(a, d, out'[a]), Clean(a, d),
                Owed(a, d) \subseteq c.bs_remaining
         PROVE  Keeps(a, d)
    <2>1. Pays(a, d, f)
      BY <1>4, <1>5, <1>7, <1>8, <1>10 DEF Pays
    <2> QED BY <1>9, <1>10, <2>1 DEF Keeps
  <1>11. CASE EgressClones(a)
    <2> DEFINE d == [e EXCEPT !.inst = "clone", !.port = HostPort, !.recirc = FALSE]
    <2>1. Becomes(a, d) /\ Transmit(a, c)
      BY <1>11 DEF EgressClones, Becomes, e
    <2>2. /\ d \in Packet /\ d.stage = "egress" /\ d.inst = "clone" /\ ~d.recirc
          /\ d.needs_cloning /\ d.decap = c.decap /\ d.eth = e.eth
          /\ d.bs_remaining = c.bs_remaining
      BY <1>1, <1>3, RouterAssumption DEF Packet
    <2> HIDE DEF d
    <2>3. Left(a, d)
      BY <1>3, <1>11, <2>2
         DEF Left, Remainder, Split, Cloning, EgressClones, Clones
    <2>4. Owed(a, d) = c.bs_remaining
      BY <2>2, PendingCases DEF Owed
    <2>5. Clean(a, d)
      BY <2>2 DEF Clean
    <2> QED BY <1>10, <2>1, <2>2, <2>3, <2>4, <2>5 DEF Underway
  <1>12. CASE EgressEnds(a)
    <2> DEFINE d == [c EXCEPT !.stage = "done"]
    <2>1. Becomes(a, d) /\ Transmit(a, c)
      BY <1>12 DEF EgressEnds, Becomes
    <2>2. d \in Packet /\ d.stage = "done"
      BY <1>1 DEF Packet
    <2> HIDE DEF d
    <2>3. Owed(a, d) = {}
      BY <2>2, PendingCases DEF Owed
    <2> QED BY <1>10, <2>1, <2>2, <2>3 DEF Underway, Clean
  <1> QED BY <1>3, <1>11, <1>12 DEF Egress, EgressRecirculates, e

LEMMA AstrayEnds ==
    ASSUME InstallInv, NEW a \in Arrivals, Egress(a), Astray(a, pkt[a]),
           pkt[a].stage = "egress"
    PROVE  \E d : Keeps(a, d)
  <1> DEFINE c == pkt[a]
             e == EgressResult(c)
             f == [port |-> e.port, eth |-> e.eth, bier |-> e.bier, bs |-> e.bs]
             done == [c EXCEPT !.stage = "done"]
  <1>1. c \in Packet /\ e \in Packet
    BY BeforeStep, EgressTypes
  <1>2. /\ e.port = c.port /\ e.stage = "egress" /\ ~e.recirc /\ ~e.needs_cloning
        /\ c.inst # "clone" => e.decap /\ e.bs_remaining = c.bs_remaining
    <2>1. ASSUME NEW r \in Packet, ~r.needs_cloning, ~r.recirc, r.stage = "egress"
          PROVE  /\ Requeued(r) = r
                 /\ Restored(r).port = r.port /\ ~Restored(r).needs_cloning
                 /\ ~Restored(r).recirc /\ Restored(r).stage = "egress"
                 /\ Decapped(r).port = r.port /\ ~Decapped(r).needs_cloning
                 /\ ~Decapped(r).recirc /\ Decapped(r).stage = "egress"
                 /\ Decapped(r).decap = r.decap
                 /\ Decapped(r).bs_remaining = r.bs_remaining
      <3>1. Requeued(r) = r
        BY <2>1 DEF Requeued
      <3>2. /\ Restored(r).port = r.port /\ ~Restored(r).needs_cloning
            /\ ~Restored(r).recirc /\ Restored(r).stage = "egress"
        BY <2>1 DEF Restored, Packet
      <3>3. /\ Decapped(r).port = r.port /\ ~Decapped(r).needs_cloning
            /\ ~Decapped(r).recirc /\ Decapped(r).stage = "egress"
            /\ Decapped(r).decap = r.decap
            /\ Decapped(r).bs_remaining = r.bs_remaining
        BY <2>1 DEF Decapped, Packet
      <3> QED BY <3>1, <3>2, <3>3
    <2>2. CASE c.inst = "clone"
      <3>1. Restored(c) \in Packet
        BY <1>1, EgressTypes
      <3>2. e = Decapped(Restored(c))
        BY <1>1, <2>1, <2>2, <3>1 DEF EgressResult, AfterClone, Astray
      <3> QED BY <1>1, <2>1, <2>2, <3>1, <3>2 DEF Astray
    <2>3. CASE c.inst # "clone"
      <3>1. e = Decapped(c)
        BY <2>3 DEF EgressResult, AfterClone
      <3> QED BY <1>1, <2>1, <3>1 DEF Astray
    <2> QED BY <2>2, <2>3
  <1>3. ~Clean(a, c)
    BY DEF Clean, Astray
  <1>4. done \in Packet /\ done.stage = "done"
    BY <1>1 DEF Packet
  <1> HIDE DEF done
  <1>5. Owed(a, done) = {}
    BY <1>4, PendingCases DEF Owed
  <1>6. EgressEnds(a) => Becomes(a, done)
    BY DEF EgressEnds, Becomes, done
  <1>7. ASSUME c.port = NullPort, Transmit(a, c)
        PROVE  out' = out
    BY <1>2, <1>7, RouterAssumption DEF Transmit
  <1>8. CASE c.inst = "clone"
    <2>1. EgressEnds(a)
      BY <1>2, <1>8 DEF Egress, EgressClones, EgressRecirculates, Clones
    <2>2. \/ out' = out
          \/ out' = [out EXCEPT ![a] = Append(@, f)]
      BY <2>1 DEF EgressEnds, Transmit
    <2>3. c.port = HostPort /\ HostPort \in Ports /\ ~Known(a)
      BY <1>8, RouterAssumption DEF Astray
    <2> HIDE DEF e
    <2>4. f \in Emission /\ f.port = HostPort
      BY <1>1, <1>2, <2>3 DEF Emission, Packet
    <2> HIDE DEF f
    <2>5. ServedBy(f) = {BfrId} /\ Spare(a) = {BfrId}
      BY <2>3, <2>4 DEF ServedBy, Spare
    <2>6. \A i \in DOMAIN out[a] : ServedBy(out[a][i]) \cap ServedBy(f) \subseteq Spare(a)
      BY <2>5
    <2>7. Quiet(a, done) \/ Pays(a, done, f)
      BY <1>5, <2>2, <2>4, <2>6 DEF Quiet, Pays
    <2> QED BY <1>3, <1>4, <1>6, <2>1, <2>7 DEF Keeps, Underway
  <1>9. CASE c.inst # "clone" /\ EgressClones(a)
    <2> DEFINE d == [e EXCEPT !.inst = "clone", !.port = HostPort, !.recirc = FALSE]
    <2>1. Becomes(a, d) /\ Transmit(a, c)
      BY <1>9 DEF EgressClones, Becomes
    <2>2. out' = out
      BY <1>7, <1>9, <2>1 DEF Astray
    <2> HIDE DEF e
    <2>3. /\ d \in Packet /\ d.stage = "egress" /\ d.inst = "clone" /\ ~d.recirc
          /\ d.decap /\ ~d.needs_cloning /\ d.port = HostPort
          /\ d.bs_remaining = c.bs_remaining
      BY <1>1, <1>2, <1>9, RouterAssumption DEF Packet
    <2> HIDE DEF d
    <2>4. Astray(a, d)
      BY <2>3 DEF Astray
    <2>5. Owed(a, d) = {}
      BY <2>3 DEF Owed
    <2> QED BY <1>3, <2>1, <2>2, <2>3, <2>4, <2>5 DEF Keeps, Quiet, Underway
  <1>10. CASE c.inst # "clone" /\ EgressEnds(a)
    <2>1. out' = out
      BY <1>7, <1>10 DEF EgressEnds, Astray
    <2> QED BY <1>3, <1>4, <1>5, <1>6, <1>10, <2>1 DEF Keeps, Quiet, Underway
  <1> QED BY <1>2, <1>8, <1>9, <1>10 DEF Egress, EgressRecirculates

LEMMA IdleEnds ==
    ASSUME InstallInv, NEW a \in Arrivals, Egress(a), Idle(a, pkt[a], out[a]),
           pkt[a].stage = "egress"
    PROVE  \E d : Keeps(a, d)
  <1> DEFINE c == pkt[a]
             d == [c EXCEPT !.stage = "done"]
             f == [port |-> c.port, eth |-> c.eth, bier |-> c.bier, bs |-> c.bs]
  <1>1. c \in Packet /\ out[a] \in Seq(Emission)
    BY BeforeStep
  <1>2. ~Clones(c) /\ EgressResult(c) = c
    BY DEF Idle, Passing, Clones, EgressResult, AfterClone, Decapped
  <1>3. EgressEnds(a)
    BY <1>2 DEF Egress, EgressClones, EgressRecirculates, Idle, Passing
  <1>4. Becomes(a, d)
    BY <1>3 DEF EgressEnds, Becomes
  <1>5. d \in Packet /\ d.stage = "done"
    BY <1>1 DEF Packet
  <1> HIDE DEF d
  <1>6. Owed(a, d) = {}
    BY <1>5, PendingCases DEF Owed
  <1>7. CASE out' = out
    BY <1>4, <1>5, <1>6, <1>7 DEF Keeps, Quiet, Underway, Clean
  <1>8. CASE c.port \in Ports /\ out' = [out EXCEPT ![a] = Append(@, f)]
    <2>1. out[a] = << >> /\ ~Multicast(a)
      BY <1>8, RouterAssumption DEF Idle, Passing
    <2>2. f \in Emission
      BY <1>1, <1>8 DEF Emission, Packet
    <2> HIDE DEF f
    <2>3. Pays(a, d, f)
      BY <1>6, <1>8, <2>1, <2>2 DEF Pays
    <2> QED BY <1>4, <1>5, <2>1, <2>3 DEF Keeps, Underway, Clean
  <1> QED BY <1>2, <1>3, <1>7, <1>8 DEF EgressEnds, Transmit

LEMMA HandleKeeps ==
    ASSUME InstallInv, TablesRight, NEW a \in Arrivals, Handle(a)
    PROVE  \E d : Keeps(a, d)
  <1>1. CASE Ingress(a)
    BY <1>1, SplitsForHost, SplitsForNeighbour, GivesUp, GoesOnWithoutPort,
       Encapsulates, RoutesAsUnicast DEF Ingress
  <1>2. CASE Egress(a)
    <2>1. pkt[a].stage = "egress"
      BY <1>2 DEF Egress, EgressClones, EgressRecirculates, EgressEnds
    <2> QED BY <1>2, <2>1, BeforeStep, EncapsulatedGoesRound, LeftGoesRound,
               SplitSends, AstrayEnds, IdleEnds DEF Underway
  <1> QED BY <1>1, <1>2 DEF Handle

-----------------------------------------------------------------------------
(* The invariant.                                                          *)

\* The wire and the tables being the same, what is said of a packet depends on
\* its live copy and its frames only.
LEMMA SameTables ==
    ASSUME wire' = wire, installed' = installed, NEW b \in Arrivals
    PROVE  /\ Underway(b, pkt[b], out[b])' <=> Underway(b, pkt'[b], out'[b])
           /\ Owed(b, pkt[b])' = Owed(b, pkt'[b])
           /\ Want(b)' = Want(b) /\ Spare(b)' = Spare(b)
           /\ ForGroup(b)' <=> ForGroup(b)
           /\ Multicast(b)' <=> Multicast(b)
  <1>1. /\ Multicast(b)' <=> Multicast(b)
        /\ Want(b)' = Want(b)
    BY DEF Multicast, Want
  <1>2. (Known(b)' <=> Known(b)) /\ (Cloning' <=> Cloning)
    BY <1>1 DEF Known, Cloning, On
  <1>3. Underway(b, pkt[b], out[b])' <=> Underway(b, pkt'[b], out'[b])
    BY <1>1, <1>2 DEF Underway, Awaits, Encapsulated, Split, Left, Remainder,
                      Astray, Idle, Passing, ServedBy
  <1>4. Owed(b, pkt[b])' = Owed(b, pkt'[b])
    BY <1>1 DEF Owed, PendingIn, ServedBy
  <1>5. Spare(b)' = Spare(b) /\ (ForGroup(b)' <=> ForGroup(b))
    BY <1>1, <1>2 DEF Spare, ForGroup
  <1> QED BY <1>1, <1>3, <1>4, <1>5

LEMMA PaysKeepsApart ==
    ASSUME InstallInv, NEW a \in Arrivals, NEW d, NEW f,
           Becomes(a, d), Pays(a, d, f)
    PROVE  (Accounted(a, pkt[a]) /\ Apart(a))'
  <1>1. /\ pkt'[a] = d /\ out'[a] = Append(out[a], f)
        /\ wire' = wire /\ installed' = installed
    BY BeforeStep DEF Becomes, Pays
  <1>2. /\ Owed(a, pkt[a])' = Owed(a, d)
        /\ Want(a)' = Want(a) /\ Spare(a)' = Spare(a)
    BY <1>1, SameTables
  <1>3. /\ \A i \in DOMAIN out'[a] :
               out'[a][i] = f \/ (i \in DOMAIN out[a] /\ out'[a][i] = out[a][i])
        /\ \A i, j \in DOMAIN out'[a] :
               i # j => i \in DOMAIN out[a] \/ j \in DOMAIN out[a]
        /\ \A i \in DOMAIN out[a] : out'[a][i] = out[a][i]
    <2>1. /\ out[a] \in Seq(Emission) /\ f \in Emission
          /\ Len(out[a]) \in Nat
      BY BeforeStep DEF Pays
    <2>2. /\ DOMAIN out[a] = 1 .. Len(out[a])
          /\ DOMAIN out'[a] = 1 .. Len(out[a]) + 1
          /\ \A i \in 1 .. Len(out[a]) : out'[a][i] = out[a][i]
          /\ out'[a][Len(out[a]) + 1] = f
      BY <1>1, <2>1, AppendProperties
    <2> QED BY <2>1, <2>2
  <1>4. Accounted(a, pkt[a]) /\ Apart(a)
    BY DEF InstallInv
  <1>5. \A e : ServedBy(e)' = ServedBy(e)
    BY DEF ServedBy
  <1>6. Accounted(a, pkt[a])'
    BY <1>2, <1>3, <1>4 DEF Accounted, Pays, ServedBy
  <1>7. ASSUME NEW i \in DOMAIN out'[a], NEW j \in DOMAIN out'[a], i # j
        PROVE  ServedBy(out'[a][i]) \cap ServedBy(out'[a][j]) \subseteq Spare(a)
    <2>1. CASE i \in DOMAIN out[a] /\ j \in DOMAIN out[a]
      BY <1>3, <1>4, <1>7, <2>1 DEF Apart
    <2>2. CASE i \in DOMAIN out[a] /\ j \notin DOMAIN out[a]
      BY <1>3, <2>2 DEF Pays
    <2>3. CASE i \notin DOMAIN out[a] /\ j \in DOMAIN out[a]
      BY <1>3, <2>3 DEF Pays
    <2> QED BY <1>3, <1>7, <2>1, <2>2, <2>3
  <1>8. Apart(a)'
    BY <1>2, <1>7 DEF Apart, ServedBy
  <1> QED BY <1>6, <1>8

LEMMA HandlePreserves ==
    ASSUME InstallInv, TypeOK', NEW a \in Arrivals, NEW d, Keeps(a, d)
    PROVE  InstallInv'
  <1>1. pkt'[a] = d /\ \A b \in Arrivals \ {a} : pkt'[b] = pkt[b]
    BY BeforeStep DEF Keeps, Becomes
  <1>2. wire' = wire /\ installed' = installed
    BY DEF Keeps, Becomes
  <1>3. \A b \in Arrivals \ {a} : out'[b] = out[b]
    BY BeforeStep DEF Keeps, Quiet, Pays
  <1>4. ASSUME NEW b \in Arrivals, pkt'[b] = pkt[b], out'[b] = out[b]
        PROVE  /\ Underway(b, pkt[b], out[b])'
               /\ (Accounted(b, pkt[b]) /\ Apart(b))'
    BY <1>2, <1>4, SameTables DEF InstallInv, Accounted, Apart, ServedBy
  <1>5. Underway(a, pkt[a], out[a])' /\ (Accounted(a, pkt[a]) /\ Apart(a))'
    <2>1. Underway(a, pkt[a], out[a])'
      BY <1>1, <1>2, SameTables DEF Keeps
    <2>2. CASE Quiet(a, d)
      <3>1. Owed(a, pkt[a])' = Owed(a, d) /\ Want(a)' = Want(a) /\ Spare(a)' = Spare(a)
        BY <1>1, <1>2, SameTables
      <3>2. Accounted(a, pkt[a]) /\ Apart(a)
        BY DEF InstallInv
      <3> QED BY <2>1, <2>2, <3>1, <3>2 DEF Quiet, Accounted, Apart, ServedBy
    <2>3. CASE \E f : Pays(a, d, f)
      BY <2>1, <2>3, PaysKeepsApart DEF Keeps
    <2> QED BY <2>2, <2>3 DEF Keeps
  <1>6. ASSUME NEW b \in Arrivals
        PROVE  ForGroup(b)'
    BY <1>2, SameTables DEF InstallInv
  <1> QED BY <1>1, <1>3, <1>4, <1>5, <1>6 DEF InstallInv

LEMMA InstallPreserves ==
    ASSUME InstallInv, TypeOK', Install
    PROVE  InstallInv'
  <1>1. wire' = wire /\ pkt' = pkt /\ out' = out
    BY DEF Install
  <1>2. Cloning => Cloning'
    BY FilesStay DEF InstallInv, Cloning
  <1>3. ASSUME NEW b \in Arrivals
        PROVE  /\ Underway(b, pkt[b], out[b])'
               /\ (Accounted(b, pkt[b]) /\ Apart(b) /\ ForGroup(b))'
    <2>1. /\ Multicast(b)' <=> Multicast(b)
          /\ Want(b)' = Want(b)
      BY <1>1 DEF Multicast, Want
    <2>2. (Known(b)' <=> Known(b)) /\ (ForGroup(b)' <=> ForGroup(b))
      BY <1>1, <2>1 DEF Known, ForGroup
    <2>3. Underway(b, pkt[b], out[b])'
      BY <1>1, <1>2, <2>1, <2>2, BeforeStep
         DEF Underway, Awaits, Encapsulated, Split, Left, Remainder, Astray, Idle,
             Passing, ServedBy
    <2>4. Owed(b, pkt[b])' = Owed(b, pkt[b]) /\ Spare(b)' = Spare(b)
      BY <1>1, <2>1, <2>2 DEF Owed, PendingIn, ServedBy, Spare
    <2> QED BY <1>1, <2>1, <2>2, <2>3, <2>4 DEF InstallInv, Accounted, Apart, ServedBy
  <1> QED BY <1>3 DEF InstallInv

LEMMA InstallInvInductive ==
    ASSUME TablesRight, InstallInv, [Next]_vars
    PROVE  InstallInv'
  <1>1. TypeOK'
    BY TypeOKInductive DEF InstallInv
  <1>2. CASE UNCHANGED vars
    <2>1. /\ wire' = wire /\ installed' = installed /\ pkt' = pkt /\ out' = out
      BY <1>2 DEF vars
    <2> QED BY <1>1, <2>1, SameTables DEF InstallInv, Accounted, Apart, ServedBy
  <1>3. CASE Install
    BY <1>1, <1>3, InstallPreserves
  <1>4. ASSUME NEW a \in Arrivals, Handle(a)
        PROVE  InstallInv'
    BY <1>1, <1>4, HandleKeeps, HandlePreserves
  <1> QED BY <1>2, <1>3, <1>4 DEF Next

LEMMA InstallInvInitially ==
    ASSUME Init
    PROVE  InstallInv
  <1>1. TypeOK
    BY TypeOKInitially
  <1>2. ASSUME NEW a \in Arrivals
        PROVE  /\ Underway(a, pkt[a], out[a]) /\ ForGroup(a)
               /\ Accounted(a, pkt[a]) /\ Apart(a)
    <2>1. pkt[a] = Received(wire[a]) /\ out[a] = << >> /\ pkt[a] \in Packet
      BY <1>1 DEF Init, TypeOK
    <2>2. wire[a].eth = "BIER" => wire[a].dst \in DOMAIN BierIngress
      BY DEF Init
    <2>3. Underway(a, pkt[a], out[a])
      <3>1. /\ pkt[a].stage = "ingress" /\ pkt[a].inst = "normal"
            /\ pkt[a].port = NullPort /\ pkt[a].eth = wire[a].eth
            /\ pkt[a].bier = (wire[a].eth = "BIER")
            /\ ~pkt[a].needs_cloning /\ ~pkt[a].decap /\ ~pkt[a].recirc
        BY <2>1 DEF Received
      <3>2. Awaits(a, pkt[a], out[a])
        BY <2>1, <3>1 DEF Awaits, Multicast
      <3> QED BY <3>1, <3>2 DEF Underway
    <2>4. Owed(a, pkt[a]) = Want(a)
      BY <2>1, PendingCases DEF Received, Owed, Want
    <2> QED BY <2>1, <2>2, <2>3, <2>4 DEF ForGroup, Multicast, Accounted, Apart
  <1> QED BY <1>1, <1>2 DEF InstallInv

LEMMA InstallInvHolds ==
    ASSUME TablesRight
    PROVE  Spec => []InstallInv
  BY InstallInvInitially, InstallInvInductive, PTL DEF Spec

-----------------------------------------------------------------------------
(* What it says of the window.                                             *)

\* However far the script is, no bit is served by two frames, except that the
\* host may get a packet with an unknown bit again (bfr.p4:53-74, 193-205;
\* insert_all.bash).
THEOREM ServedOnceWhileInstallingHolds ==
    ASSUME TablesRight
    PROVE  Spec => []ServedOnceWhileInstalling
  <1>1. InstallInv => ServedOnceWhileInstalling
    BY DEF InstallInv, Apart, Spare, ServedOnceWhileInstalling
  <1> QED BY <1>1, InstallInvHolds, PTL

\* Nor does a packet go round with the bit of the router, once it has been to
\* the host, in the tables' first moments or later (bfr.p4:193-205).
THEOREM OwnBitClearedWhileInstalling ==
    ASSUME TablesRight
    PROVE  Spec => []OwnBitCleared
  <1>1. InstallInv => OwnBitCleared
    BY DEF InstallInv, Underway, Encapsulated, Split, Left, Remainder, Astray, Idle,
           Passing, OwnBitCleared
  <1> QED BY <1>1, InstallInvHolds, PTL

LEMMA CleanStays ==
    ASSUME TablesRight, InstallInv, [Next]_vars, NEW a \in Arrivals,
           On("do_decap"), Clean(a, pkt[a]), Confined(a)
    PROVE  On("do_decap")' /\ Clean(a, pkt[a])' /\ Confined(a)'
  <1>1. CASE UNCHANGED vars
    BY <1>1 DEF vars, On, Clean, Confined, Multicast
  <1>2. CASE Install
    <2>1. On("do_decap")'
      BY <1>2, FilesStay DEF InstallInv
    <2> QED BY <1>2, <2>1 DEF Install, Clean, Confined, Multicast
  <1>3. ASSUME NEW b \in Arrivals, Handle(b)
        PROVE  On("do_decap")' /\ Clean(a, pkt[a])' /\ Confined(a)'
    <2>1. PICK d : Keeps(b, d)
      BY <1>3, HandleKeeps
    <2>2. wire' = wire /\ installed' = installed
      BY <2>1 DEF Keeps, Becomes
    <2>3. On("do_decap")' /\ (Multicast(a)' <=> Multicast(a))
      BY <2>2 DEF On, Multicast
    <2>4. CASE b # a
      <3>1. pkt'[a] = pkt[a] /\ out'[a] = out[a]
        BY <2>1, <2>4, BeforeStep DEF Keeps, Becomes, Quiet, Pays
      <3> QED BY <2>3, <3>1 DEF Clean, Confined
    <2>5. CASE b = a
      <3>1. /\ Clean(a, d)
            /\ Multicast(a) => \/ out' = out
                               \/ \E f : Pays(a, d, f) /\ HeaderFits(f)
        BY <2>1, <2>5 DEF Keeps
      <3>2. pkt'[a] = d
        BY <2>1, <2>5, BeforeStep DEF Keeps, Becomes
      <3>3. Confined(a)'
        <4>1. CASE ~Multicast(a) \/ out' = out
          BY <2>3, <4>1 DEF Confined
        <4>2. ASSUME NEW f, Pays(a, d, f), HeaderFits(f)
              PROVE  Confined(a)'
          <5>1. out'[a] = Append(out[a], f) /\ f \in Emission /\ out[a] \in Seq(Emission)
            BY <4>2, BeforeStep DEF Pays
          <5>2. \A i \in DOMAIN out'[a] :
                    out'[a][i] = f \/ (i \in DOMAIN out[a] /\ out'[a][i] = out[a][i])
            BY <5>1
          <5> QED BY <2>3, <4>2, <5>2 DEF Confined, HeaderFits
        <4> QED BY <3>1, <4>1, <4>2
      <3>4. Clean(a, pkt[a])'
        BY <3>1, <3>2 DEF Clean
      <3> QED BY <2>3, <3>3, <3>4
    <2> QED BY <2>4, <2>5
  <1> QED BY <1>1, <1>2, <1>3 DEF Next

\* The header of a packet that is first looked at with do_decap in place goes
\* with the port of each of its frames, although do_restore_bier is still to
\* come (bfr.p4:53-84, 130-150; insert_all.bash).
THEOREM HeaderConfinedOnceFilledHolds ==
    ASSUME TablesRight
    PROVE  Spec => HeaderConfinedOnceFilled
  <1>1. ASSUME NEW a \in Arrivals
        PROVE  Spec => [](On("do_decap") /\ pkt[a] = Received(wire[a]) => []Confined(a))
    <2> DEFINE Fresh == On("do_decap") /\ pkt[a] = Received(wire[a])
               Tidy == On("do_decap") /\ Clean(a, pkt[a]) /\ Confined(a)
    <2>1. InstallInv /\ Fresh => Tidy
      <3>1. ASSUME InstallInv, Fresh
            PROVE  Clean(a, pkt[a]) /\ Confined(a)
        <4>1. /\ pkt[a].stage = "ingress" /\ pkt[a].inst = "normal"
              /\ ~pkt[a].decap
          BY <3>1 DEF Received
        <4>2. out[a] = << >>
          BY <3>1, <4>1, BeforeStep DEF Underway, Awaits
        <4> QED BY <4>1, <4>2 DEF Clean, Confined
      <3> QED BY <3>1
    <2>2. InstallInv /\ Tidy /\ [Next]_vars => Tidy'
      BY CleanStays
    <2>3. Tidy => Confined(a)
      OBVIOUS
    <2> HIDE DEF Tidy
    <2> QED BY <2>1, <2>2, <2>3, InstallInvHolds, PTL DEF Spec
  <1> QED BY <1>1 DEF HeaderConfinedOnceFilled

=============================================================================
