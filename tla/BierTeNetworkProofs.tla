------------------------ MODULE BierTeNetworkProofs ------------------------
(***************************************************************************)
(* For every topology, every group and every backup entry: the copies are  *)
(* packets the programs can handle, and a packet that is led around a      *)
(* failed link is not led around it again.                                 *)
(*                                                                         *)
(* For every plan besides (BierTeReach): once the tables are filled, no    *)
(* two copies lead to the same host, and no host gets the packet twice.    *)
(* The second half of the module has this proof.  What a copy can still    *)
(* get to is its cover; each step divides the cover of a copy among the    *)
(* copies it becomes, and takes the switch out whose host gets the packet. *)
(*                                                                         *)
(* At the end of the module: while no link is down nothing of the cover is *)
(* lost, so every member's host has the packet or a copy leads to it.      *)
(***************************************************************************)
EXTENDS BierTeReach, FiniteSetTheorems, WellFoundedInduction, TLAPS

-----------------------------------------------------------------------------
(* Bits, ports and entries.                                                *)

LEMMA SwitchNumbers ==
    /\ NumSwitches \in Nat \ {0}
    /\ Switches \subseteq Nat \ {0}
    /\ HostsTaken \in Nat \ {0}
    /\ Port \subseteq Nat
    /\ NullPort \in Port /\ HostPort \in Port
    /\ LinkPorts(HostsTaken) \subseteq Port
  BY TopologyAssumption
     DEF Switches, HostsTaken, Port, NullPort, HostPort, LinkPorts, MaxPortNum

LEMMA BitNumbers ==
    /\ \A s \in Switches : Boi[s] \subseteq AllBits
    /\ AllBits \subseteq Nat \ {0}
  <1>1. ASSUME NEW s \in Switches, NEW b \in Boi[s]
        PROVE  b \in Nat \ {0}
    BY SwitchNumbers
       DEF Boi, BitsOfInterest, DecapBit, AdjacencyBit, LinkPorts, MaxPortNum
  <1> QED BY <1>1 DEF AllBits

LEMMA Least ==
    ASSUME NEW S, S \subseteq Nat, S # {}
    PROVE  \E k \in S : \A j \in S : k <= j
  <1>1. PICK k \in S : \A j \in S : <<j, k>> \notin OpToRel(<, Nat)
    BY NatLessThanWellFounded, WFMin
  <1>2. ASSUME NEW j \in S
        PROVE  k <= j
    <2>1. ~(j < k)
      BY <1>1, <1>2 DEF OpToRel
    <2> QED BY <2>1
  <1> QED BY <1>2

LEMMA LowBitIn ==
    ASSUME NEW S, S \subseteq AllBits, S # {}
    PROVE  LowBit(S) \in S
  <1>1. \E k \in S : \A j \in S : k <= j
    BY Least, BitNumbers
  <1> QED BY <1>1 DEF LowBit

\* The table bift has a port for each link bit of the switch.
LEMMA BiftPort ==
    ASSUME NEW s \in Switches, NEW k \in Boi[s], k # DecapBit(s)
    PROVE  Bift[s][k] \in Port
  <1>1. k \in BitsOfInterest(NumSwitches, HostsTaken, s) \ {DecapBit(s)}
    BY DEF Boi
  <1>2. \E p \in LinkPorts(HostsTaken) :
            AdjacencyBit(NumSwitches, HostsTaken, s, p) = k
    BY <1>1 DEF BitsOfInterest
  <1>3. Bift[s][k] = CHOOSE p \in LinkPorts(HostsTaken) :
            AdjacencyBit(NumSwitches, HostsTaken, s, p) = k
    BY <1>1 DEF Bift, PortOfBit
  <1>4. Bift[s][k] \in LinkPorts(HostsTaken)
    BY <1>2, <1>3
  <1> QED BY <1>4, SwitchNumbers

LEMMA LinkEnds ==
    ASSUME NEW l \in DOMAIN Links
    PROVE  l \in Nat \ {0} /\ Ends(Links[l]) \subseteq Switches
  <1>1. Links[l] \in Switches \X Switches /\ l \in 1 .. Len(Links)
    BY TopologyAssumption
  <1> QED BY <1>1 DEF Ends

\* A port of the hosts leads to no switch.
LEMMA PeerSwitches ==
    ASSUME NEW s \in Switches, NEW p \in Port
    PROVE  /\ Peer[s][p] \subseteq Switches
           /\ p \in {NullPort, HostPort} => Peer[s][p] = {}
  <1>1. Peer[s][p] = UNION {Ends(Links[l]) \ {s} : l \in LinkAt(Links, Hosts[s], s, p)}
    BY DEF Peer, Peers
  <1>2. \A l \in LinkAt(Links, Hosts[s], s, p) :
            l \in DOMAIN Links /\ s \in Ends(Links[l]) /\ PortOn(Links, Hosts[s], s, l) = p
    BY DEF LinkAt
  <1>3. Peer[s][p] \subseteq Switches
    BY <1>1, <1>2, LinkEnds
  <1>4. ASSUME NEW l \in LinkAt(Links, Hosts[s], s, p), p \in {NullPort, HostPort}
        PROVE  FALSE
    <2> DEFINE M == {m \in 1 .. l : s \in Ends(Links[m])}
    <2>1. l \in M
      BY <1>2, LinkEnds
    <2>2. IsFiniteSet(1 .. l)
      BY <1>2, LinkEnds, FS_Interval
    <2>3. IsFiniteSet(M)
      BY <2>2, FS_Subset
    <2>4. Cardinality(M) \in Nat \ {0}
      BY <2>1, <2>3, FS_CardinalityType, FS_EmptySet
    <2>5. Hosts[s] \in Nat \ {0}
      BY TopologyAssumption
    <2>6. PortOn(Links, Hosts[s], s, l) = Hosts[s] + Cardinality(M)
      BY DEF PortOn
    <2> HIDE DEF M
    <2> QED BY <1>2, <1>4, <2>4, <2>5, <2>6 DEF NullPort, HostPort
  <1> QED BY <1>1, <1>3, <1>4

Entry == [bp : 0 .. 63, match : SUBSET Nat, nnh_bp : Nat,
          add_bm : SUBSET AllBits, reset_bm : SUBSET AllBits]

LEMMA FirstMatchEntry ==
    ASSUME NEW d, d.at \in DOMAIN Entries, Matching(d) # {}
    PROVE  /\ FirstMatch(d) \in Entry
           /\ FirstMatch(d).bp = d.frr.bp
           /\ \E i \in DOMAIN Entries[d.at] : FirstMatch(d) = Entries[d.at][i]
  <1>1. Entries[d.at] \in Seq(Entry)
    BY TablesAssumption DEF Entry
  <1>2. DOMAIN Entries[d.at] \subseteq Nat
    BY <1>1
  <1>3. Matching(d) \subseteq DOMAIN Entries[d.at]
    BY DEF Matching
  <1>4. \E i \in Matching(d) : \A j \in Matching(d) : i <= j
    BY <1>2, <1>3, Least
  <1>5. PICK i \in Matching(d) : FirstMatch(d) = Entries[d.at][i]
    BY <1>4 DEF FirstMatch
  <1> QED BY <1>1, <1>3, <1>5 DEF Matching

\* The generator gives no bit two meanings: each is of interest to one switch,
\* and is there either the bit of local_decap or that of one port
\* (generateBIFTEntries_BIER-TE.py:52-104).
THEOREM OneMeaningPerBit ==
    /\ \A s, t \in Switches : s # t => Boi[s] \cap Boi[t] = {}
    /\ \A s \in Switches : \A j, k \in Boi[s] \ {DecapBit(s)} :
           Bift[s][j] = Bift[s][k] => j = k
  <1>1. ASSUME NEW s \in Switches, NEW b \in Boi[s]
        PROVE  \/ b = s
               \/ /\ NumSwitches + MaxPortNum * (s - 1) < b
                  /\ b <= NumSwitches + MaxPortNum * s
    BY <1>1, SwitchNumbers
       DEF Boi, BitsOfInterest, DecapBit, AdjacencyBit, LinkPorts, MaxPortNum
  <1>2. ASSUME NEW s \in Switches, NEW t \in Switches, s # t,
               NEW b \in Boi[s], b \in Boi[t]
        PROVE  FALSE
    <2>1. /\ s \in 1 .. NumSwitches /\ t \in 1 .. NumSwitches /\ b \in Nat
          /\ NumSwitches \in Nat
      BY <1>2, SwitchNumbers, BitNumbers DEF Switches
    <2> QED BY <1>1, <1>2, <2>1 DEF MaxPortNum
  <1>3. ASSUME NEW s \in Switches, NEW k \in Boi[s] \ {DecapBit(s)}
        PROVE  k = AdjacencyBit(NumSwitches, HostsTaken, s, Bift[s][k])
    <2>1. k \in BitsOfInterest(NumSwitches, HostsTaken, s) \ {DecapBit(s)}
      BY <1>3 DEF Boi
    <2>2. \E p \in LinkPorts(HostsTaken) :
              AdjacencyBit(NumSwitches, HostsTaken, s, p) = k
      BY <2>1 DEF BitsOfInterest
    <2>3. Bift[s][k] = CHOOSE p \in LinkPorts(HostsTaken) :
              AdjacencyBit(NumSwitches, HostsTaken, s, p) = k
      BY <2>1 DEF Bift, PortOfBit
    <2> QED BY <2>2, <2>3
  <1> QED BY <1>2, <1>3

-----------------------------------------------------------------------------
(* What every copy is like.                                                *)

Headers == [{0, 1} -> (SUBSET AllBits) \cup {Invalid}]

Fits(c) ==
    /\ c \in Packet
    /\ c.boi_bs \subseteq Boi[c.at]
    /\ c.bs_remaining \cap Boi[c.at] = {}
    /\ c.stage = "ingress" => c.port = NullPort /\ c.inst = "normal"
    /\ c.inst = "clone" => c.port = HostPort
    /\ c.eth = "BIER" => \/ c.bier[0] # Invalid
                         \/ c.stage = "egress" /\ c.bier[1] # Invalid

LEMMA NotValid == Invalid \notin SUBSET AllBits
  BY BitNumbers DEF Invalid

\* The two steps of Prepared: save_bits_of_interest, then save_bp.
Sought(c) ==
    IF c.boi \/ ~On(c.at, "bift_entries")
    THEN c
    ELSE [c EXCEPT !.boi = TRUE,
                   !.boi_bs = c.bier[0] \cap Boi[c.at],
                   !.bier[0] = c.bier[0] \ Boi[c.at],
                   !.bs_remaining = c.bier[0] \ Boi[c.at]]

LEMMA SoughtFits ==
    ASSUME NEW c, Fits(c), BierAtIngress(c)
    PROVE  /\ Fits(Sought(c))
           /\ BierAtIngress(Sought(c))
           /\ Sought(c).at = c.at
           /\ Sought(c).port = c.port
           /\ Sought(c).needs_cloning = c.needs_cloning
           /\ Sought(c).decap = c.decap
           /\ Sought(c).frr = c.frr
           /\ Sought(c).bier[1] = c.bier[1]
           /\ Sought(c).bier[0] \in SUBSET AllBits
           /\ Sought(c).boi = (c.boi \/ On(c.at, "bift_entries"))
           /\ IF c.boi \/ ~On(c.at, "bift_entries")
              THEN /\ Sought(c).bier[0] = c.bier[0]
                   /\ Sought(c).boi_bs = c.boi_bs
                   /\ Sought(c).bs_remaining = c.bs_remaining
              ELSE /\ Sought(c).bier[0] = c.bier[0] \ Boi[c.at]
                   /\ Sought(c).boi_bs = c.bier[0] \cap Boi[c.at]
                   /\ Sought(c).bs_remaining = c.bier[0] \ Boi[c.at]
  <1>1. c.bier[0] \in SUBSET AllBits /\ c.at \in Switches /\ c \in Packet
    BY DEF Fits, Packet, BierAtIngress
  <1>2. CASE c.boi \/ ~On(c.at, "bift_entries")
    <2>1. Sought(c) = c
      BY <1>2 DEF Sought
    <2>2. c.boi \in BOOLEAN /\ On(c.at, "bift_entries") \in BOOLEAN
      BY <1>1 DEF Packet, On
    <2> QED BY <1>1, <1>2, <2>1, <2>2
  <1>3. CASE ~(c.boi \/ ~On(c.at, "bift_entries"))
    <2> DEFINE d == [c EXCEPT !.boi = TRUE,
                              !.boi_bs = c.bier[0] \cap Boi[c.at],
                              !.bier[0] = c.bier[0] \ Boi[c.at],
                              !.bs_remaining = c.bier[0] \ Boi[c.at]]
    <2>1. Sought(c) = d
      BY <1>3 DEF Sought
    <2>2. d \in Packet
      BY <1>1 DEF Packet
    <2>3. /\ d.at = c.at /\ d.port = c.port /\ d.needs_cloning = c.needs_cloning
          /\ d.decap = c.decap /\ d.frr = c.frr /\ d.boi = TRUE
          /\ d.stage = c.stage /\ d.eth = c.eth /\ d.inst = c.inst
          /\ d.bier[1] = c.bier[1] /\ d.bier[0] = c.bier[0] \ Boi[c.at]
          /\ d.boi_bs = c.bier[0] \cap Boi[c.at]
          /\ d.bs_remaining = c.bier[0] \ Boi[c.at]
      BY <1>1 DEF Packet
    <2> HIDE DEF d
    <2>4. d.bier[0] # Invalid
      BY <1>1, <2>3, NotValid
    <2>5. Fits(d)
      BY <2>2, <2>3, <2>4 DEF Fits
    <2> QED BY <1>1, <1>3, <2>1, <2>3, <2>5 DEF BierAtIngress
  <1> QED BY <1>2, <1>3

LEMMA PreparedFits ==
    ASSUME TypeOK, NEW c, Fits(c), BierAtIngress(c)
    PROVE  /\ Fits(Prepared(c))
           /\ BierAtIngress(Prepared(c))
           /\ Prepared(c).at = c.at
           /\ Prepared(c).port = c.port
           /\ Prepared(c).needs_cloning = c.needs_cloning
           /\ Prepared(c).decap = c.decap
           /\ Prepared(c).bier = Sought(c).bier
           /\ Prepared(c).boi = Sought(c).boi
           /\ Prepared(c).boi_bs = Sought(c).boi_bs
           /\ Prepared(c).bs_remaining = Sought(c).bs_remaining
           /\ Prepared(c).frr.bp = IF indicated[c.at] = 0 THEN c.frr.bp
                                                          ELSE indicated[c.at]
           /\ Prepared(c).frr.add_bm = c.frr.add_bm
  <1> DEFINE e == Sought(c)
             f == [e EXCEPT !.frr.bp = indicated[c.at]]
  <1>1. /\ Fits(e) /\ BierAtIngress(e) /\ e.at = c.at /\ e.port = c.port /\ e \in Packet
        /\ e.needs_cloning = c.needs_cloning /\ e.decap = c.decap /\ e.frr = c.frr
    BY SoughtFits DEF Fits
  <1>2. indicated[c.at] \in 0 .. 63
    BY DEF Fits, Packet, TypeOK
  <1>3. Prepared(c) = IF indicated[c.at] = 0 THEN e ELSE f
    BY DEF Prepared, Sought
  <1> HIDE DEF e
  <1>4. f \in Packet
    BY <1>1, <1>2 DEF Packet, Frr
  <1>5. /\ f.at = e.at /\ f.port = e.port /\ f.needs_cloning = e.needs_cloning
        /\ f.decap = e.decap /\ f.bier = e.bier /\ f.boi = e.boi
        /\ f.boi_bs = e.boi_bs /\ f.bs_remaining = e.bs_remaining
        /\ f.stage = e.stage /\ f.inst = e.inst /\ f.eth = e.eth
        /\ f.frr.bp = indicated[c.at] /\ f.frr.add_bm = e.frr.add_bm
    BY <1>1 DEF Packet, Frr
  <1> HIDE DEF f
  <1>6. Fits(f) /\ BierAtIngress(f)
    BY <1>1, <1>4, <1>5 DEF Fits, BierAtIngress
  <1>7. CASE indicated[c.at] = 0
    BY <1>1, <1>3, <1>7 DEF e
  <1>8. CASE indicated[c.at] # 0
    BY <1>1, <1>3, <1>5, <1>6, <1>8 DEF e
  <1> QED BY <1>7, <1>8

-----------------------------------------------------------------------------
(* What a copy has to do with the link that failed.                        *)

\* The bits some switch may have an entry for, and those s may.
Indicated ==
    UNION {{LinkBp(t, l) : t \in {u \in Switches : l \in WatchedBy(u)}} : l \in down}

Watches(s) == {0} \cup {LinkBp(s, l) : l \in down \cap WatchedBy(s)}

Clear(bits) == bits \cap Indicated = {}

\* Nothing is known of a failure before it happens, and what btaft has gathered
\* leads around it.
Watched(c) ==
    /\ c.frr.bp \in Watches(c.at)
    /\ Clear(c.frr.add_bm)
    /\ down = {} => c.bier[1] = Invalid /\ c.frr.add_bm = {}

\* A packet in two headers has lost the outer one a moment ago; or nothing in
\* that header or in what the switch makes of it can be indicated; or, when a
\* packet was put into it in the middle of a decapsulation, nothing in that
\* header is for this switch, which is about to find no bit.
Stripped(c) == c.stage = "egress" /\ c.bier[0] = Invalid /\ ~c.decap

Around(c) ==
    /\ c.bier[0] # Invalid
    /\ Clear(c.bier[0])
    /\ c.boi => Clear(c.boi_bs)
    /\ Clear(c.bs_remaining) \/ (~c.boi /\ On(c.at, "find_bit_pos"))

Spent(c) ==
    /\ c.bier[0] # Invalid
    /\ c.bier[0] \cap Boi[c.at] = {}
    /\ ~c.boi
    /\ On(c.at, "find_bit_pos")
    /\ c.port \in {NullPort, HostPort}

Tunnelled(c) == c.bier[1] # Invalid => Stripped(c) \/ Around(c) \/ Spent(c)

Sane(c) == Fits(c) /\ Watched(c) /\ Tunnelled(c)

Known ==
    /\ TypeOK
    /\ down \subseteq Fragile
    /\ \A l, m \in down : l = m
    /\ \A s \in Switches : indicated[s] \in Watches(s)

IInv == Known /\ \A c \in BagToSet(copies) : Sane(c)

LEMMA InstalledInOrder ==
    ASSUME TypeOK, NEW s \in Switches, On(s, "find_bit_pos")
    PROVE  On(s, "bift_entries")
  <1>1. installed[s] \in 0 .. Len(InstallOrder)
    BY DEF TypeOK
  <1>2. InPlace[installed[s]] = {InstallOrder[i] : i \in 1 .. installed[s]}
    BY <1>1 DEF InPlace
  <1>3. InstallOrder[1] = "bift_entries"
    BY DEF InstallOrder
  <1>4. 1 .. installed[s] # {}
    BY <1>2 DEF On
  <1>5. 1 \in 1 .. installed[s]
    BY <1>1, <1>4
  <1> QED BY <1>2, <1>3, <1>5 DEF On

LEMMA WatchesIndicated ==
    ASSUME NEW s \in Switches, NEW b \in Watches(s), b # 0
    PROVE  b \in Indicated
  BY DEF Watches, Indicated

LEMMA NoneIndicated ==
    ASSUME down = {}
    PROVE  Indicated = {} /\ \A s : Watches(s) = {0}
  BY DEF Watches, Indicated

LEMMA PreparedWatched ==
    ASSUME Known, NEW c, Sane(c), BierAtIngress(c)
    PROVE  Watched(Prepared(c))
  <1>1. c.at \in Switches
    BY DEF Sane, Fits, Packet
  <1>2. /\ Prepared(c).at = c.at /\ Prepared(c).bier[1] = c.bier[1]
        /\ Prepared(c).frr.bp = IF indicated[c.at] = 0 THEN c.frr.bp
                                                       ELSE indicated[c.at]
        /\ Prepared(c).frr.add_bm = c.frr.add_bm
    BY PreparedFits, SoughtFits DEF Sane, Known
  <1> QED BY <1>1, <1>2 DEF Sane, Watched, Known

\* When a packet in two headers gets to the choice of its next bit, none of its
\* bits can be indicated.
LEMMA PreparedAround ==
    ASSUME Known, NEW c, Sane(c), BierAtIngress(c), c.bier[1] # Invalid,
           Found(Prepared(c))
    PROVE  /\ Prepared(c).boi
           /\ c.bier[0] # Invalid /\ Clear(c.bier[0])
           /\ Clear(Prepared(c).bier[0])
           /\ Clear(Prepared(c).boi_bs)
           /\ Clear(Prepared(c).bs_remaining)
  <1>1. c.at \in Switches /\ TypeOK /\ Fits(c)
    BY DEF Sane, Fits, Packet, Known
  <1>2. On(c.at, "bift_entries") /\ Prepared(c).boi_bs # {}
    BY <1>1, InstalledInOrder, PreparedFits DEF Found
  <1>3. /\ Prepared(c).boi = (c.boi \/ On(c.at, "bift_entries"))
        /\ IF c.boi \/ ~On(c.at, "bift_entries")
           THEN /\ Prepared(c).bier[0] = c.bier[0]
                /\ Prepared(c).boi_bs = c.boi_bs
                /\ Prepared(c).bs_remaining = c.bs_remaining
           ELSE /\ Prepared(c).bier[0] = c.bier[0] \ Boi[c.at]
                /\ Prepared(c).boi_bs = c.bier[0] \cap Boi[c.at]
                /\ Prepared(c).bs_remaining = c.bier[0] \ Boi[c.at]
    BY <1>1, PreparedFits, SoughtFits
  <1>4. Around(c) \/ Spent(c)
    BY DEF Sane, Tunnelled, Stripped, BierAtIngress
  <1>5. ~Spent(c)
    BY <1>2, <1>3 DEF Spent
  <1> QED BY <1>2, <1>3, <1>4, <1>5 DEF Around, Clear

LEMMA NotAffected ==
    ASSUME Known, NEW c, Sane(c), BierAtIngress(c), c.bier[1] # Invalid
    PROVE  ~Affected(Prepared(c))
  <1> SUFFICES ASSUME Affected(Prepared(c))
               PROVE  FALSE
    OBVIOUS
  <1> DEFINE d == Prepared(c)
  <1>1. Fits(d) /\ d.at \in Switches /\ Watched(d)
    BY PreparedFits, PreparedWatched DEF Sane, Known, Fits, Packet
  <1>2. Found(d) /\ LowBit(d.boi_bs) = d.frr.bp /\ d.boi_bs # {}
    BY DEF Affected, Found
  <1>3. d.boi_bs \subseteq AllBits
    BY <1>1, BitNumbers DEF Fits
  <1>4. LowBit(d.boi_bs) \in d.boi_bs
    BY <1>2, <1>3, LowBitIn
  <1>5. d.frr.bp # 0
    BY <1>2, <1>3, <1>4, BitNumbers
  <1>6. d.frr.bp \in Indicated
    BY <1>1, <1>5, WatchesIndicated DEF Watched
  <1>7. Clear(d.boi_bs)
    BY <1>2, PreparedAround
  <1> QED BY <1>2, <1>4, <1>6, <1>7 DEF Clear

\* An affected packet is in one header, a link is down, and the tables the bits
\* are found with are in place.
LEMMA AffectedSingle ==
    ASSUME Known, NEW c, Sane(c), BierAtIngress(c), Affected(Prepared(c))
    PROVE  /\ c.bier[1] = Invalid
           /\ down # {}
           /\ On(c.at, "find_bit_pos")
           /\ Prepared(c).frr.bp \in {LinkBp(c.at, l) : l \in down \cap WatchedBy(c.at)}
  <1> DEFINE d == Prepared(c)
  <1>1. Fits(d) /\ d.at = c.at /\ d.at \in Switches /\ Watched(d)
    BY PreparedFits, PreparedWatched DEF Sane, Known, Fits, Packet
  <1>2. LowBit(d.boi_bs) = d.frr.bp /\ d.boi_bs # {} /\ On(d.at, "find_bit_pos")
    BY DEF Affected, Found
  <1>3. d.boi_bs \subseteq AllBits
    BY <1>1, BitNumbers DEF Fits
  <1>4. LowBit(d.boi_bs) \in d.boi_bs
    BY <1>2, <1>3, LowBitIn
  <1>5. d.frr.bp # 0
    BY <1>2, <1>3, <1>4, BitNumbers
  <1>6. d.frr.bp \in {LinkBp(c.at, l) : l \in down \cap WatchedBy(c.at)}
    BY <1>1, <1>5 DEF Watched, Watches
  <1> QED BY <1>1, <1>2, <1>6, NotAffected

-----------------------------------------------------------------------------
(* The steps of a copy.                                                    *)

LEMMA ReplaceAdds ==
    ASSUME NEW c, NEW new, Replace(c, new)
    PROVE  BagToSet(copies') \subseteq BagToSet(copies) \cup new
  BY DEF Replace, BagToSet, SetToBag, (+), (-)

LEMMA ToEgressAdds ==
    ASSUME NEW c, NEW d, ToEgress(c, d), Sane([d EXCEPT !.stage = "egress"]),
           NEW e \in BagToSet(copies')
    PROVE  e \in BagToSet(copies) \/ Sane(e)
  BY ReplaceAdds DEF ToEgress

LEMMA AddBierHeaderSane ==
    ASSUME Known, NEW c, Sane(c), AddBierHeader(c), NEW e \in BagToSet(copies')
    PROVE  e \in BagToSet(copies) \/ Sane(e)
  <1> DEFINE d == [c EXCEPT !.bier = Stack(Groups[group], Invalid),
                            !.eth = "BIER",
                            !.recirc = TRUE]
             f == [d EXCEPT !.stage = "egress"]
  <1>1. c \in Packet /\ Groups[group] \in SUBSET AllBits
    BY TablesAssumption DEF Sane, Fits, Known, TypeOK
  <1>2. Stack(Groups[group], Invalid) \in Headers
        /\ Stack(Groups[group], Invalid)[0] = Groups[group]
        /\ Stack(Groups[group], Invalid)[1] = Invalid
    BY <1>1 DEF Stack, Headers
  <1>3. f \in Packet
    BY <1>1, <1>2 DEF Packet, Headers
  <1>4. /\ f.at = c.at /\ f.boi_bs = c.boi_bs /\ f.bs_remaining = c.bs_remaining
        /\ f.stage = "egress" /\ f.inst = c.inst /\ f.port = c.port /\ f.frr = c.frr
        /\ f.bier[0] = Groups[group] /\ f.bier[1] = Invalid
    BY <1>1, <1>2 DEF Packet
  <1> HIDE DEF f
  <1>5. Fits(f) /\ Watched(f) /\ Tunnelled(f)
    BY <1>1, <1>3, <1>4, NotValid DEF Sane, Fits, Watched, Tunnelled
  <1> QED BY <1>5, ToEgressAdds DEF AddBierHeader, Sane, f

LEMMA NoPortChosenSane ==
    ASSUME Known, NEW c, Sane(c), NoPortChosen(c), NEW e \in BagToSet(copies')
    PROVE  e \in BagToSet(copies) \/ Sane(e)
  <1>1. ASSUME NEW d, Sane(d)
        PROVE  Sane([d EXCEPT !.stage = "egress"])
    <2> DEFINE f == [d EXCEPT !.stage = "egress"]
    <2>1. d \in Packet
      BY <1>1 DEF Sane, Fits
    <2>2. f \in Packet
      BY <2>1 DEF Packet
    <2>3. /\ f.at = d.at /\ f.boi_bs = d.boi_bs /\ f.bs_remaining = d.bs_remaining
          /\ f.stage = "egress" /\ f.inst = d.inst /\ f.port = d.port /\ f.frr = d.frr
          /\ f.bier = d.bier /\ f.eth = d.eth /\ f.boi = d.boi /\ f.decap = d.decap
      BY <2>1 DEF Packet
    <2> HIDE DEF f
    <2>4. Fits(f) /\ Watched(f) /\ Tunnelled(f)
      BY <1>1, <2>2, <2>3
         DEF Sane, Fits, Watched, Tunnelled, Stripped, Around, Spent
    <2> QED BY <2>4 DEF Sane, f
  <1>2. CASE c.eth = "BIER"
    <2> DEFINE d == Prepared(c)
    <2>1. BierAtIngress(c) /\ ~On(c.at, "find_bit_pos")
      BY <1>2 DEF NoPortChosen, BierAtIngress
    <2>2. /\ Fits(d) /\ d.bier[1] = c.bier[1] /\ d.at = c.at
          /\ d.boi = (c.boi \/ On(c.at, "bift_entries"))
          /\ IF c.boi \/ ~On(c.at, "bift_entries")
             THEN /\ d.bier[0] = c.bier[0]
                  /\ d.boi_bs = c.boi_bs
                  /\ d.bs_remaining = c.bs_remaining
             ELSE /\ d.bier[0] = c.bier[0] \ Boi[c.at]
                  /\ d.boi_bs = c.bier[0] \cap Boi[c.at]
                  /\ d.bs_remaining = c.bier[0] \ Boi[c.at]
      BY <2>1, PreparedFits, SoughtFits DEF Sane, Known
    <2>3. d.bier[0] # Invalid
      BY <2>1, <2>2, PreparedFits, SoughtFits, NotValid DEF Sane, Known
    <2>4. c.bier[1] # Invalid => Around(c)
      BY <2>1 DEF Sane, Tunnelled, Stripped, Spent, BierAtIngress
    <2>5. Tunnelled(d)
      BY <2>1, <2>2, <2>3, <2>4 DEF Tunnelled, Around, Clear
    <2>6. Sane(d)
      BY <2>1, <2>2, <2>5, PreparedWatched DEF Sane
    <2> QED BY <1>1, <1>2, <2>6, ToEgressAdds DEF NoPortChosen
  <1>3. CASE c.eth # "BIER"
    BY <1>1, <1>3, ToEgressAdds DEF NoPortChosen
  <1> QED BY <1>2, <1>3

LEMMA BtaftRecursionSane ==
    ASSUME Known, NEW c, Sane(c), BtaftRecursion(c), NEW e \in BagToSet(copies')
    PROVE  e \in BagToSet(copies) \/ Sane(e)
  <1> DEFINE d == Prepared(c)
             m == FirstMatch(d)
             g == [d EXCEPT !.frr.add_bm = @ \cup m.add_bm,
                            !.frr.reset_bm = @ \cup m.reset_bm,
                            !.frr.needs_recursion = TRUE,
                            !.frr.BitString = FrrBitString(d) \ {m.nnh_bp}]
             f == [g EXCEPT !.stage = "egress"]
  <1>1. /\ BierAtIngress(c) /\ Affected(d) /\ d.at \in DOMAIN Entries
        /\ Matching(d) # {} /\ ToEgress(c, g)
    BY DEF BtaftRecursion
  <1>2. /\ Fits(d) /\ d \in Packet /\ d.at = c.at /\ c.at \in Switches /\ Watched(d)
        /\ d.bier[1] = c.bier[1] /\ d.port = c.port
    BY <1>1, PreparedFits, SoughtFits, PreparedWatched DEF Sane, Known, Fits, Packet
  <1>3. /\ c.bier[1] = Invalid /\ down # {}
        /\ d.frr.bp \in {LinkBp(c.at, l) : l \in down \cap WatchedBy(c.at)}
    BY <1>1, AffectedSingle
  <1>4. /\ m \in Entry /\ m.bp = d.frr.bp
        /\ \E i \in DOMAIN Entries[c.at] : m = Entries[c.at][i]
    BY <1>1, <1>2, FirstMatchEntry
  \* The entry is one for the link that is down, and leads around it.
  <1>5. Clear(m.add_bm)
    <2>1. PICK l \in down \cap WatchedBy(c.at) : d.frr.bp = LinkBp(c.at, l)
      BY <1>3
    <2>2. ASSUME NEW t \in Switches, l \in WatchedBy(t)
          PROVE  LinkBp(t, l) \notin m.add_bm
      BY <1>1, <1>2, <1>4, <2>1, <2>2, DetourAssumption
    <2>3. \A k \in down : k = l
      BY <2>1 DEF Known
    <2> QED BY <2>2, <2>3 DEF Clear, Indicated
  <1>6. FrrBitString(d) \in SUBSET AllBits
    BY <1>1, <1>2, PreparedFits, SoughtFits DEF FrrBitString, Packet, Frr, Sane, Known
  <1> HIDE DEF d, m
  <1>7. f \in Packet
    <2> DEFINE frr == [d.frr EXCEPT !.add_bm = @ \cup m.add_bm,
                                    !.reset_bm = @ \cup m.reset_bm,
                                    !.needs_recursion = TRUE,
                                    !.BitString = FrrBitString(d) \ {m.nnh_bp}]
    <2>1. frr \in Frr
      BY <1>2, <1>4, <1>6 DEF Packet, Frr, Entry
    <2>2. f = [d EXCEPT !.frr = frr, !.stage = "egress"]
      BY <1>2 DEF Packet, Frr
    <2> HIDE DEF frr
    <2> QED BY <1>2, <2>1, <2>2 DEF Packet
  <1>8. /\ f.at = d.at /\ f.boi_bs = d.boi_bs /\ f.bs_remaining = d.bs_remaining
        /\ f.stage = "egress" /\ f.inst = d.inst /\ f.port = d.port
        /\ f.bier = d.bier /\ f.eth = d.eth
        /\ f.frr.bp = d.frr.bp /\ f.frr.add_bm = d.frr.add_bm \cup m.add_bm
    BY <1>2 DEF Packet, Frr
  <1> HIDE DEF f
  <1>9. Fits(f) /\ Tunnelled(f)
    BY <1>2, <1>3, <1>7, <1>8 DEF Fits, Tunnelled
  <1>10. Watched(f)
    BY <1>2, <1>3, <1>5, <1>8 DEF Watched, Clear
  <1> QED BY <1>1, <1>9, <1>10, ToEgressAdds DEF Sane, f

\* The second header is clear of the bits that can be indicated.
LEMMA BtaftApplySane ==
    ASSUME Known, NEW c, Sane(c), BtaftApply(c), NEW e \in BagToSet(copies')
    PROVE  e \in BagToSet(copies) \/ Sane(e)
  <1> DEFINE d == Prepared(c)
             h == Stack(d.frr.add_bm, d.bier[0] \ d.frr.reset_bm)
             g == [d EXCEPT !.bier = h,
                            !.frr.BitString = FrrBitString(d),
                            !.frr.needs_recursion = FALSE,
                            !.frr.needs_cloning = TRUE,
                            !.boi = FALSE]
             f == [g EXCEPT !.stage = "egress"]
  <1>1. BierAtIngress(c) /\ Affected(d) /\ ToEgress(c, g)
    BY DEF BtaftApply
  <1>2. /\ Fits(d) /\ d \in Packet /\ d.at = c.at /\ c.at \in Switches /\ Watched(d)
        /\ d.bier[0] \in SUBSET AllBits /\ d.port = c.port
    BY <1>1, PreparedFits, SoughtFits, PreparedWatched DEF Sane, Known, Fits, Packet
  <1>3. down # {} /\ On(c.at, "find_bit_pos")
    BY <1>1, AffectedSingle
  <1>4. FrrBitString(d) \in SUBSET AllBits /\ d.frr.add_bm \in SUBSET AllBits
    BY <1>2 DEF FrrBitString, Packet, Frr
  <1>5. h \in Headers /\ h[0] = d.frr.add_bm
    BY <1>2, <1>4 DEF Stack, Headers
  <1> HIDE DEF d, h
  <1>6. f \in Packet
    BY <1>2, <1>4, <1>5 DEF Packet, Frr, Headers
  <1>7. /\ f.at = d.at /\ f.boi_bs = d.boi_bs /\ f.bs_remaining = d.bs_remaining
        /\ f.stage = "egress" /\ f.inst = d.inst /\ f.port = d.port
        /\ f.bier = h /\ f.eth = d.eth /\ f.boi = FALSE
        /\ f.frr.bp = d.frr.bp /\ f.frr.add_bm = d.frr.add_bm
    BY <1>2 DEF Packet, Frr
  <1> HIDE DEF f
  <1>8. f.bier[0] # Invalid
    BY <1>4, <1>5, <1>7, NotValid
  <1>9. Fits(f) /\ Watched(f)
    BY <1>2, <1>3, <1>6, <1>7, <1>8 DEF Fits, Watched
  <1>10. Tunnelled(f)
    BY <1>2, <1>3, <1>5, <1>7, <1>8 DEF Watched, Tunnelled, Around
  <1> QED BY <1>1, <1>9, <1>10, ToEgressAdds DEF Sane, f

LEMMA BtaftMissingSane ==
    ASSUME Known, NEW c, Sane(c), BtaftMissing(c), NEW e \in BagToSet(copies')
    PROVE  e \in BagToSet(copies) \/ Sane(e)
  <1> DEFINE d == Prepared(c)
             f == [d EXCEPT !.stage = "egress"]
  <1>1. BierAtIngress(c) /\ Affected(d) /\ ToEgress(c, d)
    BY DEF BtaftMissing
  <1>2. /\ Fits(d) /\ d \in Packet /\ Watched(d) /\ d.bier[1] = c.bier[1]
        /\ d.bier[0] \in SUBSET AllBits
    BY <1>1, PreparedFits, SoughtFits, PreparedWatched DEF Sane, Known, Fits
  <1>3. c.bier[1] = Invalid
    BY <1>1, AffectedSingle
  <1> HIDE DEF d
  <1>4. f \in Packet
    BY <1>2 DEF Packet
  <1>5. /\ f.at = d.at /\ f.boi_bs = d.boi_bs /\ f.bs_remaining = d.bs_remaining
        /\ f.stage = "egress" /\ f.inst = d.inst /\ f.port = d.port
        /\ f.bier = d.bier /\ f.eth = d.eth /\ f.frr = d.frr
    BY <1>2 DEF Packet
  <1> HIDE DEF f
  <1>6. Fits(f) /\ Watched(f) /\ Tunnelled(f)
    BY <1>2, <1>3, <1>4, <1>5 DEF Fits, Watched, Tunnelled
  <1> QED BY <1>1, <1>6, ToEgressAdds DEF Sane, f

\* A packet whose lowest bit is the one of local_decap.
LEMMA DecapsulatedSane ==
    ASSUME Known, NEW c, Sane(c), LocalDecap(c)
    PROVE  LET x == Decapsulated(Prepared(c))
           IN  /\ Fits(x) /\ Watched(x)
               /\ x.at = c.at
               /\ x.bier[0] \in SUBSET AllBits
               /\ x.bier[1] = c.bier[1]
               /\ x.frr.bp \in Watches(c.at)
               /\ c.bier[1] # Invalid =>
                      /\ x.boi
                      /\ c.bier[0] # Invalid /\ Clear(c.bier[0])
                      /\ Clear(x.bier[0])
                      /\ Clear(x.boi_bs)
                      /\ Clear(x.bs_remaining)
  <1> DEFINE d == Prepared(c)
             x == [d EXCEPT !.boi_bs = @ \ {LowBit(d.boi_bs)},
                            !.needs_cloning = TRUE,
                            !.decap = TRUE]
  <1>1. BierAtIngress(c) /\ Found(d)
    BY DEF LocalDecap, Unaffected
  <1>2. /\ Fits(d) /\ d \in Packet /\ Watched(d) /\ d.bier[1] = c.bier[1]
        /\ d.bier[0] \in SUBSET AllBits /\ d.at = c.at
    BY <1>1, PreparedFits, SoughtFits, PreparedWatched DEF Sane, Known, Fits
  <1>3. c.bier[1] # Invalid => /\ d.boi
                               /\ c.bier[0] # Invalid /\ Clear(c.bier[0])
                               /\ Clear(d.bier[0])
                               /\ Clear(d.boi_bs)
                               /\ Clear(d.bs_remaining)
    BY <1>1, PreparedAround
  <1>4. Decapsulated(Prepared(c)) = x
    BY DEF Decapsulated
  <1> HIDE DEF d
  <1>5. x \in Packet
    BY <1>2 DEF Packet
  <1>6. /\ x.at = d.at /\ x.boi_bs = d.boi_bs \ {LowBit(d.boi_bs)}
        /\ x.bs_remaining = d.bs_remaining /\ x.boi = d.boi /\ x.stage = d.stage
        /\ x.inst = d.inst /\ x.port = d.port /\ x.bier = d.bier /\ x.eth = d.eth
        /\ x.frr = d.frr
    BY <1>2 DEF Packet
  <1> HIDE DEF x
  <1>7. Fits(x) /\ Watched(x)
    BY <1>2, <1>5, <1>6 DEF Fits, Watched
  <1> QED BY <1>2, <1>3, <1>4, <1>6, <1>7 DEF Clear, Watched

LEMMA HandedOverSane ==
    ASSUME Known, NEW c, Sane(c), Handover(c) \/ HandoverToNone(c) \/ HandoverMissing(c),
           NEW e \in BagToSet(copies')
    PROVE  e \in BagToSet(copies) \/ Sane(e)
  <1> DEFINE x == Decapsulated(Prepared(c))
  <1>1. CASE HandoverToNone(c)
    BY <1>1, ReplaceAdds DEF HandoverToNone
  <1>2. ASSUME LocalDecap(c), c.bier[1] = Invalid
        PROVE  Fits(x) /\ Watched(x) /\ x.bier[1] = Invalid
    BY <1>2, DecapsulatedSane
  <1> HIDE DEF x
  <1>3. CASE Handover(c)
    <2> DEFINE f == [[x EXCEPT !.port = HostPort] EXCEPT !.stage = "egress"]
    <2>1. x \in Packet /\ Fits(x) /\ Watched(x) /\ x.bier[1] = Invalid
      BY <1>2, <1>3 DEF Handover, HandedOver, Fits
    <2>2. f \in Packet
      BY <2>1, SwitchNumbers DEF Packet
    <2>3. /\ f.at = x.at /\ f.boi_bs = x.boi_bs /\ f.bs_remaining = x.bs_remaining
          /\ f.stage = "egress" /\ f.port = HostPort /\ f.bier = x.bier
          /\ f.eth = x.eth /\ f.frr = x.frr
      BY <2>1 DEF Packet
    <2> HIDE DEF f
    <2>4. Fits(f) /\ Watched(f) /\ Tunnelled(f)
      BY <2>1, <2>2, <2>3 DEF Fits, Watched, Tunnelled
    <2> QED BY <1>3, <2>4, ToEgressAdds DEF Handover, Sane, f, x
  <1>4. CASE HandoverMissing(c)
    <2> DEFINE f == [x EXCEPT !.stage = "egress"]
    <2>1. x \in Packet /\ Fits(x) /\ Watched(x) /\ x.bier[1] = Invalid
      BY <1>2, <1>4 DEF HandoverMissing, Fits
    <2>2. f \in Packet
      BY <2>1 DEF Packet
    <2>3. /\ f.at = x.at /\ f.boi_bs = x.boi_bs /\ f.bs_remaining = x.bs_remaining
          /\ f.stage = "egress" /\ f.port = x.port /\ f.inst = x.inst /\ f.bier = x.bier
          /\ f.eth = x.eth /\ f.frr = x.frr
      BY <2>1 DEF Packet
    <2> HIDE DEF f
    <2>4. Fits(f) /\ Watched(f) /\ Tunnelled(f)
      BY <2>1, <2>2, <2>3 DEF Fits, Watched, Tunnelled
    <2> QED BY <1>4, <2>4, ToEgressAdds DEF HandoverMissing, Sane, f, x
  <1> QED BY <1>1, <1>3, <1>4

LEMMA DecapEncapsulatedSane ==
    ASSUME Known, NEW c, Sane(c), DecapEncapsulated(c), NEW e \in BagToSet(copies')
    PROVE  e \in BagToSet(copies) \/ Sane(e)
  <1> DEFINE x == Decapsulated(Prepared(c))
             f == [x EXCEPT !.stage = "egress"]
             g == [x EXCEPT !.frr.decap_done = TRUE, !.bier = c.bier]
  <1>1. c \in Packet /\ Fits(c) /\ BierAtIngress(c) /\ c.bier[1] # Invalid
    BY DEF DecapEncapsulated, LocalDecap, Sane, Fits
  <1>2. /\ Fits(x) /\ Watched(x) /\ x \in Packet /\ x.at = c.at
        /\ x.bier[0] \in SUBSET AllBits /\ x.bier[1] = c.bier[1]
        /\ x.boi /\ c.bier[0] # Invalid /\ Clear(c.bier[0])
        /\ Clear(x.bier[0]) /\ Clear(x.boi_bs) /\ Clear(x.bs_remaining)
    BY DecapsulatedSane DEF DecapEncapsulated, Fits
  <1>3. e \in BagToSet(copies) \/ e \in {f, g}
    BY ReplaceAdds DEF DecapEncapsulated
  <1> HIDE DEF x
  <1>4. Sane(f)
    <2>1. f \in Packet
      BY <1>2 DEF Packet
    <2>2. /\ f.at = x.at /\ f.boi_bs = x.boi_bs /\ f.bs_remaining = x.bs_remaining
          /\ f.stage = "egress" /\ f.port = x.port /\ f.inst = x.inst /\ f.bier = x.bier
          /\ f.eth = x.eth /\ f.frr = x.frr /\ f.boi = x.boi
      BY <1>2 DEF Packet
    <2> HIDE DEF f
    <2>3. Fits(f) /\ Watched(f)
      BY <1>2, <2>1, <2>2 DEF Fits, Watched
    <2>4. Around(f)
      BY <1>2, <2>2, NotValid DEF Around
    <2> QED BY <2>3, <2>4 DEF Sane, Tunnelled
  <1>5. Sane(g)
    <2>1. g \in Packet
      BY <1>1, <1>2 DEF Packet, Frr
    <2>2. /\ g.at = x.at /\ g.boi_bs = x.boi_bs /\ g.bs_remaining = x.bs_remaining
          /\ g.stage = x.stage /\ g.port = x.port /\ g.inst = x.inst /\ g.bier = c.bier
          /\ g.eth = x.eth /\ g.frr.bp = x.frr.bp /\ g.frr.add_bm = x.frr.add_bm
          /\ g.boi = x.boi
      BY <1>2 DEF Packet, Frr
    <2> HIDE DEF g
    <2>3. Fits(g) /\ Watched(g)
      BY <1>2, <2>1, <2>2 DEF Fits, Watched
    <2>4. Around(g)
      BY <1>2, <2>2 DEF Around
    <2> QED BY <2>3, <2>4 DEF Sane, Tunnelled
  <1> QED BY <1>3, <1>4, <1>5

LEMMA ForwardConnectedSane ==
    ASSUME Known, NEW c, Sane(c), ForwardConnected(c), NEW e \in BagToSet(copies')
    PROVE  e \in BagToSet(copies) \/ Sane(e)
  <1> DEFINE d == Prepared(c)
             k == LowBit(d.boi_bs)
             p == Bift[c.at][k]
             g == [d EXCEPT !.boi_bs = @ \ {k},
                            !.needs_cloning = TRUE,
                            !.port = p]
             f == [g EXCEPT !.stage = "egress"]
  <1>1. /\ BierAtIngress(c) /\ Found(d) /\ d.boi_bs # {} /\ k # DecapBit(c.at)
        /\ ToEgress(c, g)
    BY DEF ForwardConnected, Unaffected, Found
  <1>2. /\ Fits(d) /\ d \in Packet /\ Watched(d) /\ d.bier[1] = c.bier[1]
        /\ d.bier[0] \in SUBSET AllBits /\ d.at = c.at /\ d.at \in Switches
        /\ c \in Packet /\ d.stage = "ingress" /\ d.inst = c.inst
    BY <1>1, PreparedFits, SoughtFits, PreparedWatched
       DEF Sane, Known, Fits, Packet, BierAtIngress
  <1>3. c.bier[1] # Invalid => /\ d.boi
                               /\ Clear(d.bier[0])
                               /\ Clear(d.boi_bs)
                               /\ Clear(d.bs_remaining)
    BY <1>1, PreparedAround
  <1>4. d.boi_bs \subseteq Boi[c.at] /\ d.boi_bs \subseteq AllBits
    BY <1>2, BitNumbers DEF Fits
  <1>5. k \in Boi[c.at]
    BY <1>1, <1>4, LowBitIn
  <1>6. p \in Port
    BY <1>1, <1>2, <1>5, BiftPort
  <1> HIDE DEF d, k, p
  <1>7. f \in Packet
    BY <1>2, <1>6 DEF Packet
  <1>8. /\ f.at = d.at /\ f.boi_bs = d.boi_bs \ {k} /\ f.bs_remaining = d.bs_remaining
        /\ f.stage = "egress" /\ f.inst = d.inst /\ f.bier = d.bier /\ f.boi = d.boi
        /\ f.eth = d.eth /\ f.frr = d.frr
    BY <1>2 DEF Packet
  <1> HIDE DEF f
  <1>9. f.inst # "clone" /\ f.bier[0] # Invalid
    BY <1>2, <1>8, NotValid DEF Fits
  <1>10. Fits(f) /\ Watched(f)
    BY <1>2, <1>4, <1>7, <1>8, <1>9 DEF Fits, Watched
  <1>11. Tunnelled(f)
    BY <1>2, <1>3, <1>8, <1>9 DEF Tunnelled, Around, Clear
  <1> QED BY <1>1, <1>10, <1>11, ToEgressAdds DEF Sane, f, k, p, d

LEMMA IngressSane ==
    ASSUME Known, NEW c, Sane(c), Ingress(c), NEW e \in BagToSet(copies')
    PROVE  e \in BagToSet(copies) \/ Sane(e)
  <1>1. CASE DropEmpty(c)
    BY <1>1, ReplaceAdds DEF DropEmpty
  <1> QED BY <1>1, AddBierHeaderSane, NoPortChosenSane, BtaftRecursionSane,
             BtaftApplySane, BtaftMissingSane, HandedOverSane, DecapEncapsulatedSane,
             ForwardConnectedSane
          DEF Ingress

-----------------------------------------------------------------------------
(* The egress.                                                             *)

LEMMA RestoredSane ==
    ASSUME NEW c, Sane(c), c.stage = "egress", c.inst = "clone"
    PROVE  LET x == Restored(c)
           IN  Sane(x) /\ x.stage = "egress" /\ x.inst = "clone"
  <1>1. c \in Packet /\ Fits(c) /\ c.at \in Switches /\ c.port = HostPort
    BY DEF Sane, Fits, Packet
  <1>2. CASE c.decap /\ On(c.at, "do_restore_bier_table")
    <2> DEFINE x == [c EXCEPT !.bier[0] = c.bs_remaining, !.decap = FALSE, !.eth = "BIER"]
    <2>1. Restored(c) = x
      BY <1>2 DEF Restored
    <2>2. x \in Packet
      BY <1>1 DEF Packet
    <2>3. /\ x.at = c.at /\ x.boi_bs = c.boi_bs /\ x.bs_remaining = c.bs_remaining
          /\ x.stage = c.stage /\ x.port = c.port /\ x.inst = c.inst
          /\ x.bier[0] = c.bs_remaining /\ x.bier[1] = c.bier[1]
          /\ x.eth = "BIER" /\ x.frr = c.frr /\ x.boi = c.boi /\ x.decap = FALSE
      BY <1>1 DEF Packet
    <2> HIDE DEF x
    <2>4. c.bs_remaining \in SUBSET AllBits /\ c.bs_remaining # Invalid
      BY <1>1, NotValid DEF Packet
    <2>5. Fits(x) /\ Watched(x)
      BY <1>1, <2>2, <2>3, <2>4 DEF Sane, Fits, Watched
    <2>6. Tunnelled(x)
      BY <1>1, <1>2, <2>3, <2>4 DEF Sane, Fits, Tunnelled, Stripped, Around, Spent
    <2> QED BY <2>1, <2>3, <2>5, <2>6 DEF Sane
  <1>3. CASE ~(c.decap /\ On(c.at, "do_restore_bier_table"))
    BY <1>3 DEF Restored
  <1> QED BY <1>2, <1>3

LEMMA RequeuedSane ==
    ASSUME NEW c, Sane(c), c.stage = "egress", c.inst = "clone"
    PROVE  LET x == Requeued(c)
           IN  Sane(x) /\ x.stage = "egress" /\ x.inst = "clone"
  <1>1. c \in Packet /\ Fits(c) /\ c.at \in Switches /\ c.port = HostPort
    BY DEF Sane, Fits, Packet
  <1>2. CASE c.needs_cloning /\ On(c.at, "do_clone_recirculation_table")
    <2> DEFINE h == SetBitString(c.bier, c.bs_remaining)
               x == [c EXCEPT !.needs_cloning = FALSE, !.recirc = TRUE, !.bier = h]
    <2>1. Requeued(c) = x
      BY <1>2 DEF Requeued
    <2>2. /\ h \in Headers /\ h[1] = c.bier[1]
          /\ h[0] = IF c.bier[0] = Invalid THEN Invalid ELSE c.bs_remaining
      BY <1>1 DEF SetBitString, Packet, Headers
    <2> HIDE DEF h
    <2>3. x \in Packet
      BY <1>1, <2>2 DEF Packet, Headers
    <2>4. /\ x.at = c.at /\ x.boi_bs = c.boi_bs /\ x.bs_remaining = c.bs_remaining
          /\ x.stage = c.stage /\ x.port = c.port /\ x.inst = c.inst /\ x.bier = h
          /\ x.eth = c.eth /\ x.frr = c.frr /\ x.boi = c.boi /\ x.decap = c.decap
      BY <1>1 DEF Packet
    <2> HIDE DEF x
    <2>5. c.bs_remaining \in SUBSET AllBits /\ c.bs_remaining # Invalid
      BY <1>1, NotValid DEF Packet
    <2>6. Fits(x) /\ Watched(x)
      BY <1>1, <2>2, <2>3, <2>4, <2>5 DEF Sane, Fits, Watched
    <2>7. Tunnelled(x)
      BY <1>1, <1>2, <2>2, <2>4, <2>5 DEF Sane, Fits, Tunnelled, Stripped, Around, Spent
    <2> QED BY <2>1, <2>4, <2>6, <2>7 DEF Sane
  <1>3. CASE ~(c.needs_cloning /\ On(c.at, "do_clone_recirculation_table"))
    BY <1>3 DEF Requeued
  <1> QED BY <1>2, <1>3

LEMMA FrrRequeuedSane ==
    ASSUME NEW c, Sane(c), c.stage = "egress"
    PROVE  LET x == FrrRequeued(c)
           IN  Sane(x) /\ x.stage = "egress"
  <1> DEFINE x == [c EXCEPT !.needs_cloning = FALSE, !.recirc = TRUE]
  <1>1. c \in Packet
    BY DEF Sane, Fits
  <1>2. x \in Packet
    BY <1>1 DEF Packet
  <1>3. /\ x.at = c.at /\ x.boi_bs = c.boi_bs /\ x.bs_remaining = c.bs_remaining
        /\ x.stage = c.stage /\ x.port = c.port /\ x.inst = c.inst /\ x.bier = c.bier
        /\ x.eth = c.eth /\ x.frr = c.frr /\ x.boi = c.boi /\ x.decap = c.decap
    BY <1>1 DEF Packet
  <1>4. FrrRequeued(c) = x \/ FrrRequeued(c) = c
    BY DEF FrrRequeued
  <1> HIDE DEF x
  <1>5. Fits(x) /\ Watched(x) /\ Tunnelled(x)
    BY <1>2, <1>3
       DEF Sane, Fits, Watched, Tunnelled, Stripped, Around, Spent
  <1> QED BY <1>3, <1>4, <1>5 DEF Sane

LEMMA DecappedSane ==
    ASSUME NEW c, Sane(c), c.stage = "egress"
    PROVE  LET x == Decapped(c)
           IN  Sane(x) /\ x.stage = "egress"
  <1>1. c \in Packet
    BY DEF Sane, Fits
  <1>2. CASE c.decap /\ c.bier[1] # Invalid /\ On(c.at, "do_remove_outer_bier_header")
    <2> DEFINE x == [c EXCEPT !.bier[0] = Invalid, !.boi = FALSE, !.decap = FALSE]
    <2>1. Decapped(c) = x
      BY <1>2 DEF Decapped
    <2>2. x \in Packet
      BY <1>1 DEF Packet
    <2>3. /\ x.at = c.at /\ x.boi_bs = c.boi_bs /\ x.bs_remaining = c.bs_remaining
          /\ x.stage = c.stage /\ x.port = c.port /\ x.inst = c.inst
          /\ x.bier[0] = Invalid /\ x.bier[1] = c.bier[1]
          /\ x.eth = c.eth /\ x.frr = c.frr /\ x.decap = FALSE
      BY <1>1 DEF Packet
    <2> HIDE DEF x
    <2>4. Fits(x) /\ Watched(x) /\ Tunnelled(x)
      BY <1>2, <2>2, <2>3 DEF Sane, Fits, Watched, Tunnelled, Stripped
    <2> QED BY <2>1, <2>3, <2>4 DEF Sane
  <1>3. CASE c.decap /\ c.bier[1] = Invalid /\ On(c.at, "do_decap_table")
    <2> DEFINE x == [c EXCEPT !.bier[0] = Invalid, !.eth = "IPv4"]
    <2>1. Decapped(c) = x
      BY <1>3 DEF Decapped
    <2>2. x \in Packet
      BY <1>1 DEF Packet
    <2>3. /\ x.at = c.at /\ x.boi_bs = c.boi_bs /\ x.bs_remaining = c.bs_remaining
          /\ x.stage = c.stage /\ x.port = c.port /\ x.inst = c.inst
          /\ x.bier[1] = c.bier[1] /\ x.eth = "IPv4" /\ x.frr = c.frr
      BY <1>1 DEF Packet
    <2> HIDE DEF x
    <2>4. Fits(x) /\ Watched(x) /\ Tunnelled(x)
      BY <1>3, <2>2, <2>3 DEF Sane, Fits, Watched, Tunnelled
    <2> QED BY <2>1, <2>3, <2>4 DEF Sane
  <1>4. CASE /\ ~(c.decap /\ c.bier[1] # Invalid /\ On(c.at, "do_remove_outer_bier_header"))
             /\ ~(c.decap /\ c.bier[1] = Invalid /\ On(c.at, "do_decap_table"))
    <2>1. Decapped(c) = c
      BY <1>4 DEF Decapped
    <2> QED BY <2>1
  <1> QED BY <1>2, <1>3, <1>4

LEMMA EgressResultSane ==
    ASSUME NEW c, Sane(c), c.stage = "egress"
    PROVE  Sane(EgressResult(c)) /\ EgressResult(c).stage = "egress"
  <1>1. CASE c.inst = "clone"
    <2> DEFINE x == FrrRequeued(Requeued(Restored(c)))
    <2>1. Sane(x) /\ x.stage = "egress"
      BY <1>1, RestoredSane, RequeuedSane, FrrRequeuedSane
    <2>2. EgressResult(c) = Decapped(x)
      BY <1>1 DEF EgressResult
    <2> HIDE DEF x
    <2> QED BY <2>1, <2>2, DecappedSane
  <1>2. CASE c.inst # "clone"
    BY <1>2, DecappedSane DEF EgressResult
  <1> QED BY <1>1, <1>2

LEMMA CloneSane ==
    ASSUME NEW c, Sane(c), c.stage = "egress", NEW e \in CloneOf(c)
    PROVE  Sane(e)
  <1> DEFINE r == EgressResult(c)
             x == [r EXCEPT !.inst = "clone", !.port = HostPort]
  <1>1. Sane(r) /\ r.stage = "egress" /\ r \in Packet
    BY EgressResultSane DEF Sane, Fits
  <1>2. e = x
    BY DEF CloneOf
  <1> HIDE DEF r
  <1>3. x \in Packet
    BY <1>1, SwitchNumbers DEF Packet
  <1>4. /\ x.at = r.at /\ x.boi_bs = r.boi_bs /\ x.bs_remaining = r.bs_remaining
        /\ x.stage = r.stage /\ x.port = HostPort /\ x.bier = r.bier
        /\ x.eth = r.eth /\ x.frr = r.frr /\ x.boi = r.boi /\ x.decap = r.decap
    BY <1>1 DEF Packet
  <1> HIDE DEF x
  <1>5. Fits(x) /\ Watched(x) /\ Tunnelled(x)
    BY <1>1, <1>3, <1>4
       DEF Sane, Fits, Watched, Tunnelled, Stripped, Around, Spent
  <1> QED BY <1>2, <1>5 DEF Sane

LEMMA ReparsedHeaders ==
    ASSUME NEW h \in Headers
    PROVE  /\ Reparsed(h) \in Headers
           /\ h[0] = Invalid => Reparsed(h)[0] = h[1] /\ Reparsed(h)[1] = Invalid
           /\ h[0] # Invalid => Reparsed(h) = h
  BY DEF Reparsed, Stack, Headers

LEMMA RecirculatedSane ==
    ASSUME NEW r, Sane(r), r.stage = "egress", NEW e \in Recirculated(r)
    PROVE  Sane(e)
  <1> DEFINE h == Reparsed(r.bier)
             x == [r EXCEPT !.stage = "ingress", !.inst = "normal", !.port = NullPort,
                            !.bier = h, !.recirc = FALSE]
  <1>1. r \in Packet /\ r.bier \in Headers
    BY DEF Sane, Fits, Packet, Headers
  <1>2. /\ h \in Headers
        /\ r.bier[0] = Invalid => h[0] = r.bier[1] /\ h[1] = Invalid
        /\ r.bier[0] # Invalid => h = r.bier
    BY <1>1, ReparsedHeaders
  <1>3. e = x
    BY DEF Recirculated
  <1> HIDE DEF h
  <1>4. x \in Packet
    BY <1>1, <1>2, SwitchNumbers DEF Packet, Headers
  <1>5. /\ x.at = r.at /\ x.boi_bs = r.boi_bs /\ x.bs_remaining = r.bs_remaining
        /\ x.stage = "ingress" /\ x.inst = "normal" /\ x.port = NullPort /\ x.bier = h
        /\ x.eth = r.eth /\ x.frr = r.frr /\ x.boi = r.boi /\ x.decap = r.decap
    BY <1>1 DEF Packet
  <1> HIDE DEF x
  <1>6. Fits(x)
    BY <1>2, <1>4, <1>5 DEF Sane, Fits
  <1>7. Watched(x)
    BY <1>2, <1>5 DEF Sane, Watched
  <1>8. Tunnelled(x)
    BY <1>2, <1>5 DEF Sane, Tunnelled, Stripped, Around, Spent
  <1> QED BY <1>3, <1>6, <1>7, <1>8 DEF Sane

\* A packet the parser of a switch sees for the first time.
LEMMA ParsedSane ==
    ASSUME NEW t \in Switches, NEW eth \in {"BIER", "IPv4"}, NEW h \in Headers,
           eth = "BIER" => h[0] # Invalid,
           h[1] # Invalid => h[0] # Invalid /\ Clear(h[0]),
           down = {} => h[1] = Invalid
    PROVE  Sane(Parsed(t, eth, h))
  <1> DEFINE x == Parsed(t, eth, h)
  <1>1. x \in Packet
    BY SwitchNumbers DEF Parsed, Packet, Frr, Headers
  <1>2. /\ x.at = t /\ x.stage = "ingress" /\ x.inst = "normal" /\ x.port = NullPort
        /\ x.eth = eth /\ x.bier = h /\ x.boi = FALSE /\ x.boi_bs = {}
        /\ x.bs_remaining = {} /\ x.frr.bp = 0 /\ x.frr.add_bm = {}
    BY DEF Parsed
  <1> HIDE DEF x
  <1>3. Fits(x)
    BY <1>1, <1>2 DEF Fits
  <1>4. Watched(x)
    BY <1>2 DEF Watched, Watches, Clear
  <1>5. Tunnelled(x)
    BY <1>2 DEF Tunnelled, Around, Clear
  <1> QED BY <1>3, <1>4, <1>5 DEF Sane, x

\* No header that has been spent leaves the switch: its packet is for the host
\* or for no port.
LEMMA TransmittedSane ==
    ASSUME NEW r, Sane(r), r.stage = "egress", NEW e \in Transmitted(r)
    PROVE  Sane(e)
  <1> DEFINE h == Reparsed(r.bier)
  <1>1. /\ r \in Packet /\ r.bier \in Headers /\ r.eth \in {"BIER", "IPv4"}
        /\ r.at \in Switches /\ r.port \in Port
    BY DEF Sane, Fits, Packet, Headers
  <1>2. /\ h \in Headers
        /\ r.bier[0] = Invalid => h[0] = r.bier[1] /\ h[1] = Invalid
        /\ r.bier[0] # Invalid => h = r.bier
    BY <1>1, ReparsedHeaders
  <1>3. PICK t \in Peer[r.at][r.port] : e = Parsed(t, r.eth, h)
    BY DEF Transmitted
  <1>4. t \in Switches /\ r.port \notin {NullPort, HostPort}
    BY <1>1, <1>3, PeerSwitches
  <1> HIDE DEF h
  <1>5. r.eth = "BIER" => h[0] # Invalid
    BY <1>2 DEF Sane, Fits
  <1>6. down = {} => h[1] = Invalid
    BY <1>2 DEF Sane, Watched
  <1>7. h[1] # Invalid => h[0] # Invalid /\ Clear(h[0])
    BY <1>2, <1>4 DEF Sane, Tunnelled, Stripped, Around, Spent
  <1> QED BY <1>1, <1>2, <1>3, <1>4, <1>5, <1>6, <1>7, ParsedSane

LEMMA EgressSane ==
    ASSUME NEW c, Sane(c), Egress(c), NEW e \in BagToSet(copies')
    PROVE  e \in BagToSet(copies) \/ Sane(e)
  <1> DEFINE r == EgressResult(c)
  <1>1. c.stage = "egress" /\ Replace(c, CloneOf(c) \cup Recirculated(r) \cup Transmitted(r))
    BY DEF Egress
  <1>2. Sane(r) /\ r.stage = "egress"
    BY <1>1, EgressResultSane
  <1> HIDE DEF r
  <1> QED BY <1>1, <1>2, ReplaceAdds, CloneSane, RecirculatedSane, TransmittedSane

-----------------------------------------------------------------------------
(* The invariant.                                                          *)

LEMMA InitIndicates ==
    ASSUME Init
    PROVE  /\ down \subseteq Fragile
           /\ \A l, m \in down : l = m
           /\ indicated \in [Switches -> 0 .. 63]
           /\ \A s \in Switches : indicated[s] \in Watches(s)
  <1>1. down = {} \/ \E l \in Fragile : down = {l}
    BY DEF Init
  <1>2. ASSUME NEW s \in Switches
        PROVE  indicated[s] \in 0 .. 63 /\ indicated[s] \in Watches(s)
    <2>1. indicated[s] =
              IF s \in Monitored /\ \E l \in down : s \in Ends(Links[l])
              THEN LinkBp(s, CHOOSE l \in down : TRUE) ELSE 0
      BY DEF Init
    <2>2. CASE s \in Monitored /\ \E l \in down : s \in Ends(Links[l])
      <3>1. PICK l \in Fragile : down = {l}
        BY <1>1, <2>2
      <3>2. (CHOOSE k \in down : TRUE) = l
        BY <3>1
      <3>3. l \in WatchedBy(s) /\ indicated[s] = LinkBp(s, l)
        BY <2>1, <2>2, <3>1, <3>2 DEF WatchedBy
      <3> QED BY <3>1, <3>3, TopologyAssumption DEF Watches
    <2>3. CASE ~(s \in Monitored /\ \E l \in down : s \in Ends(Links[l]))
      BY <2>1, <2>3 DEF Watches
    <2> QED BY <2>2, <2>3
  <1>3. indicated \in [Switches -> 0 .. 63]
    BY <1>2 DEF Init
  <1> QED BY <1>1, <1>2, <1>3

LEMMA IInvInitially == Init => IInv
  <1> SUFFICES ASSUME Init
               PROVE  IInv
    OBVIOUS
  <1> DEFINE h == Stack(Invalid, Invalid)
             x == Parsed(Source[group], "IPv4", h)
  <1>1. h \in Headers /\ h[1] = Invalid
    BY DEF Stack, Headers
  <1>2. group \in DOMAIN Groups /\ Source[group] \in Switches
    BY TablesAssumption DEF Init
  <1> HIDE DEF h
  <1>3. Sane(x)
    BY <1>1, <1>2, ParsedSane
  <1>4. BagToSet(copies) = {x}
    BY DEF Init, BagToSet, SetToBag, h
  <1> HIDE DEF x
  <1>5. got \in [Switches -> 0 .. 2] /\ late \in BOOLEAN /\ down \subseteq DOMAIN Links
    <2>1. down \subseteq Fragile
      BY InitIndicates
    <2>2. Fragile \subseteq DOMAIN Links
      BY TopologyAssumption
    <2>3. got = [s \in Switches |-> 0] /\ late = FALSE
      BY DEF Init
    <2>4. got \in [Switches -> 0 .. 2]
      <3>1. 0 \in 0 .. 2
        OBVIOUS
      <3> QED BY <2>3, <3>1, Zenon
    <2> QED BY <2>1, <2>2, <2>3, <2>4
  <1>6. installed \in [Switches -> 0 .. Len(InstallOrder)]
    <2>1. Len(InstallOrder) \in Nat
      BY DEF InstallOrder
    <2> QED BY <2>1 DEF Init
  <1>7. TypeOK
    BY <1>2, <1>3, <1>4, <1>5, <1>6, InitIndicates DEF TypeOK, Sane, Fits
  <1> QED BY <1>3, <1>4, <1>7, InitIndicates DEF IInv, Known

\* A copy that is not touched is not affected by what happens elsewhere: a link
\* fails before anything is known of it, and tables are only filled.
LEMMA UntouchedSane ==
    ASSUME Known, NEW c, Sane(c),
           \/ UNCHANGED <<down, installed>>
           \/ (\E l \in Fragile : Fail(l))
           \/ \E s \in Switches : Install(s)
    PROVE  Sane(c)'
  <1>1. CASE UNCHANGED <<down, installed>>
    BY <1>1 DEF Sane, Watched, Tunnelled, Stripped, Around, Spent, Clear, Indicated,
                Watches, On
  <1>2. CASE \E l \in Fragile : Fail(l)
    <2>1. down = {} /\ down' # {}
      BY <1>2 DEF Fail
    <2>2. c.frr.bp = 0 /\ c.bier[1] = Invalid /\ c.frr.add_bm = {}
      BY <2>1, NoneIndicated DEF Sane, Watched
    <2> QED BY <2>1, <2>2 DEF Sane, Watched, Watches, Clear, Tunnelled
  <1>3. ASSUME NEW s \in Switches, Install(s)
        PROVE  Sane(c)'
    <2>1. c.at \in Switches /\ installed \in [Switches -> 0 .. Len(InstallOrder)]
          /\ installed[s] < Len(InstallOrder)
          /\ installed' = [installed EXCEPT ![s] = @ + 1] /\ down' = down
      BY <1>3 DEF Install, Known, TypeOK, Sane, Fits, Packet
    <2>2. installed[c.at] \in 0 .. Len(InstallOrder)
          /\ installed'[c.at] \in {installed[c.at], installed[c.at] + 1}
          /\ installed'[c.at] \in 0 .. Len(InstallOrder)
      <3>1. Len(InstallOrder) \in Nat
        BY DEF InstallOrder
      <3> QED BY <2>1, <3>1
    <2>3. InPlace[installed[c.at]] \subseteq InPlace[installed'[c.at]]
      BY <2>2 DEF InPlace
    <2>4. On(c.at, "find_bit_pos") => On(c.at, "find_bit_pos")'
      BY <2>3 DEF On
    <2> QED BY <2>1, <2>4 DEF Sane, Watched, Tunnelled, Stripped, Around, Spent, Clear,
                              Indicated, Watches
  <1> QED BY <1>1, <1>2, <1>3

LEMMA HandleKeeps ==
    ASSUME NEW c, Handle(c)
    PROVE  /\ UNCHANGED <<group, down, late, indicated, installed>>
           /\ got' = got \/ got' = [got EXCEPT ![c.at] = IF @ = 2 THEN 2 ELSE @ + 1]
  <1>1. CASE Ingress(c)
    BY <1>1 DEF Ingress, AddBierHeader, NoPortChosen, DropEmpty, BtaftRecursion,
                BtaftApply, BtaftMissing, Handover, HandoverToNone, HandoverMissing,
                DecapEncapsulated, ForwardConnected, ToEgress
  <1>2. CASE Egress(c)
    BY <1>2 DEF Egress
  <1> QED BY <1>1, <1>2 DEF Handle

LEMMA IInvInductive == IInv /\ [Next]_vars => IInv'
  <1> SUFFICES ASSUME IInv, [Next]_vars
               PROVE  IInv'
    OBVIOUS
  <1>1. Known /\ TypeOK /\ \A c \in BagToSet(copies) : Sane(c)
    BY DEF IInv, Known
  <1>2. ASSUME NEW c \in BagToSet(copies), Handle(c)
        PROVE  IInv'
    <2>1. /\ UNCHANGED <<group, down, late, indicated, installed>>
          /\ got' = got \/ got' = [got EXCEPT ![c.at] = IF @ = 2 THEN 2 ELSE @ + 1]
      BY <1>2, HandleKeeps
    <2>2. got' \in [Switches -> 0 .. 2]
      BY <1>1, <2>1 DEF TypeOK
    <2>3. ASSUME NEW e \in BagToSet(copies')
          PROVE  Sane(e)
      BY <1>1, <1>2, IngressSane, EgressSane DEF Handle
    <2>4. \A e \in BagToSet(copies') : Sane(e)'
      BY <1>1, <2>1, <2>3, UntouchedSane
    <2>5. Known'
      BY <1>1, <2>1, <2>2, <2>3 DEF Known, TypeOK, Watches, Sane, Fits
    <2> QED BY <2>4, <2>5 DEF IInv
  <1>3. ASSUME NEW l \in Fragile, Fail(l)
        PROVE  IInv'
    <2>1. /\ down = {} /\ down' = {l} /\ late' = TRUE
          /\ UNCHANGED <<group, copies, got, indicated, installed>>
      BY <1>3 DEF Fail
    <2>2. \A e \in BagToSet(copies') : Sane(e)'
      BY <1>1, <1>3, <2>1, UntouchedSane
    <2>3. \A s \in Switches : indicated[s] = 0
      BY <1>1, <2>1, NoneIndicated DEF Known
    <2>4. down' \subseteq DOMAIN Links
      BY <2>1, TopologyAssumption
    <2>5. Known'
      BY <1>1, <2>1, <2>3, <2>4 DEF Known, TypeOK, Watches
    <2> QED BY <2>2, <2>5 DEF IInv
  <1>4. ASSUME NEW s \in Switches, Install(s)
        PROVE  IInv'
    <2>1. /\ installed[s] < Len(InstallOrder)
          /\ installed' = [installed EXCEPT ![s] = @ + 1]
          /\ UNCHANGED <<group, copies, got, down, late, indicated>>
      BY <1>4 DEF Install
    <2>2. \A e \in BagToSet(copies') : Sane(e)'
      BY <1>1, <1>4, <2>1, UntouchedSane
    <2>3. installed' \in [Switches -> 0 .. Len(InstallOrder)]
      <3>1. Len(InstallOrder) \in Nat
        BY DEF InstallOrder
      <3> QED BY <1>1, <2>1, <3>1 DEF TypeOK
    <2>4. Known'
      BY <1>1, <2>1, <2>3 DEF Known, TypeOK, Watches
    <2> QED BY <2>2, <2>4 DEF IInv
  <1>5. ASSUME NEW l \in down, NEW s \in Monitored \cap Ends(Links[l]), Indicate(s, l)
        PROVE  IInv'
    <2>1. /\ indicated' = [indicated EXCEPT ![s] = LinkBp(s, l)]
          /\ UNCHANGED <<group, copies, got, down, late, installed>>
      BY <1>5 DEF Indicate
    <2>2. \A e \in BagToSet(copies') : Sane(e)'
      BY <1>1, <2>1, UntouchedSane
    <2>3. l \in WatchedBy(s) /\ s \in Switches
      BY <1>1, <1>5, TopologyAssumption DEF Known, WatchedBy
    <2>4. LinkBp(s, l) \in 0 .. 63 /\ LinkBp(s, l) \in Watches(s)
      BY <1>5, <2>3, TopologyAssumption DEF Watches
    <2>5. Known'
      BY <1>1, <2>1, <2>4 DEF Known, TypeOK, Watches
    <2> QED BY <2>2, <2>5 DEF IInv
  <1>6. CASE UNCHANGED vars
    <2>1. UNCHANGED <<group, copies, got, down, late, indicated, installed>>
      BY <1>6 DEF vars
    <2>2. \A e \in BagToSet(copies') : Sane(e)'
      BY <1>1, <2>1, UntouchedSane
    <2>3. Known'
      BY <1>1, <2>1 DEF Known, TypeOK, Watches
    <2> QED BY <2>2, <2>3 DEF IInv
  <1> QED BY <1>2, <1>3, <1>4, <1>5, <1>6 DEF Next

LEMMA IInvHolds == Spec => []IInv
  BY IInvInitially, IInvInductive, PTL DEF Spec

\* The types: the switch looks for bits only in a header that is there, and takes
\* ports only from entries it has (bfr_bier_te.p4:11-51, headers.p4).
THEOREM TypeCorrect == Spec => []TypeOK
  <1>1. IInv => TypeOK
    BY DEF IInv, Known
  <1> QED BY <1>1, IInvHolds, PTL

\* A packet that is led around a link is not led around it again, whenever the
\* link fails, its ends notice and the tables are filled: the stack of two
\* headers holds (bfr_bier_te.p4:154-177, parser.p4).
THEOREM NoThirdHeaderHolds == Spec => []NoThirdHeader
  <1>1. IInv => NoThirdHeader
    BY NotAffected DEF IInv, NoThirdHeader
  <1> QED BY <1>1, IInvHolds, PTL

\* A switch that insert_bier_te is through with has every table.
LEMMA FilledOn ==
    ASSUME Filled, NEW s \in Switches
    PROVE  /\ On(s, "bift_entries") /\ On(s, "bier_ingress") /\ On(s, "find_bit_pos")
           /\ On(s, "do_cloning_table") /\ On(s, "do_clone_recirculation_table")
           /\ On(s, "mirroring") /\ On(s, "do_decap_table")
           /\ On(s, "do_reinsert_encapsulated") /\ On(s, "do_handover_mc_overlay")
           /\ On(s, "do_restore_bier_table") /\ On(s, "do_remove_outer_bier_header")
           /\ On(s, "do_frr_recursion") /\ On(s, "mc_overlay")
  <1>1. Len(InstallOrder) = 13 /\ installed[s] = 13
    BY DEF InstallOrder, Filled
  <1>2. InPlace[13] = {InstallOrder[i] : i \in 1 .. 13}
    BY <1>1 DEF InPlace
  <1>3. \A i \in 1 .. 13 : On(s, InstallOrder[i])
    BY <1>1, <1>2 DEF On
  <1>4. /\ InstallOrder[1] = "bift_entries" /\ InstallOrder[2] = "bier_ingress"
        /\ InstallOrder[3] = "find_bit_pos" /\ InstallOrder[4] = "do_cloning_table"
        /\ InstallOrder[5] = "do_clone_recirculation_table"
        /\ InstallOrder[6] = "mirroring" /\ InstallOrder[7] = "do_decap_table"
        /\ InstallOrder[8] = "do_reinsert_encapsulated"
        /\ InstallOrder[9] = "do_handover_mc_overlay"
        /\ InstallOrder[10] = "do_restore_bier_table"
        /\ InstallOrder[11] = "do_remove_outer_bier_header"
        /\ InstallOrder[12] = "do_frr_recursion" /\ InstallOrder[13] = "mc_overlay"
    BY DEF InstallOrder
  <1> QED BY <1>3, <1>4

\* A port has one link at most, and so one neighbour.
LEMMA OneNeighbour ==
    ASSUME NEW s \in Switches, NEW p \in Port, NEW t \in Peer[s][p], NEW u \in Peer[s][p]
    PROVE  t = u
  <1> DEFINE M(l) == {m \in 1 .. l : s \in Ends(Links[m])}
  <1>1. Peer[s][p] = UNION {Ends(Links[l]) \ {s} : l \in LinkAt(Links, Hosts[s], s, p)}
    BY DEF Peer, Peers
  <1>2. PICK l \in LinkAt(Links, Hosts[s], s, p) : t \in Ends(Links[l]) \ {s}
    BY <1>1
  <1>3. PICK m \in LinkAt(Links, Hosts[s], s, p) : u \in Ends(Links[m]) \ {s}
    BY <1>1
  <1>4. /\ l \in DOMAIN Links /\ s \in Ends(Links[l]) /\ PortOn(Links, Hosts[s], s, l) = p
        /\ m \in DOMAIN Links /\ s \in Ends(Links[m]) /\ PortOn(Links, Hosts[s], s, m) = p
    BY DEF LinkAt
  <1>5. Hosts[s] \in Nat
    BY TopologyAssumption
  <1>6. ASSUME NEW k \in DOMAIN Links
        PROVE  /\ IsFiniteSet(M(k)) /\ Cardinality(M(k)) \in Nat
               /\ PortOn(Links, Hosts[s], s, k) = Hosts[s] + Cardinality(M(k))
    <2>1. IsFiniteSet(1 .. k)
      BY LinkEnds, FS_Interval
    <2>2. IsFiniteSet(M(k))
      BY <2>1, FS_Subset
    <2> QED BY <2>2, FS_CardinalityType DEF PortOn
  <1>7. ASSUME NEW j \in DOMAIN Links, NEW k \in DOMAIN Links, j < k,
               s \in Ends(Links[k]), Cardinality(M(j)) = Cardinality(M(k))
        PROVE  FALSE
    <2>1. j \in Nat /\ k \in Nat \ {0}
      BY LinkEnds
    <2>2. M(j) \subseteq M(k) /\ k \in M(k) /\ k \notin M(j)
      BY <1>7, <2>1
    <2> HIDE DEF M
    <2> QED BY <1>6, <1>7, <2>2, FS_Subset
  <1> HIDE DEF M
  <1>8. Cardinality(M(l)) = Cardinality(M(m))
    BY <1>4, <1>5, <1>6
  <1>9. l = m
    BY <1>4, <1>7, <1>8, LinkEnds
  <1> QED BY <1>2, <1>3, <1>4, <1>9 DEF Ends

-----------------------------------------------------------------------------
(* The bag of copies, each with a set of hosts.                            *)

Bag(B) == B = [e \in DOMAIN B |-> B[e]] /\ \A e \in DOMAIN B : B[e] \in Nat \ {0}

Count(B, e) == IF e \in DOMAIN B THEN B[e] ELSE 0

LEMMA ReplaceCounts ==
    ASSUME NEW c, NEW new, Bag(copies), c \in DOMAIN copies, Replace(c, new)
    PROVE  /\ Bag(copies')
           /\ \A e : Count(copies', e) =
                  (Count(copies, e) - (IF e = c THEN 1 ELSE 0)) + (IF e \in new THEN 1 ELSE 0)
           /\ \A e \in DOMAIN copies' : copies'[e] > 0
  <1> DEFINE B1 == [e \in DOMAIN copies |->
                       IF e \in {c} THEN copies[e] - 1 ELSE copies[e]]
             B2 == [e \in {d \in DOMAIN B1 : B1[d] > 0} |-> B1[e]]
             B3 == [e \in DOMAIN B2 \cup new |->
                       (IF e \in DOMAIN B2 THEN B2[e] ELSE 0)
                           + (IF e \in new THEN 1 ELSE 0)]
  <1>1. copies' = (copies (-) SetToBag({c})) (+) SetToBag(new)
    BY DEF Replace
  <1>2. \A S : SetToBag(S) = [e \in S |-> 1]
    BY DEF SetToBag
  <1>3. copies (-) SetToBag({c}) = B2
    BY <1>2 DEF (-)
  <1>4. copies' = B3
    BY <1>1, <1>2, <1>3 DEF (+)
  <1> QED BY <1>4 DEF Bag, Count

-----------------------------------------------------------------------------
(* What a copy is like when the tables are filled and its group has a plan. *)

NoneGathered(frr) == frr.BitString = {} /\ frr.add_bm = {} /\ frr.reset_bm = {}

FrrRest(c) == IF c.frr.BitString = {} THEN c.bs_remaining ELSE c.frr.BitString

\* btaft has taken the entries I, and taken their next hops out of the BitString,
\* or begun again with all of it.
Gathering(c) ==
    /\ c.bier[1] = Invalid /\ c.boi /\ c.frr.bp # 0
    /\ \E I \in SUBSET EntriesFor(c.at, c.frr.bp, c.bs_remaining) :
          /\ c.frr.add_bm = Added(c.at, I)
          /\ c.frr.reset_bm = Taken(c.at, I)
          /\ c.bs_remaining \ NextHops(c.at, I) \subseteq FrrRest(c)
          /\ FrrRest(c) \subseteq c.bs_remaining

\* What btaft gathered is for the bit at hand, or the switch has used it, and the
\* packet in the second header has no bit for it.
Gather(c) ==
    \/ NoneGathered(c.frr)
    \/ Gathering(c)
    \/ c.bier[1] = Invalid /\ c.boi /\ c.boi_bs = {}
    \/ c.bier[1] = Invalid /\ ~c.boi /\ c.bier[0] \cap Boi[c.at] = {}
    \/ c.bier[1] # Invalid /\ c.bier[1] \cap Boi[c.at] = {}

\* The plan has the way of the copy, or those of the bits still to be served.
Charted(c) ==
    IF c.boi
    THEN /\ Tidy(c.at, c.boi_bs, c.bs_remaining, c.bier[1])
         /\ c.bier[1] # Invalid => DecapBit(c.at) \notin c.boi_bs
    ELSE <<c.at, Reparsed(c.bier)[0], Reparsed(c.bier)[1]>> \in Ways

IngressOk(c) ==
    /\ ~c.recirc
    /\ Gather(c)
    /\ c.decap =>
           /\ c.boi /\ c.needs_cloning /\ c.bier[1] # Invalid
           /\ DecapBit(c.at) \notin c.boi_bs
           /\ TidyEnd(c.at, c.boi_bs, c.bier[1])
    /\ ~c.decap =>
           /\ ~c.needs_cloning
           /\ Charted(c)
           /\ c.boi => c.bier[0] = c.bs_remaining

FrameOk(c) ==
    /\ c.eth = "BIER"
    /\ c.bier[0] # Invalid
    /\ Gather(c)
    /\ Sent(c) \cap Back(c) = {}
    /\ c.recirc => ~Flagged(c)
    /\ c.needs_cloning => c.boi
    /\ c.decap => c.needs_cloning
    /\ c.port # HostPort /\ ~c.recirc => Frame(c) \subseteq Ways
    /\ c.port = HostPort <=> c.decap /\ c.bier[1] = Invalid
    /\ IF c.decap /\ c.bier[1] # Invalid
       THEN Inner(c.at, c.bier[1]) \in Ways
       ELSE Charted(c) /\ (c.boi => c.bier[0] = c.bs_remaining)

CloneOk(c) ==
    /\ ~c.recirc
    /\ Gather(c)
    /\ Charted(c)
    /\ c.needs_cloning \/ c.frr.needs_recursion \/ c.frr.needs_cloning
    /\ c.decap => c.boi /\ c.needs_cloning /\ c.bier[1] = Invalid
    /\ ~c.decap => c.eth = "BIER"
    /\ c.boi /\ ~c.decap => c.bier[0] = c.bs_remaining
    /\ ~c.boi /\ c.needs_cloning => c.bier[0] = Invalid

Orderly(c) ==
    IF c.stage # "ingress" THEN IF c.inst = "clone" THEN CloneOk(c) ELSE FrameOk(c)
    ELSE IF c.eth = "IPv4" THEN c = Parsed(Source[group], "IPv4", Stack(Invalid, Invalid))
    ELSE IngressOk(c)

Shared ==
    /\ \A c \in DOMAIN copies : copies[c] > 1 => Cover(c) = {}
    /\ \A c, d \in DOMAIN copies : c # d => Cover(c) \cap Cover(d) = {}

RInv ==
    /\ IInv /\ Filled /\ Planned /\ Bag(copies)
    /\ \A c \in BagToSet(copies) : Orderly(c)
    /\ Apart
    /\ AtMostOncePerHost

\* The packets a copy becomes share out what it leads to.
Divides(c, new) ==
    /\ \A d \in new : Orderly(d) /\ Cover(d) \subseteq Cover(c)
    /\ \A d, e \in new : d # e => Cover(d) \cap Cover(e) = {}

LEMMA RigidWays ==
    ASSUME UNCHANGED group, NEW c
    PROVE  /\ Cover(c)' = Cover(c)
           /\ Orderly(c)' = Orderly(c)
           /\ Planned' = Planned
           /\ Members' = Members
  BY DEF Cover, Ahead, Orderly, Planned, Entrance, Members

LEMMA ReplaceShared ==
    ASSUME NEW c, NEW new, Bag(copies), c \in DOMAIN copies, Replace(c, new),
           Shared, Divides(c, new)
    PROVE  /\ \A d \in DOMAIN copies' : copies'[d] > 1 => Cover(d) = {}
           /\ \A d, e \in DOMAIN copies' : d # e => Cover(d) \cap Cover(e) = {}
           /\ \A d \in DOMAIN copies' : d \in DOMAIN copies \/ d \in new
           /\ \A d \in DOMAIN copies' : d \in new \/ d # c \/ Cover(c) = {}
  <1>1. /\ Bag(copies')
        /\ \A e : Count(copies', e) =
               (Count(copies, e) - (IF e = c THEN 1 ELSE 0)) + (IF e \in new THEN 1 ELSE 0)
    BY ReplaceCounts
  <1>2. \A d \in DOMAIN copies : copies[d] \in Nat \ {0} /\ Count(copies, d) = copies[d]
    BY DEF Bag, Count
  <1>3. \A d \in DOMAIN copies' : copies'[d] \in Nat \ {0} /\ Count(copies', d) = copies'[d]
    BY <1>1 DEF Bag, Count
  <1>4. \A d : d \notin DOMAIN copies => Count(copies, d) = 0
    BY DEF Count
  <1>5. \A d \in new : d \in DOMAIN copies /\ d # c => Cover(d) = {}
    BY DEF Shared, Divides
  <1>6. ASSUME NEW d \in DOMAIN copies', copies'[d] > 1
        PROVE  Cover(d) = {}
    <2>1. d \in DOMAIN copies
      BY <1>1, <1>3, <1>4, <1>6
    <2>2. CASE d \in new /\ d # c
      BY <1>5, <2>1, <2>2
    <2>3. CASE d \notin new \/ d = c
      <3>1. copies[d] > 1
        BY <1>1, <1>2, <1>3, <1>6, <2>1, <2>3
      <3> QED BY <2>1, <3>1 DEF Shared
    <2> QED BY <2>2, <2>3
  <1>7. ASSUME NEW d \in DOMAIN copies'
        PROVE  d \in DOMAIN copies \/ d \in new
    BY <1>1, <1>3, <1>4
  <1>8. c \in DOMAIN copies' => c \in new \/ Cover(c) = {}
    <2>1. c \in DOMAIN copies' /\ c \notin new => copies[c] > 1
      BY <1>1, <1>2, <1>3
    <2> QED BY <2>1 DEF Shared
  <1>9. ASSUME NEW d \in DOMAIN copies', NEW e \in DOMAIN copies', d # e
        PROVE  Cover(d) \cap Cover(e) = {}
    <2>1. \A x \in new : Cover(x) \subseteq Cover(c)
      BY DEF Divides
    <2>2. CASE d \in new /\ e \in new
      BY <1>9, <2>2 DEF Divides
    <2>3. CASE d \in new /\ e \notin new
      <3>1. e \in DOMAIN copies /\ (e # c \/ Cover(e) = {})
        BY <1>7, <1>8, <2>3
      <3> QED BY <2>1, <2>3, <3>1 DEF Shared
    <2>4. CASE d \notin new /\ e \in new
      <3>1. d \in DOMAIN copies /\ (d # c \/ Cover(d) = {})
        BY <1>7, <1>8, <2>4
      <3> QED BY <2>1, <2>4, <3>1 DEF Shared
    <2>5. CASE d \notin new /\ e \notin new
      <3>1. d \in DOMAIN copies /\ e \in DOMAIN copies
        BY <1>7, <2>5
      <3> QED BY <1>9, <3>1 DEF Shared
    <2> QED BY <2>2, <2>3, <2>4, <2>5
  <1> QED BY <1>6, <1>7, <1>8, <1>9

\* A step of a copy that divides what it leads to among its successors, except
\* for the host that gets the packet, keeps the copies apart.
LEMMA DividingKeeps ==
    ASSUME RInv, IInv', NEW c \in BagToSet(copies), NEW new, Replace(c, new), Divides(c, new),
           UNCHANGED <<group, down, late, indicated, installed>>,
           \/ got' = got
           \/ /\ got' = [got EXCEPT ![c.at] = IF @ = 2 THEN 2 ELSE @ + 1]
              /\ c.at \in Cover(c) /\ \A d \in new : c.at \notin Cover(d)
    PROVE  RInv'
  <1>1. /\ Bag(copies) /\ c \in DOMAIN copies /\ got \in [Switches -> 0 .. 2]
        /\ BagToSet(copies) = DOMAIN copies /\ BagToSet(copies') = DOMAIN copies'
    BY DEF RInv, IInv, Known, TypeOK, BagToSet
  <1>2. \A d \in DOMAIN copies :
            /\ Orderly(d)
            /\ Cover(d) \subseteq Members
            /\ \A s \in Cover(d) : got[s] = 0
            /\ copies[d] > 1 => Cover(d) = {}
            /\ \A e \in DOMAIN copies : d # e => Cover(d) \cap Cover(e) = {}
    BY <1>1 DEF RInv, Apart
  <1>3. Shared
    BY <1>2 DEF Shared
  <1>4. /\ \A d \in DOMAIN copies' : copies'[d] > 1 => Cover(d) = {}
        /\ \A d, e \in DOMAIN copies' : d # e => Cover(d) \cap Cover(e) = {}
        /\ \A d \in DOMAIN copies' : d \in DOMAIN copies \/ d \in new
        /\ \A d \in DOMAIN copies' : d \in new \/ d # c \/ Cover(c) = {}
    BY <1>1, <1>3, ReplaceShared
  <1>5. \A d \in DOMAIN copies' : Orderly(d) /\ Cover(d) \subseteq Members
    BY <1>1, <1>2, <1>4 DEF Divides
  <1>6. ASSUME NEW d \in DOMAIN copies', NEW s \in Cover(d)
        PROVE  got'[s] = 0
    <2>1. got[s] = 0
      BY <1>1, <1>2, <1>4 DEF Divides
    <2>2. CASE got' = got
      BY <2>1, <2>2
    <2>3. CASE /\ got' = [got EXCEPT ![c.at] = IF @ = 2 THEN 2 ELSE @ + 1]
               /\ c.at \in Cover(c) /\ \A e \in new : c.at \notin Cover(e)
      <3>1. s # c.at
        <4>1. CASE d \in new
          BY <2>3, <4>1
        <4>2. CASE d \notin new
          <5>1. d \in DOMAIN copies /\ d # c
            BY <1>4, <2>3, <4>2
          <5> QED BY <1>1, <1>2, <2>3, <5>1
        <4> QED BY <4>1, <4>2
      <3> QED BY <1>1, <2>1, <2>3, <3>1
    <2> QED BY <2>2, <2>3
  <1>7. AtMostOncePerHost'
    <2>1. AtMostOncePerHost /\ Members' = Members
      BY RigidWays DEF RInv
    <2>2. CASE got' = got
      BY <2>1, <2>2 DEF AtMostOncePerHost
    <2>3. CASE /\ got' = [got EXCEPT ![c.at] = IF @ = 2 THEN 2 ELSE @ + 1]
               /\ c.at \in Cover(c)
      <3>1. c.at \in Members /\ got[c.at] = 0 /\ c.at \in Switches
        BY <1>1, <1>2, <2>3 DEF Members
      <3> QED BY <1>1, <2>1, <2>3, <3>1 DEF AtMostOncePerHost
    <2> QED BY <2>2, <2>3
  <1>8. \A d \in BagToSet(copies') : Orderly(d)'
    BY <1>1, <1>5, RigidWays
  <1>9. Apart'
    <2>1. \A d : Cover(d)' = Cover(d)
      BY RigidWays
    <2>2. Members' = Members
      BY RigidWays
    <2> QED BY <1>1, <1>4, <1>5, <1>6, <2>1, <2>2 DEF Apart
  <1>10. Planned' /\ Filled'
    BY RigidWays DEF RInv, Filled
  <1>11. Bag(copies)'
    BY <1>1, ReplaceCounts DEF Bag
  <1> QED BY <1>7, <1>8, <1>9, <1>10, <1>11 DEF RInv

-----------------------------------------------------------------------------
(* The egress, with all tables.                                            *)

LEMMA ReparsedTwice ==
    ASSUME NEW h \in Headers
    PROVE  /\ Reparsed(Reparsed(h))[0] = Reparsed(h)[0]
           /\ Reparsed(Reparsed(h))[1] = Reparsed(h)[1]
  BY DEF Reparsed, Stack, Headers

\* A packet back at the ingress leads to what it kept.
LEMMA ReturnOrderly ==
    ASSUME NEW c, Sane(c), c.stage = "egress", Gather(c), Charted(c),
           NEW z, z \in Packet, z.at = c.at, z.stage = "ingress", z.eth = "BIER",
           z.bier = Reparsed([i \in {0, 1} |-> IF i = 0 /\ c.boi THEN c.bs_remaining
                                                                ELSE c.bier[i]]),
           z.bs_remaining = c.bs_remaining, z.boi = c.boi, z.boi_bs = c.boi_bs,
           ~z.needs_cloning, ~z.decap, ~z.recirc, z.frr = c.frr,
           ~c.boi => c.bier[0] # Invalid \/ c.bier[1] # Invalid
    PROVE  Orderly(z) /\ Cover(z) = Kept(c)
  <1>1. /\ c \in Packet /\ c.bier \in Headers /\ c.bs_remaining \in SUBSET AllBits
        /\ c.at \in Switches /\ c.bs_remaining # Invalid /\ c.boi \in BOOLEAN
    BY NotValid DEF Sane, Fits, Packet, Headers
  <1>2. CASE c.boi
    <2> DEFINE h == [i \in {0, 1} |-> IF i = 0 /\ c.boi THEN c.bs_remaining ELSE c.bier[i]]
    <2>1. h[0] = c.bs_remaining /\ h[1] = c.bier[1] /\ z.bier = Reparsed(h)
      BY <1>2
    <2> HIDE DEF h
    <2>2. z.bier[0] = c.bs_remaining /\ z.bier[1] = c.bier[1]
      BY <1>1, <2>1 DEF Reparsed
    <2>3. Gather(z)
      BY <1>2, <2>2 DEF Gather, Gathering, FrrRest
    <2>4. Charted(z) /\ Kept(z) = Kept(c)
      BY <1>2, <2>2 DEF Charted, Kept
    <2> QED BY <1>2, <2>2, <2>3, <2>4 DEF Orderly, IngressOk, Cover, Ahead
  <1>3. CASE ~c.boi
    <2> DEFINE h == [i \in {0, 1} |-> IF i = 0 /\ c.boi THEN c.bs_remaining ELSE c.bier[i]]
    <2>1. h = c.bier /\ z.bier = Reparsed(h)
      BY <1>1, <1>3 DEF Headers
    <2> HIDE DEF h
    <2>2. /\ z.bier[0] = Reparsed(c.bier)[0] /\ z.bier[1] = Reparsed(c.bier)[1]
          /\ Reparsed(z.bier)[0] = z.bier[0] /\ Reparsed(z.bier)[1] = z.bier[1]
      BY <1>1, <2>1, ReparsedTwice
    <2>3. /\ c.bier[0] # Invalid => z.bier[0] = c.bier[0] /\ z.bier[1] = c.bier[1]
          /\ c.bier[0] = Invalid => z.bier[0] = c.bier[1] /\ z.bier[1] = Invalid
      BY <1>1, <2>2, ReparsedHeaders
    <2>4. Gather(z)
      BY <1>3, <2>3 DEF Gather, Gathering
    <2>5. Charted(z) /\ Kept(z) = Kept(c)
      BY <1>3, <2>2 DEF Charted, Kept
    <2> QED BY <1>3, <2>4, <2>5 DEF Orderly, IngressOk, Cover, Ahead
  <1> QED BY <1>1, <1>2, <1>3

\* What a clone becomes.
LEMMA CloneResult ==
    ASSUME Filled, NEW c, Sane(c), c.stage = "egress", c.inst = "clone", CloneOk(c)
    PROVE  LET r == EgressResult(c)
           IN  /\ r \in Packet /\ r.recirc /\ r.at = c.at /\ r.eth = "BIER" /\ ~r.decap
               /\ ~r.needs_cloning /\ r.boi = c.boi /\ r.boi_bs = c.boi_bs
               /\ r.bs_remaining = c.bs_remaining /\ r.frr = c.frr
               /\ r.bier = [i \in {0, 1} |-> IF i = 0 /\ c.boi THEN c.bs_remaining
                                                              ELSE c.bier[i]]
  <1>1. /\ c \in Packet /\ c.bier \in Headers /\ c.at \in Switches
        /\ c.bs_remaining \in SUBSET AllBits /\ c.bs_remaining # Invalid
    BY NotValid DEF Sane, Fits, Packet, Headers
  <1>2. /\ On(c.at, "do_restore_bier_table") /\ On(c.at, "do_clone_recirculation_table")
        /\ On(c.at, "do_frr_recursion")
    BY <1>1, FilledOn
  <1> DEFINE x == Restored(c)
             y == Requeued(x)
             w == FrrRequeued(y)
  <1>3. /\ x \in Packet /\ x.at = c.at /\ x.eth = "BIER" /\ ~x.decap /\ ~x.recirc
        /\ (x.needs_cloning <=> c.needs_cloning) /\ x.boi = c.boi /\ x.boi_bs = c.boi_bs
        /\ x.bs_remaining = c.bs_remaining /\ x.frr = c.frr /\ x.bier[1] = c.bier[1]
        /\ x.bier[0] = IF c.decap THEN c.bs_remaining ELSE c.bier[0]
    <2>1. CASE c.decap
      <3>1. x = [c EXCEPT !.bier[0] = c.bs_remaining, !.decap = FALSE, !.eth = "BIER"]
        BY <1>2, <2>1 DEF Restored
      <3>2. ~c.recirc
        BY DEF CloneOk
      <3> HIDE DEF x
      <3>3. x \in Packet
        BY <1>1, <3>1 DEF Packet
      <3>4. /\ x.at = c.at /\ x.eth = "BIER" /\ x.decap = FALSE /\ x.recirc = c.recirc
            /\ x.needs_cloning = c.needs_cloning /\ x.boi = c.boi /\ x.boi_bs = c.boi_bs
            /\ x.bs_remaining = c.bs_remaining /\ x.frr = c.frr
            /\ x.bier[1] = c.bier[1] /\ x.bier[0] = c.bs_remaining
        BY <1>1, <3>1 DEF Packet
      <3> QED BY <2>1, <3>2, <3>3, <3>4
    <2>2. CASE ~c.decap
      <3>1. x = c
        BY <2>2 DEF Restored
      <3> QED BY <1>1, <2>2, <3>1 DEF CloneOk, Packet
    <2> QED BY <2>1, <2>2
  <1>4. /\ y \in Packet /\ y.at = c.at /\ y.eth = "BIER" /\ ~y.decap
        /\ y.boi = c.boi /\ y.boi_bs = c.boi_bs /\ y.frr = c.frr
        /\ y.bs_remaining = c.bs_remaining /\ y.bier[1] = c.bier[1]
        /\ y.bier[0] = (IF c.boi THEN c.bs_remaining ELSE c.bier[0])
        /\ ~y.needs_cloning
        /\ c.needs_cloning => y.recirc
    <2> HIDE DEF x
    <2>1. CASE c.needs_cloning
      <3> DEFINE h == SetBitString(x.bier, x.bs_remaining)
      <3>1. y = [x EXCEPT !.needs_cloning = FALSE, !.recirc = TRUE, !.bier = h]
        BY <1>2, <1>3, <2>1 DEF Requeued
      <3>2. /\ h \in Headers /\ h[1] = c.bier[1]
            /\ h[0] = IF x.bier[0] = Invalid THEN Invalid ELSE c.bs_remaining
        BY <1>1, <1>3 DEF SetBitString, Packet, Headers
      <3>3. h[0] = IF c.boi THEN c.bs_remaining ELSE c.bier[0]
        BY <1>1, <1>3, <2>1, <3>2 DEF CloneOk
      <3> HIDE DEF h
      <3>4. y \in Packet
        BY <1>3, <3>1, <3>2 DEF Packet, Headers
      <3>5. /\ y.at = x.at /\ y.eth = x.eth /\ y.decap = x.decap
            /\ y.boi = x.boi /\ y.boi_bs = x.boi_bs /\ y.frr = x.frr
            /\ y.bs_remaining = x.bs_remaining /\ y.bier = h
            /\ y.needs_cloning = FALSE /\ y.recirc = TRUE
        BY <1>3, <3>1 DEF Packet
      <3> HIDE DEF y
      <3> QED BY <1>3, <3>2, <3>3, <3>4, <3>5
    <2>2. CASE ~c.needs_cloning
      <3>1. y = x
        BY <1>3, <2>2 DEF Requeued
      <3>2. ~c.decap /\ (c.boi => c.bier[0] = c.bs_remaining)
        BY <2>2 DEF CloneOk
      <3>3. y.bier[0] = (IF c.boi THEN c.bs_remaining ELSE c.bier[0])
        BY <1>3, <3>1, <3>2
      <3> HIDE DEF y
      <3> QED BY <1>3, <2>2, <3>1, <3>3
    <2> QED BY <2>1, <2>2
  <1>5. /\ w \in Packet /\ w.at = c.at /\ w.eth = "BIER" /\ ~w.decap /\ w.recirc
        /\ w.boi = c.boi /\ w.boi_bs = c.boi_bs /\ w.frr = c.frr /\ ~w.needs_cloning
        /\ w.bs_remaining = c.bs_remaining /\ w.bier = y.bier
    <2> HIDE DEF y
    <2>1. CASE y.frr.needs_recursion \/ y.frr.needs_cloning
      <3>1. w = [y EXCEPT !.needs_cloning = FALSE, !.recirc = TRUE]
        BY <1>2, <1>4, <2>1 DEF FrrRequeued
      <3> QED BY <1>4, <3>1 DEF Packet
    <2>2. CASE ~(y.frr.needs_recursion \/ y.frr.needs_cloning)
      <3>1. w = y
        BY <2>2 DEF FrrRequeued
      <3>2. c.needs_cloning
        BY <1>4, <2>2 DEF CloneOk
      <3> QED BY <1>4, <3>1, <3>2
    <2> QED BY <2>1, <2>2
  <1>6. w.bier = [i \in {0, 1} |-> IF i = 0 /\ c.boi THEN c.bs_remaining ELSE c.bier[i]]
    <2>1. y.bier \in Headers
      BY <1>4 DEF Packet, Headers
    <2>2. y.bier = [i \in {0, 1} |-> y.bier[i]]
      BY <2>1 DEF Headers
    <2>3. y.bier[0] = (IF c.boi THEN c.bs_remaining ELSE c.bier[0]) /\ y.bier[1] = c.bier[1]
      BY <1>4
    <2> HIDE DEF y
    <2> QED BY <1>5, <2>2, <2>3
  <1>7. EgressResult(c) = w
    <2>1. EgressResult(c) = Decapped(w)
      BY DEF EgressResult
    <2> HIDE DEF w
    <2> QED BY <1>5, <2>1 DEF Decapped
  <1> HIDE DEF w
  <1> QED BY <1>5, <1>6, <1>7

\* A clone comes back to the ingress and leads to what it led to.
LEMMA CloneReturns ==
    ASSUME RInv, NEW c, Sane(c), c.inst = "clone", Orderly(c), Egress(c)
    PROVE  \E z : /\ Replace(c, {z}) /\ got' = got
                  /\ Orderly(z) /\ Cover(z) = Cover(c) /\ z.at = c.at /\ z.boi = c.boi
                  /\ z.boi_bs = c.boi_bs /\ z.bs_remaining = c.bs_remaining
  <1> DEFINE r == EgressResult(c)
             z == [r EXCEPT !.stage = "ingress", !.inst = "normal", !.port = NullPort,
                            !.bier = Reparsed(r.bier), !.recirc = FALSE]
  <1>1. c.stage = "egress" /\ CloneOk(c) /\ Filled
    BY DEF Egress, Orderly, RInv
  <1>2. /\ r \in Packet /\ r.recirc /\ r.at = c.at /\ r.eth = "BIER" /\ ~r.decap
        /\ ~r.needs_cloning /\ r.boi = c.boi /\ r.boi_bs = c.boi_bs
        /\ r.bs_remaining = c.bs_remaining /\ r.frr = c.frr
        /\ r.bier = [i \in {0, 1} |-> IF i = 0 /\ c.boi THEN c.bs_remaining
                                                       ELSE c.bier[i]]
    BY <1>1, CloneResult
  <1>3. r.bier \in Headers /\ Reparsed(r.bier) \in Headers
    BY <1>2, ReparsedHeaders DEF Packet, Headers
  <1>4. /\ CloneOf(c) = {} /\ Recirculated(r) = {z} /\ Transmitted(r) = {}
    BY <1>2 DEF CloneOf, Clones, Recirculated, Transmitted
  <1>5. Replace(c, {z}) /\ got' = got
    BY <1>2, <1>4 DEF Egress
  <1> HIDE DEF r
  <1>6. /\ z \in Packet /\ z.at = c.at /\ z.stage = "ingress" /\ z.eth = "BIER"
        /\ z.bier = Reparsed(r.bier)
        /\ z.bs_remaining = c.bs_remaining /\ z.boi = c.boi /\ z.boi_bs = c.boi_bs
        /\ ~z.needs_cloning /\ ~z.decap /\ ~z.recirc /\ z.frr = c.frr
    BY <1>2, <1>3, SwitchNumbers DEF Packet, Headers
  <1> HIDE DEF z
  <1>7. ~c.boi => c.bier[0] # Invalid \/ c.bier[1] # Invalid
    BY <1>1 DEF CloneOk, Sane, Fits
  <1>8. Orderly(z) /\ Cover(z) = Kept(c)
    BY <1>1, <1>2, <1>6, <1>7, ReturnOrderly DEF CloneOk
  <1>9. Cover(c) = Kept(c)
    BY <1>1 DEF Cover
  <1> QED BY <1>5, <1>6, <1>8, <1>9

LEMMA CloneDivides ==
    ASSUME RInv, NEW c, Sane(c), c.inst = "clone", Orderly(c), Egress(c)
    PROVE  \E new : Replace(c, new) /\ Divides(c, new) /\ got' = got
  <1>1. PICK z : Replace(c, {z}) /\ got' = got /\ Orderly(z) /\ Cover(z) = Cover(c)
    BY CloneReturns
  <1> QED BY <1>1 DEF Divides

\* What the egress makes of a frame's headers.
LEMMA FrameResult ==
    ASSUME Filled, NEW c, Sane(c), c.stage = "egress", c.inst # "clone", FrameOk(c)
    PROVE  LET r == EgressResult(c)
           IN  /\ r \in Packet /\ r.stage = "egress"
               /\ r.at = c.at /\ r.port = c.port /\ r.inst = c.inst
               /\ r.recirc = c.recirc /\ r.needs_cloning = c.needs_cloning
               /\ r.boi_bs = c.boi_bs /\ r.bs_remaining = c.bs_remaining
               /\ r.frr = c.frr /\ r.bier[1] = c.bier[1]
               /\ ~c.decap => r = c
               /\ c.decap /\ c.bier[1] # Invalid =>
                      r.bier[0] = Invalid /\ ~r.boi /\ ~r.decap /\ r.eth = "BIER"
               /\ c.decap /\ c.bier[1] = Invalid =>
                      r.bier[0] = Invalid /\ (r.boi <=> c.boi) /\ r.decap
  <1>1. c \in Packet /\ c.at \in Switches
    BY DEF Sane, Fits, Packet
  <1>2. On(c.at, "do_remove_outer_bier_header") /\ On(c.at, "do_decap_table")
    BY <1>1, FilledOn
  <1>3. EgressResult(c) = Decapped(c)
    BY DEF EgressResult
  <1>4. CASE ~c.decap
    <2>1. Decapped(c) = c
      BY <1>4 DEF Decapped
    <2> QED BY <1>1, <1>3, <1>4, <2>1
  <1>5. CASE c.decap /\ c.bier[1] # Invalid
    <2> DEFINE r == [c EXCEPT !.bier[0] = Invalid, !.boi = FALSE, !.decap = FALSE]
    <2>1. Decapped(c) = r
      BY <1>2, <1>5 DEF Decapped
    <2>2. r \in Packet
      BY <1>1 DEF Packet
    <2>3. /\ r.at = c.at /\ r.port = c.port /\ r.inst = c.inst /\ r.stage = c.stage
          /\ r.recirc = c.recirc /\ r.needs_cloning = c.needs_cloning
          /\ r.boi_bs = c.boi_bs /\ r.bs_remaining = c.bs_remaining
          /\ r.frr = c.frr /\ r.bier[1] = c.bier[1]
          /\ r.bier[0] = Invalid /\ r.boi = FALSE /\ r.decap = FALSE /\ r.eth = c.eth
      BY <1>1 DEF Packet
    <2>4. c.eth = "BIER"
      BY DEF FrameOk
    <2> HIDE DEF r
    <2> QED BY <1>3, <1>5, <2>1, <2>2, <2>3, <2>4
  <1>6. CASE c.decap /\ c.bier[1] = Invalid
    <2> DEFINE r == [c EXCEPT !.bier[0] = Invalid, !.eth = "IPv4"]
    <2>1. Decapped(c) = r
      BY <1>2, <1>6 DEF Decapped
    <2>2. r \in Packet
      BY <1>1 DEF Packet
    <2>3. /\ r.at = c.at /\ r.port = c.port /\ r.inst = c.inst /\ r.stage = c.stage
          /\ r.recirc = c.recirc /\ r.needs_cloning = c.needs_cloning
          /\ r.boi_bs = c.boi_bs /\ r.bs_remaining = c.bs_remaining
          /\ r.frr = c.frr /\ r.bier[1] = c.bier[1]
          /\ r.bier[0] = Invalid /\ r.boi = c.boi /\ r.decap = c.decap
      BY <1>1 DEF Packet
    <2> HIDE DEF r
    <2> QED BY <1>3, <1>6, <2>1, <2>2, <2>3
  <1> QED BY <1>4, <1>5, <1>6

\* The clone of a frame.
LEMMA CloneOrderly ==
    ASSUME Filled, NEW c, Sane(c), c.stage = "egress", c.inst # "clone", FrameOk(c),
           NEW x \in CloneOf(c)
    PROVE  Orderly(x) /\ Cover(x) = Back(c)
  <1> DEFINE r == EgressResult(c)
             y == [r EXCEPT !.inst = "clone", !.port = HostPort]
  <1>1. /\ r \in Packet /\ r.stage = "egress"
        /\ r.at = c.at /\ r.port = c.port /\ r.inst = c.inst
        /\ r.recirc = c.recirc /\ r.needs_cloning = c.needs_cloning
        /\ r.boi_bs = c.boi_bs /\ r.bs_remaining = c.bs_remaining
        /\ r.frr = c.frr /\ r.bier[1] = c.bier[1]
        /\ ~c.decap => r = c
        /\ c.decap /\ c.bier[1] # Invalid =>
               r.bier[0] = Invalid /\ ~r.boi /\ ~r.decap /\ r.eth = "BIER"
        /\ c.decap /\ c.bier[1] = Invalid =>
               r.bier[0] = Invalid /\ (r.boi <=> c.boi) /\ r.decap
    BY FrameResult
  <1>2. Flagged(c) /\ x = y
    BY DEF CloneOf, Clones, Flagged
  <1> HIDE DEF r
  <1>3. y \in Packet
    BY <1>1, SwitchNumbers DEF Packet
  <1>4. /\ y.stage = "egress" /\ y.inst = "clone" /\ y.at = r.at /\ y.bier = r.bier
        /\ y.recirc = r.recirc /\ y.needs_cloning = r.needs_cloning /\ y.boi = r.boi
        /\ y.boi_bs = r.boi_bs /\ y.bs_remaining = r.bs_remaining /\ y.frr = r.frr
        /\ y.decap = r.decap /\ y.eth = r.eth
    BY <1>1 DEF Packet
  <1> HIDE DEF y
  <1>5. ~c.recirc /\ (c.needs_cloning \/ c.frr.needs_recursion \/ c.frr.needs_cloning)
    BY <1>2 DEF FrameOk, Flagged
  <1>6. CASE ~c.decap
    <2>1. r = c
      BY <1>1, <1>6
    <2>2. Gather(c) /\ Charted(c) /\ c.eth = "BIER" /\ c.bier[0] # Invalid
      BY <1>6 DEF FrameOk
    <2>3. Gather(y) /\ Charted(y) /\ Kept(y) = Kept(c)
      BY <1>4, <2>1, <2>2 DEF Gather, Gathering, FrrRest, Charted, Kept
    <2>4. CloneOk(y)
      BY <1>4, <1>5, <1>6, <2>1, <2>2, <2>3 DEF CloneOk, FrameOk
    <2>5. Cover(y) = Kept(y) /\ Back(c) = Kept(c)
      BY <1>2, <1>4, <1>6 DEF Cover, Back
    <2> QED BY <1>2, <1>4, <2>3, <2>4, <2>5 DEF Orderly
  <1>7. CASE c.decap /\ c.bier[1] # Invalid
    <2>1. /\ y.bier[0] = Invalid /\ y.bier[1] = c.bier[1] /\ y.at = c.at /\ ~y.boi
          /\ ~y.decap /\ y.eth = "BIER" /\ y.frr = c.frr
          /\ y.bs_remaining = c.bs_remaining
      BY <1>1, <1>4, <1>7
    <2>2. Reparsed(y.bier)[0] = c.bier[1] /\ Reparsed(y.bier)[1] = Invalid
      BY <1>3, <2>1, ReparsedHeaders DEF Packet, Headers
    <2>3. Gather(y)
      BY <1>7, <2>1 DEF FrameOk, Gather, Gathering
    <2>4. Charted(y) /\ Kept(y) = Back(c)
      BY <1>2, <1>7, <2>1, <2>2 DEF FrameOk, Charted, Kept, Back, Inner
    <2>5. CloneOk(y)
      BY <1>1, <1>4, <1>5, <2>1, <2>3, <2>4 DEF CloneOk
    <2>6. Cover(y) = Kept(y)
      BY <1>4 DEF Cover
    <2> QED BY <1>2, <1>4, <2>4, <2>5, <2>6 DEF Orderly
  <1>8. CASE c.decap /\ c.bier[1] = Invalid
    <2>1. c.needs_cloning /\ c.boi
      BY <1>8 DEF FrameOk
    <2>2. /\ y.bier[0] = Invalid /\ y.bier[1] = Invalid /\ y.at = c.at /\ y.boi
          /\ y.decap /\ y.frr = c.frr /\ y.bs_remaining = c.bs_remaining
          /\ y.boi_bs = c.boi_bs
      BY <1>1, <1>4, <1>8, <2>1
    <2>3. Gather(y)
      BY <1>8, <2>1, <2>2 DEF FrameOk, Gather, Gathering, FrrRest
    <2>4. Charted(y) /\ Kept(y) = Kept(c)
      BY <1>8, <2>1, <2>2 DEF FrameOk, Charted, Kept
    <2>5. CloneOk(y)
      BY <1>1, <1>4, <1>5, <2>1, <2>2, <2>3, <2>4 DEF CloneOk
    <2>6. Cover(y) = Kept(y) /\ Back(c) = Kept(c)
      BY <1>2, <1>4, <1>8 DEF Cover, Back
    <2> QED BY <1>2, <1>4, <2>4, <2>5, <2>6 DEF Orderly
  <1> QED BY <1>6, <1>7, <1>8

\* A frame that gets to the next switch.
LEMMA FrameArrives ==
    ASSUME Filled, NEW c, Sane(c), c.stage = "egress", c.inst # "clone", FrameOk(c),
           NEW e \in Transmitted(EgressResult(c))
    PROVE  /\ Orderly(e) /\ Cover(e) = Sent(c) /\ ~e.boi
           /\ \A f \in Transmitted(EgressResult(c)) : f = e
  <1> DEFINE r == EgressResult(c)
             h == Reparsed(r.bier)
  <1>1. /\ r \in Packet /\ r.stage = "egress"
        /\ r.at = c.at /\ r.port = c.port
        /\ r.recirc = c.recirc /\ r.bier[1] = c.bier[1]
        /\ ~c.decap => r = c
        /\ c.decap /\ c.bier[1] # Invalid => r.bier[0] = Invalid /\ r.eth = "BIER"
    BY FrameResult
  <1>2. ~r.recirc /\ \A f \in Transmitted(r) :
            \E t \in Peer[r.at][r.port] : f = Parsed(t, r.eth, Reparsed(r.bier))
    BY DEF Transmitted
  <1>3. PICK t \in Peer[r.at][r.port] : e = Parsed(t, r.eth, h)
    BY <1>2
  <1>4. c.at \in Switches /\ c.port \in Port /\ r.bier \in Headers
    BY <1>1 DEF Packet, Sane, Fits, Headers
  <1> HIDE DEF r
  <1>5. \A f \in Transmitted(r) : f = e
    BY <1>1, <1>2, <1>3, <1>4, OneNeighbour
  <1>6. c.port # HostPort /\ t \in Peer[c.at][c.port]
    BY <1>1, <1>3, <1>4, PeerSwitches
  <1>7. ~(c.decap /\ c.bier[1] = Invalid) /\ Frame(c) \subseteq Ways
        /\ Sent(c) = Hosted(Frame(c))
    BY <1>1, <1>2, <1>6 DEF FrameOk, Sent
  <1>8. r.eth = "BIER" /\ <<t, h[0], h[1]>> \in Frame(c)
    <2>1. CASE ~c.decap
      <3>1. r = c /\ c.eth = "BIER" /\ c.bier[0] # Invalid
        BY <1>1, <2>1 DEF FrameOk
      <3>2. h = c.bier
        BY <1>4, <3>1, ReparsedHeaders
      <3> HIDE DEF h
      <3> QED BY <1>6, <2>1, <3>1, <3>2 DEF Frame
    <2>2. CASE c.decap /\ c.bier[1] # Invalid
      <3>1. h[0] = c.bier[1] /\ h[1] = Invalid
        BY <1>1, <1>4, <2>2, ReparsedHeaders
      <3> HIDE DEF h
      <3> QED BY <1>1, <1>6, <2>2, <3>1 DEF Frame
    <2> QED BY <1>7, <2>1, <2>2
  <1>9. Reparsed(h)[0] = h[0] /\ Reparsed(h)[1] = h[1]
    BY <1>4, ReparsedTwice
  <1> HIDE DEF h
  <1>10. /\ e.at = t /\ e.stage = "ingress" /\ e.eth = "BIER" /\ e.bier = h
         /\ e.boi = FALSE /\ e.decap = FALSE /\ e.recirc = FALSE /\ e.needs_cloning = FALSE
         /\ e.frr.BitString = {} /\ e.frr.add_bm = {} /\ e.frr.reset_bm = {}
    BY <1>3, <1>8 DEF Parsed
  <1>11. Charted(e) /\ Kept(e) = Leads(<<t, h[0], h[1]>>)
    BY <1>7, <1>8, <1>9, <1>10 DEF Charted, Kept
  <1>12. Orderly(e)
    BY <1>10, <1>11 DEF Orderly, IngressOk, Gather, NoneGathered
  <1>13. Cover(e) = Kept(e)
    BY <1>10 DEF Cover, Ahead
  <1>14. \A u \in Peer[c.at][c.port] : u = t
    BY <1>4, <1>6, OneNeighbour
  <1>15. \A a, b \in Frame(c) : a = b
    BY <1>14 DEF Frame
  <1>16. Cover(e) = Sent(c)
    BY <1>7, <1>8, <1>11, <1>13, <1>15 DEF Hosted
  <1> QED BY <1>5, <1>10, <1>12, <1>16 DEF r

\* A frame for the recirculation port comes back, without a clone.
LEMMA FrameReturns ==
    ASSUME RInv, NEW c, Sane(c), c.inst # "clone", Orderly(c), Egress(c), c.recirc
    PROVE  \E z : /\ Replace(c, {z}) /\ got' = got
                  /\ Orderly(z) /\ Cover(z) = Cover(c) /\ z.at = c.at /\ z.boi = c.boi
                  /\ z.boi_bs = c.boi_bs /\ z.bs_remaining = c.bs_remaining
  <1> DEFINE r == EgressResult(c)
             z == [r EXCEPT !.stage = "ingress", !.inst = "normal", !.port = NullPort,
                            !.bier = Reparsed(r.bier), !.recirc = FALSE]
             new == CloneOf(c) \cup Recirculated(r) \cup Transmitted(r)
  <1>1. c.stage = "egress" /\ FrameOk(c) /\ Filled
    BY DEF Egress, Orderly, RInv
  <1>2. c \in Packet /\ c.at \in Switches
    BY DEF Sane, Fits, Packet
  <1>3. /\ Replace(c, new)
        /\ got' = IF ~r.recirc /\ r.port = HostPort
                  THEN [got EXCEPT ![c.at] = IF @ = 2 THEN 2 ELSE @ + 1] ELSE got
    BY DEF Egress
  <1>4. /\ r \in Packet /\ r.at = c.at /\ r.port = c.port /\ r.recirc = c.recirc
        /\ ~c.decap => r = c
    BY <1>1, FrameResult
  <1>5. Cover(c) = Sent(c) \cup Back(c)
    BY <1>1 DEF Cover
  <1>6. ~Flagged(c) /\ ~c.decap /\ ~c.needs_cloning
    BY <1>1 DEF FrameOk, Flagged
  <1>7. r = c
    BY <1>4, <1>6
  <1>8. CloneOf(c) = {} /\ Recirculated(r) = {z} /\ Transmitted(r) = {}
    BY <1>4, <1>6 DEF CloneOf, Clones, Flagged, Recirculated, Transmitted
  <1> HIDE DEF r
  <1>9. c.bier \in Headers /\ Reparsed(c.bier) \in Headers
    BY <1>2, ReparsedHeaders DEF Packet, Headers
  <1>10. /\ z \in Packet /\ z.at = c.at /\ z.stage = "ingress" /\ z.eth = c.eth
        /\ z.bier = Reparsed(c.bier)
        /\ z.bs_remaining = c.bs_remaining /\ z.boi = c.boi /\ z.boi_bs = c.boi_bs
        /\ z.needs_cloning = c.needs_cloning /\ z.decap = c.decap /\ ~z.recirc
        /\ z.frr = c.frr
    BY <1>2, <1>7, <1>9, SwitchNumbers DEF Packet, Headers
  <1> HIDE DEF z
  <1>11. c.bier = [i \in {0, 1} |-> IF i = 0 /\ c.boi THEN c.bs_remaining
                                                    ELSE c.bier[i]]
    <2>1. c.bier = [i \in {0, 1} |-> c.bier[i]]
      BY <1>9 DEF Headers
    <2>2. c.boi => c.bier[0] = c.bs_remaining
      BY <1>1, <1>6 DEF FrameOk
    <2> QED BY <2>1, <2>2
  <1>12. Gather(c) /\ Charted(c) /\ c.eth = "BIER" /\ c.bier[0] # Invalid
    BY <1>1, <1>6 DEF FrameOk
  <1>13. Orderly(z) /\ Cover(z) = Kept(c)
    BY <1>1, <1>6, <1>10, <1>11, <1>12, ReturnOrderly
  <1>14. Cover(c) = Kept(c)
    BY <1>5, <1>6 DEF Sent, Back
  <1>15. new = {z} /\ got' = got
    BY <1>3, <1>4, <1>8
  <1> QED BY <1>3, <1>10, <1>13, <1>14, <1>15

\* A frame that leaves, and the clone that comes back in its place, share out what
\* the frame led to; a frame for the host of the switch leads there.
LEMMA FrameDivides ==
    ASSUME RInv, NEW c, Sane(c), c.inst # "clone", Orderly(c), Egress(c)
    PROVE  \E new : /\ Replace(c, new) /\ Divides(c, new)
                    /\ \/ got' = got
                       \/ /\ got' = [got EXCEPT ![c.at] = IF @ = 2 THEN 2 ELSE @ + 1]
                          /\ c.at \in Cover(c) /\ \A d \in new : c.at \notin Cover(d)
  <1> DEFINE r == EgressResult(c)
             new == CloneOf(c) \cup Recirculated(r) \cup Transmitted(r)
  <1>1. c.stage = "egress" /\ FrameOk(c) /\ Filled
    BY DEF Egress, Orderly, RInv
  <1>2. c \in Packet /\ c.at \in Switches
    BY DEF Sane, Fits, Packet
  <1>3. /\ Replace(c, new)
        /\ got' = IF ~r.recirc /\ r.port = HostPort
                  THEN [got EXCEPT ![c.at] = IF @ = 2 THEN 2 ELSE @ + 1] ELSE got
    BY DEF Egress
  <1>4. /\ r \in Packet /\ r.at = c.at /\ r.port = c.port /\ r.recirc = c.recirc
        /\ ~c.decap => r = c
    BY <1>1, FrameResult
  <1>5. Cover(c) = Sent(c) \cup Back(c)
    BY <1>1 DEF Cover
  <1>6. CASE c.recirc
    <2>1. PICK z : Replace(c, {z}) /\ got' = got /\ Orderly(z) /\ Cover(z) = Cover(c)
      BY <1>6, FrameReturns
    <2> QED BY <2>1 DEF Divides
  <1>7. CASE ~c.recirc
    <2>1. Recirculated(r) = {}
      BY <1>4, <1>7 DEF Recirculated
    <2>2. \A x \in CloneOf(c) : Orderly(x) /\ Cover(x) = Back(c)
      BY <1>1, CloneOrderly
    <2>3. \A x, y \in CloneOf(c) : x = y
      BY DEF CloneOf
    <2>4. \A e \in Transmitted(r) :
              /\ Orderly(e) /\ Cover(e) \subseteq Sent(c)
              /\ \A f \in Transmitted(r) : f = e
      BY <1>1, FrameArrives
    <2>5. Sent(c) \cap Back(c) = {}
      BY <1>1 DEF FrameOk
    <2>6. \A x \in new : x \in CloneOf(c) \/ x \in Transmitted(r)
      BY <2>1
    <2>7. \A x \in new : /\ Orderly(x) /\ Cover(x) \subseteq Cover(c)
                         /\ x \in CloneOf(c) => Cover(x) \subseteq Back(c)
                         /\ x \in Transmitted(r) => Cover(x) \subseteq Sent(c)
      BY <1>5, <2>2, <2>4, <2>6
    <2> HIDE DEF new
    <2>8. ASSUME NEW x \in new, NEW y \in new, x # y
          PROVE  Cover(x) \cap Cover(y) = {}
      <3>1. \/ x \in CloneOf(c) /\ y \in Transmitted(r)
            \/ y \in CloneOf(c) /\ x \in Transmitted(r)
        BY <2>3, <2>4, <2>6, <2>8
      <3> QED BY <2>5, <2>7, <3>1
    <2>9. Divides(c, new)
      BY <2>7, <2>8 DEF Divides
    <2>10. CASE c.port = HostPort
      <3>1. Peer[c.at][c.port] = {}
        BY <1>2, <2>10, SwitchNumbers, PeerSwitches
      <3>2. Transmitted(r) = {}
        BY <1>4, <3>1 DEF Transmitted
      <3>3. Sent(c) = {c.at}
        BY <1>7, <2>10 DEF Sent
      <3>4. c.at \in Cover(c) /\ c.at \notin Back(c)
        BY <1>5, <2>5, <3>3
      <3>5. \A d \in new : c.at \notin Cover(d)
        BY <2>6, <2>7, <3>2, <3>4
      <3>6. got' = [got EXCEPT ![c.at] = IF @ = 2 THEN 2 ELSE @ + 1]
        BY <1>3, <1>4, <1>7, <2>10
      <3> QED BY <1>3, <2>9, <3>4, <3>5, <3>6
    <2>11. CASE c.port # HostPort
      <3>1. got' = got
        BY <1>3, <1>4, <2>11
      <3> QED BY <1>3, <2>9, <3>1
    <2> QED BY <2>10, <2>11
  <1>8. c.recirc \in BOOLEAN
    BY <1>2 DEF Packet
  <1> QED BY <1>6, <1>7, <1>8

-----------------------------------------------------------------------------
(* The ingress, with all tables.                                           *)

\* The bit of local_decap is lower than those of the ports.
LEMMA DecapLowest ==
    ASSUME NEW s \in Switches, NEW S, S \subseteq Boi[s], DecapBit(s) \in S
    PROVE  LowBit(S) = DecapBit(s)
  <1>1. ASSUME NEW b \in Boi[s], b # DecapBit(s)
        PROVE  DecapBit(s) < b /\ b \in Nat
    <2>1. /\ s \in 1 .. NumSwitches /\ NumSwitches \in Nat /\ HostsTaken \in Nat
      BY SwitchNumbers DEF Switches
    <2>2. PICK p \in LinkPorts(HostsTaken) : b = AdjacencyBit(NumSwitches, HostsTaken, s, p)
      BY <1>1 DEF Boi, BitsOfInterest
    <2> QED BY <2>1, <2>2 DEF AdjacencyBit, DecapBit, LinkPorts, MaxPortNum
  <1>2. \A b \in S : DecapBit(s) <= b
    BY <1>1, SwitchNumbers DEF DecapBit
  <1>3. \A b \in S : b \in Nat
    BY BitNumbers
  <1>4. \A k \in S : (\A b \in S : k <= b) => k = DecapBit(s)
    BY <1>2, <1>3
  <1> QED BY <1>2, <1>4 DEF LowBit

LEMMA PreparedRest ==
    ASSUME TypeOK, NEW c, Fits(c), BierAtIngress(c)
    PROVE  /\ Prepared(c).recirc = c.recirc
           /\ Prepared(c).frr.BitString = c.frr.BitString
           /\ Prepared(c).frr.add_bm = c.frr.add_bm
           /\ Prepared(c).frr.reset_bm = c.frr.reset_bm
  <1> DEFINE d == Sought(c)
             s == [c EXCEPT !.boi = TRUE,
                            !.boi_bs = c.bier[0] \cap Boi[c.at],
                            !.bier[0] = c.bier[0] \ Boi[c.at],
                            !.bs_remaining = c.bier[0] \ Boi[c.at]]
             f == [d EXCEPT !.frr.bp = indicated[c.at]]
  <1>1. c \in Packet
    BY DEF Fits
  <1>2. s \in Packet => s.recirc = c.recirc /\ s.frr = c.frr
    BY <1>1 DEF Packet
  <1>3. d \in Packet /\ d.frr = c.frr
    BY SoughtFits DEF Fits
  <1>4. d = c \/ d = s
    BY DEF Sought
  <1>5. d.recirc = c.recirc
    BY <1>2, <1>3, <1>4
  <1>6. Prepared(c) = IF indicated[c.at] = 0 THEN d ELSE f
    BY DEF Prepared, Sought
  <1> HIDE DEF d
  <1>7. /\ f.recirc = d.recirc /\ f.frr.BitString = d.frr.BitString
        /\ f.frr.add_bm = d.frr.add_bm /\ f.frr.reset_bm = d.frr.reset_bm
    BY <1>3 DEF Packet, Frr
  <1> HIDE DEF f
  <1> QED BY <1>3, <1>5, <1>6, <1>7

\* The bits of the switch are found, and the plan has their ways: it is in the
\* middle of a decapsulation, or about to begin it, or serves one bit after the
\* other.
Ending(d, hosts) ==
    /\ d.bier[1] # Invalid
    /\ DecapBit(d.at) \in d.boi_bs
    /\ TidyEnd(d.at, d.boi_bs \ {DecapBit(d.at)}, d.bier[1])
    /\ Hosted({Inner(d.at, d.bier[1])}
                  \cup Beyond(d.at, d.boi_bs \ {DecapBit(d.at)}, d.bier[1])) \subseteq hosts

Ended(d, hosts) ==
    /\ d.bier[1] # Invalid
    /\ DecapBit(d.at) \notin d.boi_bs
    /\ TidyEnd(d.at, d.boi_bs, d.bier[1])
    /\ d.boi_bs # {} =>
           Hosted({Inner(d.at, d.bier[1])} \cup Beyond(d.at, d.boi_bs, d.bier[1]))
               \subseteq hosts

Serving(d, hosts) ==
    /\ Charted(d)
    /\ Kept(d) \subseteq hosts

Ready(d, hosts) ==
    /\ d.at \in Switches /\ d \in Packet
    /\ d.inst = "normal" /\ d.eth = "BIER" /\ d.port = NullPort
    /\ ~d.recirc /\ d.boi
    /\ d.boi_bs \subseteq Boi[d.at] /\ d.bs_remaining \cap Boi[d.at] = {}
    /\ d.bier[0] \in SUBSET AllBits
    /\ Gather(d)
    /\ d.decap => d.needs_cloning /\ Ended(d, hosts)
    /\ ~d.decap => /\ ~d.needs_cloning /\ d.bier[0] = d.bs_remaining
                   /\ Ending(d, hosts) \/ Serving(d, hosts)

LEMMA PreparedReady ==
    ASSUME Known, Filled, NEW c, Sane(c), BierAtIngress(c), IngressOk(c)
    PROVE  Ready(Prepared(c), Cover(c))
  <1> DEFINE d == Prepared(c)
             s == c.at
  <1>1. /\ c \in Packet /\ s \in Switches /\ c.boi \in BOOLEAN /\ c.bier \in Headers
        /\ c.bier[0] # Invalid /\ c.port = NullPort /\ c.inst = "normal"
    BY DEF Sane, Fits, Packet, Headers, BierAtIngress
  <1>2. On(s, "bift_entries")
    BY <1>1, FilledOn
  <1>3. /\ Fits(d) /\ BierAtIngress(d) /\ d.at = s /\ d.port = c.port /\ d.boi
        /\ (d.needs_cloning <=> c.needs_cloning) /\ (d.decap <=> c.decap)
        /\ d.bier[1] = c.bier[1] /\ d.bier[0] \in SUBSET AllBits
        /\ d.frr.bp = IF indicated[s] = 0 THEN c.frr.bp ELSE indicated[s]
        /\ IF c.boi
           THEN d.bier[0] = c.bier[0] /\ d.boi_bs = c.boi_bs /\ d.bs_remaining = c.bs_remaining
           ELSE /\ d.bier[0] = c.bier[0] \ Boi[s]
                /\ d.boi_bs = c.bier[0] \cap Boi[s]
                /\ d.bs_remaining = c.bier[0] \ Boi[s]
    <2>1. TypeOK /\ Fits(c)
      BY DEF Sane, Known
    <2>2. d.boi = (c.boi \/ On(s, "bift_entries"))
      BY <2>1, PreparedFits, SoughtFits
    <2>3. d.needs_cloning = c.needs_cloning /\ d.decap = c.decap
      BY <2>1, PreparedFits
    <2>4. /\ Fits(d) /\ BierAtIngress(d) /\ d.at = s /\ d.port = c.port
          /\ d.bier = Sought(c).bier /\ d.boi_bs = Sought(c).boi_bs
          /\ d.bs_remaining = Sought(c).bs_remaining
          /\ d.frr.bp = IF indicated[s] = 0 THEN c.frr.bp ELSE indicated[s]
      BY <2>1, PreparedFits
    <2>5. /\ d.bier[1] = c.bier[1] /\ d.bier[0] \in SUBSET AllBits
          /\ IF c.boi
             THEN /\ d.bier[0] = c.bier[0] /\ d.boi_bs = c.boi_bs
                  /\ d.bs_remaining = c.bs_remaining
             ELSE /\ d.bier[0] = c.bier[0] \ Boi[s]
                  /\ d.boi_bs = c.bier[0] \cap Boi[s]
                  /\ d.bs_remaining = c.bier[0] \ Boi[s]
      BY <1>2, <2>1, <2>4, SoughtFits
    <2> HIDE DEF d
    <2>6. d.boi
      BY <1>2, <2>2
    <2>7. (d.needs_cloning <=> c.needs_cloning) /\ (d.decap <=> c.decap)
      BY <2>3
    <2> QED BY <2>4, <2>5, <2>6, <2>7
  <1>4. /\ d.recirc = c.recirc /\ d.frr.BitString = c.frr.BitString
        /\ d.frr.add_bm = c.frr.add_bm /\ d.frr.reset_bm = c.frr.reset_bm
    BY PreparedRest DEF Sane, Known
  <1> HIDE DEF d
  <1>5. /\ d \in Packet /\ d.eth = "BIER" /\ d.inst = "normal" /\ d.port = NullPort
        /\ d.boi_bs \subseteq Boi[s] /\ d.bs_remaining \cap Boi[s] = {}
        /\ ~d.recirc
    BY <1>1, <1>3, <1>4 DEF Fits, BierAtIngress, IngressOk
  <1>6. c.frr.bp # 0 => d.frr.bp = c.frr.bp
    <2>1. c.frr.bp \in Watches(s) /\ indicated[s] \in Watches(s)
      BY <1>1 DEF Sane, Watched, Known
    <2>2. \A a, b \in Watches(s) : a # 0 /\ b # 0 => a = b
      BY DEF Watches, Known
    <2> QED BY <1>3, <2>1, <2>2
  <1>7. Gather(d)
    <2>1. Gather(c)
      BY DEF IngressOk
    <2>2. CASE NoneGathered(c.frr)
      BY <1>4, <2>2 DEF Gather, NoneGathered
    <2>3. CASE Gathering(c)
      <3>1. Gathering(d)
        BY <1>3, <1>4, <1>6, <2>3 DEF Gathering, FrrRest
      <3> QED BY <3>1 DEF Gather
    <2>4. CASE c.bier[1] = Invalid /\ c.boi /\ c.boi_bs = {}
      BY <1>3, <2>4 DEF Gather
    <2>5. CASE c.bier[1] = Invalid /\ ~c.boi /\ c.bier[0] \cap Boi[s] = {}
      BY <1>3, <2>5 DEF Gather
    <2>6. CASE c.bier[1] # Invalid /\ c.bier[1] \cap Boi[s] = {}
      BY <1>3, <2>6 DEF Gather
    <2> QED BY <2>1, <2>2, <2>3, <2>4, <2>5, <2>6 DEF Gather
  <1>8. Cover(c) = Ahead(c) /\ c.eth = "BIER"
    BY DEF Cover, BierAtIngress
  <1>9. d.decap => d.needs_cloning /\ Ended(d, Cover(c))
    <2> SUFFICES ASSUME c.decap
                 PROVE  d.needs_cloning /\ Ended(d, Cover(c))
      BY <1>3
    <2>1. /\ c.boi /\ c.needs_cloning /\ c.bier[1] # Invalid /\ DecapBit(s) \notin c.boi_bs
          /\ TidyEnd(s, c.boi_bs, c.bier[1])
      BY DEF IngressOk
    <2>2. d.boi_bs = c.boi_bs
      BY <1>3, <2>1
    <2>3. c.boi_bs # {} =>
              Cover(c) = Hosted({Inner(s, c.bier[1])} \cup Beyond(s, c.boi_bs, c.bier[1]))
      BY <1>8 DEF Ahead
    <2> QED BY <1>3, <2>1, <2>2, <2>3 DEF Ended
  <1>10. ASSUME ~c.decap
         PROVE  /\ ~d.needs_cloning /\ d.bier[0] = d.bs_remaining
                /\ Ending(d, Cover(c)) \/ Serving(d, Cover(c))
    <2>1. ~c.needs_cloning /\ Charted(c) /\ (c.boi => c.bier[0] = c.bs_remaining)
      BY <1>10 DEF IngressOk
    <2>2. Cover(c) = Kept(c)
      BY <1>8, <1>10 DEF Ahead
    <2>3. ~d.needs_cloning /\ d.bier[0] = d.bs_remaining
      BY <1>3, <2>1
    <2>4. CASE c.boi
      <3>1. Charted(d) /\ Kept(d) = Kept(c)
        BY <1>3, <2>1, <2>4 DEF Charted, Kept
      <3> QED BY <2>2, <2>3, <3>1 DEF Serving
    <2>5. CASE ~c.boi
      <3> DEFINE a == <<s, c.bier[0], c.bier[1]>>
      <3>1. Reparsed(c.bier) = c.bier
        BY <1>1 DEF Reparsed
      <3>2. a \in Ways /\ Cover(c) = Leads(a)
        BY <2>1, <2>2, <2>5, <3>1 DEF Charted, Kept
      <3>3. Closed(s, c.bier[0], c.bier[1])
        BY <3>2, PlanAssumption
      <3>4. d.boi_bs = c.bier[0] \cap Boi[s] /\ d.bs_remaining = c.bier[0] \ Boi[s]
        BY <1>3, <2>5
      <3>5. CASE EndsTunnel(s, c.bier[0], c.bier[1])
        <4>1. /\ TidyEnd(s, d.boi_bs \ {DecapBit(s)}, c.bier[1])
              /\ Hosted({Inner(s, c.bier[1])}
                            \cup Beyond(s, d.boi_bs \ {DecapBit(s)}, c.bier[1]))
                     \subseteq Leads(a)
          BY <3>3, <3>4, <3>5 DEF Closed
        <4>2. DecapBit(s) \in d.boi_bs
          BY <1>1, <3>4, <3>5 DEF EndsTunnel, Boi, BitsOfInterest
        <4>3. c.bier[1] # Invalid
          BY <3>5 DEF EndsTunnel
        <4> QED BY <1>3, <2>3, <3>2, <4>1, <4>2, <4>3 DEF Ending
      <3>6. CASE ~EndsTunnel(s, c.bier[0], c.bier[1])
        <4>1. /\ Tidy(s, d.boi_bs, d.bs_remaining, c.bier[1])
              /\ Rest(s, d.boi_bs, d.bs_remaining, c.bier[1]) \subseteq Leads(a)
          BY <3>3, <3>4, <3>6 DEF Closed
        <4>2. c.bier[1] # Invalid => DecapBit(s) \notin d.boi_bs
          BY <3>4, <3>6 DEF EndsTunnel
        <4>3. Charted(d) /\ Kept(d) = Rest(s, d.boi_bs, d.bs_remaining, c.bier[1])
          BY <1>3, <4>1, <4>2 DEF Charted, Kept
        <4> QED BY <2>3, <3>2, <4>1, <4>3 DEF Serving
      <3> QED BY <3>5, <3>6
    <2> QED BY <1>1, <2>4, <2>5
  <1> QED BY <1>1, <1>3, <1>5, <1>7, <1>9, <1>10 DEF Ready, d

LEMMA FrameStep ==
    ASSUME NEW c, NEW g, ToEgress(c, g), NEW f, f = [g EXCEPT !.stage = "egress"],
           f.stage = "egress", f.inst = "normal", FrameOk(f),
           Sent(f) \cup Back(f) \subseteq Cover(c)
    PROVE  \E new : Replace(c, new) /\ Divides(c, new) /\ got' = got
  <1>1. Replace(c, {f}) /\ got' = got
    BY DEF ToEgress
  <1>2. Orderly(f)
    BY DEF Orderly
  <1>3. Cover(f) \subseteq Cover(c)
    BY DEF Cover
  <1> QED BY <1>1, <1>2, <1>3 DEF Divides

\* The lowest bit leads to some of the hosts, the bits left to others.
LEMMA ServingBit ==
    ASSUME NEW d, NEW hosts, Serving(d, hosts), d.boi, NEW k \in d.boi_bs
    PROVE  /\ Onward(d.at, k, d.bs_remaining, d.bier[1]) \subseteq Ways
           /\ Branch(d.at, k, d.bs_remaining, d.bier[1]) \subseteq hosts
           /\ Rest(d.at, d.boi_bs \ {k}, d.bs_remaining, d.bier[1]) \subseteq hosts
           /\ Branch(d.at, k, d.bs_remaining, d.bier[1])
                  \cap Rest(d.at, d.boi_bs \ {k}, d.bs_remaining, d.bier[1]) = {}
           /\ Tidy(d.at, d.boi_bs \ {k}, d.bs_remaining, d.bier[1])
  <1> DEFINE B(j) == Branch(d.at, j, d.bs_remaining, d.bier[1])
  <1>1. Tidy(d.at, d.boi_bs, d.bs_remaining, d.bier[1])
    BY DEF Serving, Charted
  <1>2. Rest(d.at, d.boi_bs, d.bs_remaining, d.bier[1]) \subseteq hosts
    BY DEF Serving, Kept
  <1>3. \A S : Rest(d.at, S, d.bs_remaining, d.bier[1]) = UNION {B(j) : j \in S}
    BY DEF Rest
  <1>4. /\ Onward(d.at, k, d.bs_remaining, d.bier[1]) \subseteq Ways
        /\ \A i, j \in d.boi_bs : i # j => B(i) \cap B(j) = {}
    BY <1>1 DEF Tidy
  <1>5. Tidy(d.at, d.boi_bs \ {k}, d.bs_remaining, d.bier[1])
    BY <1>1 DEF Tidy
  <1> HIDE DEF B
  <1>6. B(k) \subseteq hosts /\ UNION {B(j) : j \in d.boi_bs \ {k}} \subseteq hosts
    BY <1>2, <1>3
  <1>7. B(k) \cap UNION {B(j) : j \in d.boi_bs \ {k}} = {}
    <2>1. \A x \in UNION {B(j) : j \in d.boi_bs \ {k}} :
              \E j \in d.boi_bs \ {k} : x \in B(j)
      OBVIOUS
    <2> QED BY <1>4, <2>1
  <1> QED BY <1>3, <1>4, <1>5, <1>6, <1>7 DEF B

LEMMA AddBierHeaderDivides ==
    ASSUME RInv, NEW c, Sane(c), Orderly(c), AddBierHeader(c)
    PROVE  \E new : Replace(c, new) /\ Divides(c, new) /\ got' = got
  <1> DEFINE g == [c EXCEPT !.bier = Stack(Groups[group], Invalid), !.eth = "BIER",
                            !.recirc = TRUE]
             f == [g EXCEPT !.stage = "egress"]
  <1>1. /\ c = Parsed(Source[group], "IPv4", Stack(Invalid, Invalid))
        /\ c.stage = "ingress" /\ c.eth = "IPv4" /\ ToEgress(c, g)
    BY DEF AddBierHeader, Orderly
  <1>2. Groups[group] \in SUBSET AllBits /\ Groups[group] # Invalid
    BY TablesAssumption, NotValid DEF RInv, IInv, Known, TypeOK
  <1>3. /\ c.at = Source[group] /\ c.inst = "normal" /\ c.port = NullPort
        /\ c.boi = FALSE /\ c.needs_cloning = FALSE /\ c.decap = FALSE
        /\ NoneGathered(c.frr)
        /\ c.frr.needs_recursion = FALSE /\ c.frr.needs_cloning = FALSE
    BY <1>1 DEF Parsed, NoneGathered
  <1>4. c \in Packet
    BY DEF Sane, Fits
  <1>5. /\ f.at = c.at /\ f.stage = "egress" /\ f.inst = c.inst /\ f.port = c.port
        /\ f.eth = "BIER" /\ f.boi = c.boi /\ f.needs_cloning = c.needs_cloning
        /\ f.decap = c.decap /\ f.recirc = TRUE /\ f.frr = c.frr
        /\ f.bier[0] = Groups[group] /\ f.bier[1] = Invalid
    BY <1>4 DEF Packet, Stack
  <1> HIDE DEF f
  <1>6. ~Flagged(f)
    BY <1>3, <1>5 DEF Flagged
  <1>7. Entrance \in Ways
    BY DEF RInv, Planned
  <1>8. /\ Reparsed(f.bier) = f.bier
        /\ <<f.at, Reparsed(f.bier)[0], Reparsed(f.bier)[1]>> = Entrance
    BY <1>2, <1>3, <1>5 DEF Reparsed, Entrance
  <1>9. Charted(f) /\ Kept(f) = Leads(Entrance)
    BY <1>3, <1>5, <1>7, <1>8 DEF Charted, Kept
  <1>10. Sent(f) = {} /\ Back(f) = Leads(Entrance)
    BY <1>3, <1>5, <1>9 DEF Sent, Back
  <1>11. FrameOk(f)
    BY <1>2, <1>3, <1>5, <1>6, <1>9, <1>10 DEF FrameOk, Gather, NullPort, HostPort
  <1>12. Cover(c) = Leads(Entrance)
    BY <1>1 DEF Cover, Ahead
  <1>13. f = [g EXCEPT !.stage = "egress"]
    BY DEF f
  <1>14. Cover(c) = Sent(f) \cup Back(f) /\ f.inst = "normal" /\ f.port = NullPort
    BY <1>3, <1>5, <1>10, <1>12
  <1> HIDE DEF g
  <1> QED BY <1>1, <1>5, <1>10, <1>11, <1>13, <1>14, FrameStep

\* None of these steps is taken by a switch with all its tables.
LEMMA NothingMissing ==
    ASSUME RInv, NEW c, Sane(c), Orderly(c)
    PROVE  ~NoPortChosen(c) /\ ~HandoverToNone(c) /\ ~HandoverMissing(c)
  <1>1. c.at \in Switches /\ Filled
    BY DEF Sane, Fits, Packet, RInv
  <1>2. /\ On(c.at, "bier_ingress") /\ On(c.at, "find_bit_pos")
        /\ On(c.at, "mc_overlay") /\ On(c.at, "do_handover_mc_overlay")
    BY <1>1, FilledOn
  <1>3. c.stage = "ingress" /\ c.eth = "IPv4" => ~c.decap
    BY DEF Orderly, Parsed
  <1> QED BY <1>2, <1>3 DEF NoPortChosen, HandoverToNone, HandoverMissing

LEMMA DropEmptyDivides ==
    ASSUME NEW c, DropEmpty(c)
    PROVE  \E new : Replace(c, new) /\ Divides(c, new) /\ got' = got
  <1>1. Replace(c, {}) /\ got' = got
    BY DEF DropEmpty
  <1> QED BY <1>1 DEF Divides

\* A packet btaft has a part in serves the bit that is indicated, and what was
\* gathered so far is for this bit.
LEMMA AffectedServes ==
    ASSUME RInv, NEW c, Sane(c), BierAtIngress(c), IngressOk(c), Affected(Prepared(c))
    PROVE  LET d == Prepared(c)
           IN  /\ Ready(d, Cover(c)) /\ ~d.decap /\ Serving(d, Cover(c))
               /\ d.bier[1] = Invalid /\ d.frr.bp \in d.boi_bs
               /\ \E l \in WatchedBy(d.at) : d.frr.bp = LinkBp(d.at, l)
               /\ \E I \in SUBSET EntriesFor(d.at, d.frr.bp, d.bs_remaining) :
                     /\ d.frr.add_bm = Added(d.at, I)
                     /\ d.frr.reset_bm = Taken(d.at, I)
                     /\ d.bs_remaining \ NextHops(d.at, I) \subseteq FrrRest(d)
                     /\ FrrRest(d) \subseteq d.bs_remaining
  <1> DEFINE d == Prepared(c)
  <1>1. Known /\ Filled
    BY DEF RInv, IInv
  <1>2. Ready(d, Cover(c))
    BY <1>1, PreparedReady
  <1>3. /\ c.bier[1] = Invalid
        /\ d.frr.bp \in {LinkBp(c.at, l) : l \in down \cap WatchedBy(c.at)}
    BY <1>1, AffectedSingle
  <1>4. d.bier[1] = c.bier[1] /\ d.at = c.at
    BY <1>1, PreparedFits, SoughtFits DEF Sane, Known
  <1>5. d.boi_bs # {} /\ LowBit(d.boi_bs) = d.frr.bp
    BY DEF Affected, Found
  <1> HIDE DEF d
  <1>6. d.boi_bs \subseteq Boi[d.at] /\ d.at \in Switches /\ d.boi
    BY <1>2 DEF Ready
  <1>7. d.boi_bs \subseteq AllBits
    BY <1>6, BitNumbers
  <1>8. d.frr.bp \in d.boi_bs
    BY <1>5, <1>7, LowBitIn
  <1>9. d.frr.bp # 0
    BY <1>7, <1>8, BitNumbers
  <1>10. ~d.decap /\ Serving(d, Cover(c)) /\ Gather(d)
    BY <1>2, <1>3, <1>4 DEF Ready, Ended, Ending
  <1>11. \E I \in SUBSET EntriesFor(d.at, d.frr.bp, d.bs_remaining) :
             /\ d.frr.add_bm = Added(d.at, I)
             /\ d.frr.reset_bm = Taken(d.at, I)
             /\ d.bs_remaining \ NextHops(d.at, I) \subseteq FrrRest(d)
             /\ FrrRest(d) \subseteq d.bs_remaining
    <2>1. CASE Gathering(d)
      BY <2>1 DEF Gathering
    <2>2. CASE NoneGathered(d.frr)
      <3>1. /\ d.frr.BitString = {} /\ d.frr.add_bm = {} /\ d.frr.reset_bm = {}
        BY <2>2 DEF NoneGathered
      <3>2. FrrRest(d) = d.bs_remaining
        BY <3>1 DEF FrrRest
      <3>3. Added(d.at, {}) = {} /\ Taken(d.at, {}) = {}
        BY DEF Added, Taken
      <3>4. {} \in SUBSET EntriesFor(d.at, d.frr.bp, d.bs_remaining)
        OBVIOUS
      <3>5. /\ d.frr.add_bm = Added(d.at, {}) /\ d.frr.reset_bm = Taken(d.at, {})
            /\ d.bs_remaining \ NextHops(d.at, {}) \subseteq FrrRest(d)
            /\ FrrRest(d) \subseteq d.bs_remaining
        BY <3>1, <3>2, <3>3
      <3> QED BY <3>4, <3>5
    <2>3. NoneGathered(d.frr) \/ Gathering(d)
      BY <1>3, <1>4, <1>5, <1>6, <1>10 DEF Gather
    <2> QED BY <2>1, <2>2, <2>3
  <1>12. \E l \in WatchedBy(d.at) : d.frr.bp = LinkBp(d.at, l)
    BY <1>3, <1>4
  <1> QED BY <1>2, <1>3, <1>4, <1>8, <1>10, <1>11, <1>12 DEF d

\* What a packet leads to that only comes back to the ingress.
LEMMA StaysHere ==
    ASSUME NEW f, f.at \in Switches, f.port = NullPort
    PROVE  Frame(f) = {} /\ Sent(f) = {}
  <1>1. Peer[f.at][f.port] = {}
    BY SwitchNumbers, PeerSwitches
  <1>2. Frame(f) = {}
    BY <1>1 DEF Frame
  <1>3. Hosted({}) = {} /\ f.port # HostPort
    BY DEF Hosted, NullPort, HostPort
  <1> QED BY <1>2, <1>3 DEF Sent

LEMMA BtaftRecursionDivides ==
    ASSUME RInv, NEW c, Sane(c), Orderly(c), BtaftRecursion(c)
    PROVE  \E new : Replace(c, new) /\ Divides(c, new) /\ got' = got
  <1> DEFINE d == Prepared(c)
             m == FirstMatch(d)
             E == EntriesFor(d.at, d.frr.bp, d.bs_remaining)
             g == [d EXCEPT !.frr.add_bm = @ \cup m.add_bm,
                            !.frr.reset_bm = @ \cup m.reset_bm,
                            !.frr.needs_recursion = TRUE,
                            !.frr.BitString = FrrBitString(d) \ {m.nnh_bp}]
             f == [g EXCEPT !.stage = "egress"]
  <1>1. /\ BierAtIngress(c) /\ Affected(d) /\ d.at \in DOMAIN Entries
        /\ Matching(d) # {} /\ ToEgress(c, g)
    BY DEF BtaftRecursion
  <1>2. IngressOk(c)
    BY <1>1 DEF Orderly, BierAtIngress
  <1>3. /\ Ready(d, Cover(c)) /\ ~d.decap /\ Serving(d, Cover(c))
        /\ d.bier[1] = Invalid /\ d.frr.bp \in d.boi_bs
        /\ \E I \in SUBSET E :
              /\ d.frr.add_bm = Added(d.at, I)
              /\ d.frr.reset_bm = Taken(d.at, I)
              /\ d.bs_remaining \ NextHops(d.at, I) \subseteq FrrRest(d)
              /\ FrrRest(d) \subseteq d.bs_remaining
    BY <1>1, <1>2, AffectedServes
  <1>4. PICK i \in Matching(d) : m = Entries[d.at][i]
    <2>1. \A n \in DOMAIN Entries[d.at] : n \in Nat
      BY <1>1, TablesAssumption
    <2>2. \E n \in Matching(d) : \A j \in Matching(d) : n <= j
      BY <1>1, <2>1, Least DEF Matching
    <2> QED BY <2>2 DEF FirstMatch
  <1>5. /\ d \in Packet /\ d.at \in Switches /\ d.inst = "normal" /\ d.eth = "BIER"
        /\ d.port = NullPort /\ ~d.recirc /\ d.boi /\ ~d.needs_cloning
        /\ d.bier[0] = d.bs_remaining /\ d.bier[0] \in SUBSET AllBits
        /\ d.boi_bs \subseteq AllBits
    BY <1>3, BitNumbers DEF Ready
  <1>6. FrrBitString(d) = FrrRest(d)
    BY <1>5 DEF FrrBitString, FrrRest
  <1>7. i \in E
    <2>1. /\ i \in DOMAIN Entries[d.at] /\ Entries[d.at][i].bp = d.frr.bp
          /\ Entries[d.at][i].match \subseteq FrrRest(d)
      BY <1>4, <1>6 DEF Matching
    <2> QED BY <1>3, <2>1 DEF EntriesFor
  <1>8. PICK I \in SUBSET E :
              /\ d.frr.add_bm = Added(d.at, I)
              /\ d.frr.reset_bm = Taken(d.at, I)
              /\ d.bs_remaining \ NextHops(d.at, I) \subseteq FrrRest(d)
              /\ FrrRest(d) \subseteq d.bs_remaining
    BY <1>3
  <1> DEFINE J == I \cup {i}
  <1>9. /\ Added(d.at, J) = Added(d.at, I) \cup m.add_bm
        /\ Taken(d.at, J) = Taken(d.at, I) \cup m.reset_bm
        /\ NextHops(d.at, J) = NextHops(d.at, I) \cup {m.nnh_bp}
    BY <1>4 DEF Added, Taken, NextHops
  <1>10. J \in SUBSET E
    BY <1>7, <1>8
  <1>11. /\ f.at = d.at /\ f.stage = "egress" /\ f.inst = d.inst /\ f.port = d.port
         /\ f.eth = d.eth /\ f.boi = d.boi /\ f.needs_cloning = d.needs_cloning
         /\ f.decap = d.decap /\ f.recirc = d.recirc /\ f.bier = d.bier
         /\ f.boi_bs = d.boi_bs /\ f.bs_remaining = d.bs_remaining
         /\ f.frr.bp = d.frr.bp
         /\ f.frr.add_bm = d.frr.add_bm \cup m.add_bm
         /\ f.frr.reset_bm = d.frr.reset_bm \cup m.reset_bm
         /\ f.frr.needs_recursion = TRUE
         /\ f.frr.BitString = FrrRest(d) \ {m.nnh_bp}
    <2> HIDE DEF d, m
    <2> QED BY <1>5, <1>6 DEF Packet, Frr, d, m
  <1> HIDE DEF d, m, E, f, J
  <1>12. d.frr.bp # 0
    BY <1>3, <1>5, BitNumbers
  <1>13. FrrRest(f) = IF FrrRest(d) \ {m.nnh_bp} = {} THEN d.bs_remaining
                                                     ELSE FrrRest(d) \ {m.nnh_bp}
    BY <1>11 DEF FrrRest
  <1>14. /\ d.bs_remaining \ NextHops(d.at, J) \subseteq FrrRest(f)
         /\ FrrRest(f) \subseteq d.bs_remaining
    BY <1>8, <1>9, <1>13
  <1>15. Gathering(f)
    <2>1. /\ f.frr.add_bm = Added(f.at, J) /\ f.frr.reset_bm = Taken(f.at, J)
          /\ f.bs_remaining \ NextHops(f.at, J) \subseteq FrrRest(f)
          /\ FrrRest(f) \subseteq f.bs_remaining
      BY <1>8, <1>9, <1>11, <1>14
    <2>2. J \in SUBSET EntriesFor(f.at, f.frr.bp, f.bs_remaining)
      BY <1>10, <1>11 DEF E
    <2>3. f.bier[1] = Invalid /\ f.boi /\ f.frr.bp # 0
      BY <1>3, <1>5, <1>11, <1>12
    <2> QED BY <2>1, <2>2, <2>3 DEF Gathering
  <1>16. Charted(f) /\ Kept(f) \subseteq Cover(c)
    BY <1>3, <1>5, <1>11 DEF Serving, Charted, Kept
  <1>17. Frame(f) = {} /\ Sent(f) = {}
    BY <1>5, <1>11, StaysHere
  <1>18. Back(f) = Kept(f)
    BY <1>3, <1>5, <1>11 DEF Back, Flagged
  <1>19. FrameOk(f)
    BY <1>3, <1>5, <1>11, <1>15, <1>16, <1>17, NotValid
       DEF FrameOk, Gather, NullPort, HostPort
  <1> QED BY <1>1, <1>5, <1>11, <1>16, <1>17, <1>18, <1>19, FrameStep DEF f, d, m

\* The second header leads to the hosts behind the indicated bit.
LEMMA BtaftApplyDivides ==
    ASSUME RInv, NEW c, Sane(c), Orderly(c), BtaftApply(c)
    PROVE  \E new : Replace(c, new) /\ Divides(c, new) /\ got' = got
  <1> DEFINE d == Prepared(c)
             E == EntriesFor(d.at, d.frr.bp, d.bs_remaining)
             h == Stack(d.frr.add_bm, d.bier[0] \ d.frr.reset_bm)
             a == <<d.at, d.frr.add_bm, d.bs_remaining \ d.frr.reset_bm>>
             g == [d EXCEPT !.bier = h,
                            !.frr.BitString = FrrBitString(d),
                            !.frr.needs_recursion = FALSE,
                            !.frr.needs_cloning = TRUE,
                            !.boi = FALSE]
             f == [g EXCEPT !.stage = "egress"]
  <1>1. /\ BierAtIngress(c) /\ Affected(d) /\ d.at \in DOMAIN Entries
        /\ Matching(d) = {} /\ ToEgress(c, g)
    BY DEF BtaftApply
  <1>2. IngressOk(c)
    BY <1>1 DEF Orderly, BierAtIngress
  <1>3. /\ Ready(d, Cover(c)) /\ ~d.decap /\ Serving(d, Cover(c))
        /\ d.bier[1] = Invalid /\ d.frr.bp \in d.boi_bs
        /\ \E l \in WatchedBy(d.at) : d.frr.bp = LinkBp(d.at, l)
        /\ \E I \in SUBSET E :
              /\ d.frr.add_bm = Added(d.at, I)
              /\ d.frr.reset_bm = Taken(d.at, I)
              /\ d.bs_remaining \ NextHops(d.at, I) \subseteq FrrRest(d)
              /\ FrrRest(d) \subseteq d.bs_remaining
    BY <1>1, <1>2, AffectedServes
  <1>4. /\ d \in Packet /\ d.at \in Switches /\ d.inst = "normal" /\ d.eth = "BIER"
        /\ d.port = NullPort /\ ~d.recirc /\ d.boi /\ ~d.needs_cloning
        /\ d.bier[0] = d.bs_remaining /\ d.bier[0] \in SUBSET AllBits
        /\ d.bs_remaining \cap Boi[d.at] = {}
    BY <1>3 DEF Ready
  <1>5. FrrBitString(d) = FrrRest(d)
    BY <1>4 DEF FrrBitString, FrrRest
  <1>6. PICK I \in SUBSET E :
              /\ d.frr.add_bm = Added(d.at, I)
              /\ d.frr.reset_bm = Taken(d.at, I)
              /\ d.bs_remaining \ NextHops(d.at, I) \subseteq FrrRest(d)
              /\ FrrRest(d) \subseteq d.bs_remaining
    BY <1>3
  <1>7. d.frr.add_bm \in SUBSET AllBits /\ FrrBitString(d) \in SUBSET AllBits
    BY <1>4 DEF Packet, Frr, FrrBitString
  <1>8. /\ h \in Headers /\ h[0] = d.frr.add_bm
        /\ h[1] = d.bs_remaining \ d.frr.reset_bm
    BY <1>4, <1>7 DEF Stack, Headers
  \* No entry matches any more.
  <1>9. I \in Gathered(d.at, d.frr.bp, d.bs_remaining)
    <2>1. ASSUME NEW i \in EntriesFor(d.at, d.frr.bp,
                                      d.bs_remaining \ NextHops(d.at, I))
          PROVE  FALSE
      <3>1. /\ i \in DOMAIN Entries[d.at] /\ Entries[d.at][i].bp = d.frr.bp
            /\ Entries[d.at][i].match \subseteq FrrBitString(d)
        BY <1>5, <1>6, <2>1 DEF EntriesFor
      <3>2. i \in Matching(d)
        BY <3>1 DEF Matching
      <3> QED BY <1>1, <3>2
    <2> QED BY <1>6, <2>1 DEF Gathered
  <1>10. a \in Onward(d.at, d.frr.bp, d.bs_remaining, d.bier[1])
    BY <1>1, <1>3, <1>6, <1>9 DEF Onward, Detours
  <1>11. /\ Onward(d.at, d.frr.bp, d.bs_remaining, d.bier[1]) \subseteq Ways
         /\ Branch(d.at, d.frr.bp, d.bs_remaining, d.bier[1]) \subseteq Cover(c)
    <2>1. Serving(d, Cover(c)) /\ d.boi /\ d.frr.bp \in d.boi_bs
      BY <1>3, <1>4
    <2> HIDE DEF d
    <2> QED BY <2>1, ServingBit
  <1>12. a \in Ways /\ Leads(a) \subseteq Cover(c)
    <2> DEFINE O == Onward(d.at, d.frr.bp, d.bs_remaining, d.bier[1])
    <2>1. Hosted(O) \subseteq Cover(c) /\ O \subseteq Ways
      BY <1>11 DEF Branch
    <2> HIDE DEF O, a
    <2>2. a \in O
      BY <1>10 DEF O, a
    <2> QED BY <2>1, <2>2 DEF Hosted
  <1> HIDE DEF h
  <1>13. /\ f.at = d.at /\ f.stage = "egress" /\ f.inst = d.inst /\ f.port = d.port
         /\ f.eth = d.eth /\ f.boi = FALSE /\ f.needs_cloning = d.needs_cloning
         /\ f.decap = d.decap /\ f.recirc = d.recirc /\ f.bier = h
         /\ f.frr.needs_cloning = TRUE
    <2> HIDE DEF d
    <2> QED BY <1>4, <1>7, <1>8 DEF Packet, Frr, Headers, d
  <1> HIDE DEF d, E, f
  <1>14. /\ f.bier[0] = d.frr.add_bm /\ f.bier[1] = d.bs_remaining \ d.frr.reset_bm
         /\ f.bier[0] # Invalid /\ f.bier[1] # Invalid
    BY <1>4, <1>7, <1>8, <1>13, NotValid
  <1>15. Reparsed(f.bier)[0] = d.frr.add_bm
         /\ Reparsed(f.bier)[1] = d.bs_remaining \ d.frr.reset_bm
    BY <1>14 DEF Reparsed
  <1>16. Charted(f) /\ Kept(f) = Leads(a)
    BY <1>12, <1>13, <1>15 DEF Charted, Kept
  <1>17. Gather(f)
    BY <1>4, <1>13, <1>14 DEF Gather
  <1>18. Frame(f) = {} /\ Sent(f) = {}
    BY <1>4, <1>13, StaysHere
  <1>19. Back(f) = Kept(f)
    BY <1>3, <1>13 DEF Back, Flagged
  <1>20. FrameOk(f)
    BY <1>3, <1>4, <1>13, <1>14, <1>16, <1>17, <1>18
       DEF FrameOk, NullPort, HostPort
  <1>21. Sent(f) \cup Back(f) \subseteq Cover(c)
    BY <1>12, <1>16, <1>18, <1>19
  <1> QED BY <1>1, <1>4, <1>13, <1>20, <1>21, FrameStep DEF f, d, h

LEMMA BtaftMissingDivides ==
    ASSUME RInv, NEW c, Sane(c), Orderly(c), BtaftMissing(c)
    PROVE  \E new : Replace(c, new) /\ Divides(c, new) /\ got' = got
  <1> DEFINE d == Prepared(c)
             f == [d EXCEPT !.stage = "egress"]
  <1>1. BierAtIngress(c) /\ Affected(d) /\ ToEgress(c, d)
    BY DEF BtaftMissing
  <1>2. IngressOk(c)
    BY <1>1 DEF Orderly, BierAtIngress
  <1>3. /\ Ready(d, Cover(c)) /\ ~d.decap /\ Serving(d, Cover(c))
        /\ d.bier[1] = Invalid
    BY <1>1, <1>2, AffectedServes
  <1>4. /\ d \in Packet /\ d.at \in Switches /\ d.inst = "normal" /\ d.eth = "BIER"
        /\ d.port = NullPort /\ ~d.recirc /\ d.boi /\ ~d.needs_cloning
        /\ d.bier[0] = d.bs_remaining /\ d.bier[0] \in SUBSET AllBits /\ Gather(d)
    BY <1>3 DEF Ready
  <1> HIDE DEF d
  <1>5. /\ f.at = d.at /\ f.stage = "egress" /\ f.inst = d.inst /\ f.port = d.port
        /\ f.eth = d.eth /\ f.boi = d.boi /\ f.needs_cloning = d.needs_cloning
        /\ f.decap = d.decap /\ f.recirc = d.recirc /\ f.bier = d.bier
        /\ f.boi_bs = d.boi_bs /\ f.bs_remaining = d.bs_remaining /\ f.frr = d.frr
    BY <1>4 DEF Packet
  <1> HIDE DEF f
  <1>6. Charted(f) /\ Kept(f) \subseteq Cover(c)
    BY <1>3, <1>4, <1>5 DEF Serving, Charted, Kept
  <1>7. Gather(f)
    BY <1>4, <1>5 DEF Gather, Gathering, FrrRest
  <1>8. Frame(f) = {} /\ Sent(f) = {}
    BY <1>4, <1>5, StaysHere
  <1>9. Back(f) \subseteq Kept(f)
    BY <1>3, <1>5 DEF Back
  <1>10. FrameOk(f)
    BY <1>3, <1>4, <1>5, <1>6, <1>7, <1>8, NotValid DEF FrameOk, NullPort, HostPort
  <1> QED BY <1>1, <1>4, <1>5, <1>6, <1>8, <1>9, <1>10, FrameStep DEF f, d

\* The bit of local_decap, found by a packet in one header.
LEMMA HandoverDivides ==
    ASSUME RInv, NEW c, Sane(c), Orderly(c), Handover(c)
    PROVE  \E new : Replace(c, new) /\ Divides(c, new) /\ got' = got
  <1> DEFINE d == Prepared(c)
             k == LowBit(d.boi_bs)
             g == [Decapsulated(d) EXCEPT !.port = HostPort]
             f == [g EXCEPT !.stage = "egress"]
  <1>1. /\ BierAtIngress(c) /\ Unaffected(d) /\ k = DecapBit(c.at)
        /\ c.bier[1] = Invalid /\ ToEgress(c, g)
    BY DEF Handover, HandedOver, LocalDecap
  <1>2. Known /\ Filled
    BY DEF RInv, IInv
  <1>3. Ready(d, Cover(c))
    BY <1>1, <1>2, PreparedReady DEF Orderly, BierAtIngress
  <1>4. d.bier[1] = Invalid /\ d.at = c.at /\ d.boi_bs # {}
    BY <1>1, <1>2, PreparedFits, SoughtFits DEF Sane, Known, Unaffected, Found
  <1>5. ~d.decap /\ Serving(d, Cover(c))
    BY <1>3, <1>4 DEF Ready, Ended, Ending
  <1>6. /\ d \in Packet /\ d.at \in Switches /\ d.inst = "normal" /\ d.eth = "BIER"
        /\ ~d.recirc /\ d.boi
        /\ d.bier[0] = d.bs_remaining /\ d.bier[0] \in SUBSET AllBits /\ Gather(d)
        /\ d.boi_bs \subseteq AllBits
    BY <1>3, <1>5, BitNumbers DEF Ready
  <1>7. k \in d.boi_bs
    BY <1>4, <1>6, LowBitIn
  <1>8. /\ Branch(d.at, k, d.bs_remaining, d.bier[1]) \subseteq Cover(c)
        /\ Rest(d.at, d.boi_bs \ {k}, d.bs_remaining, d.bier[1]) \subseteq Cover(c)
        /\ Branch(d.at, k, d.bs_remaining, d.bier[1])
               \cap Rest(d.at, d.boi_bs \ {k}, d.bs_remaining, d.bier[1]) = {}
        /\ Tidy(d.at, d.boi_bs \ {k}, d.bs_remaining, d.bier[1])
    BY <1>5, <1>6, <1>7, ServingBit
  <1>9. d.at \in Branch(d.at, k, d.bs_remaining, d.bier[1])
    BY <1>1, <1>4 DEF Branch
  <1>10. /\ f.at = d.at /\ f.stage = "egress" /\ f.inst = d.inst /\ f.port = HostPort
         /\ f.eth = d.eth /\ f.boi = d.boi /\ f.needs_cloning = TRUE
         /\ f.decap = TRUE /\ f.recirc = d.recirc /\ f.bier = d.bier
         /\ f.boi_bs = d.boi_bs \ {k} /\ f.bs_remaining = d.bs_remaining /\ f.frr = d.frr
    <2> HIDE DEF d
    <2> QED BY <1>6 DEF Packet, Decapsulated
  <1> HIDE DEF d, k, f
  <1>11. Charted(f) /\ Kept(f) = Rest(d.at, d.boi_bs \ {k}, d.bs_remaining, d.bier[1])
    BY <1>4, <1>6, <1>8, <1>10 DEF Charted, Kept
  <1>12. Gather(f)
    <2>1. NoneGathered(d.frr) \/ Gathering(d)
      BY <1>4, <1>6 DEF Gather
    <2> QED BY <1>10, <2>1 DEF Gather, Gathering, FrrRest
  <1>13. Sent(f) = {d.at} /\ Back(f) = Kept(f)
    BY <1>4, <1>6, <1>10 DEF Sent, Back, Flagged
  <1>14. Sent(f) \cap Back(f) = {} /\ Sent(f) \cup Back(f) \subseteq Cover(c)
    BY <1>8, <1>9, <1>11, <1>13
  <1>15. FrameOk(f)
    BY <1>4, <1>6, <1>10, <1>11, <1>12, <1>14, NotValid DEF FrameOk
  <1> QED BY <1>1, <1>6, <1>10, <1>14, <1>15, FrameStep DEF f, d, k

\* The bit of local_decap, found by a packet in two headers: it goes back to the
\* ingress, in the middle of the decapsulation, or, the second time, to no port,
\* and its clone is the inner packet.
LEMMA DecapEncapsulatedDivides ==
    ASSUME RInv, NEW c, Sane(c), Orderly(c), DecapEncapsulated(c)
    PROVE  \E new : Replace(c, new) /\ Divides(c, new) /\ got' = got
  <1> DEFINE p == Prepared(c)
             k == LowBit(p.boi_bs)
             d == Decapsulated(p)
             f == [d EXCEPT !.stage = "egress"]
             e == [d EXCEPT !.frr.decap_done = TRUE, !.bier = c.bier]
             hosts == Hosted({Inner(p.at, p.bier[1])}
                                 \cup Beyond(p.at, p.boi_bs \ {k}, p.bier[1]))
  <1>1. /\ BierAtIngress(c) /\ Unaffected(p) /\ k = DecapBit(c.at)
        /\ c.bier[1] # Invalid /\ got' = got
        /\ Replace(c, {f}) \/ Replace(c, {e})
    BY DEF DecapEncapsulated, LocalDecap
  <1>2. Known /\ Filled
    BY DEF RInv, IInv
  <1>3. Ready(p, Cover(c)) /\ IngressOk(c)
    BY <1>1, <1>2, PreparedReady DEF Orderly, BierAtIngress
  <1>4. p.bier[1] = c.bier[1] /\ p.at = c.at /\ p.boi_bs # {} /\ p.stage = "ingress"
    BY <1>1, <1>2, PreparedFits, SoughtFits
       DEF Sane, Known, Unaffected, Found, BierAtIngress
  <1>5. /\ p \in Packet /\ p.at \in Switches /\ p.inst = "normal" /\ p.eth = "BIER"
        /\ p.port = NullPort /\ ~p.recirc /\ p.boi
        /\ p.bier[0] \in SUBSET AllBits /\ Gather(p)
        /\ p.boi_bs \subseteq AllBits /\ c.bier \in Headers
    BY <1>3, BitNumbers DEF Ready, Sane, Fits, Packet, Headers
  <1>6. k \in p.boi_bs
    BY <1>4, <1>5, LowBitIn
  <1>7. Ending(p, Cover(c))
    BY <1>1, <1>3, <1>4, <1>6 DEF Ready, Ended, Serving, Charted
  <1>8. /\ TidyEnd(p.at, p.boi_bs \ {k}, p.bier[1])
        /\ hosts \subseteq Cover(c)
        /\ DecapBit(p.at) \notin p.boi_bs \ {k}
    BY <1>1, <1>4, <1>7 DEF Ending
  <1>9. /\ Inner(p.at, p.bier[1]) \in Ways
        /\ Leads(Inner(p.at, p.bier[1])) \subseteq Cover(c)
    BY <1>8 DEF TidyEnd, Hosted
  <1>10. NoneGathered(p.frr) \/ p.bier[1] \cap Boi[p.at] = {}
    BY <1>1, <1>4, <1>5 DEF Gather, Gathering
  <1>11. /\ d \in Packet /\ d.at = p.at /\ d.inst = p.inst /\ d.eth = p.eth
         /\ d.port = p.port /\ d.recirc = p.recirc /\ d.boi = p.boi /\ d.bier = p.bier
         /\ d.stage = p.stage
         /\ d.boi_bs = p.boi_bs \ {k} /\ d.bs_remaining = p.bs_remaining
         /\ d.frr = p.frr /\ d.needs_cloning = TRUE /\ d.decap = TRUE
    <2> HIDE DEF p
    <2> QED BY <1>5 DEF Packet, Decapsulated
  <1> HIDE DEF p, k, d
  <1>12. CASE Replace(c, {f})
    <2>1. /\ f.at = p.at /\ f.stage = "egress" /\ f.inst = "normal" /\ f.eth = "BIER"
          /\ f.port = NullPort /\ f.recirc = p.recirc /\ f.boi = p.boi /\ f.bier = p.bier
          /\ f.frr = p.frr /\ f.needs_cloning = TRUE /\ f.decap = TRUE
      BY <1>5, <1>11 DEF Packet
    <2> HIDE DEF f
    <2>2. Frame(f) = {} /\ Sent(f) = {}
      BY <1>5, <2>1, StaysHere
    <2>3. Gather(f)
      BY <1>1, <1>4, <1>10, <2>1 DEF Gather
    <2>4. Back(f) = Leads(Inner(p.at, p.bier[1]))
      BY <1>1, <1>4, <2>1 DEF Back, Flagged
    <2>5. FrameOk(f)
      BY <1>1, <1>4, <1>5, <1>9, <2>1, <2>2, <2>3, NotValid
         DEF FrameOk, NullPort, HostPort
    <2>6. Orderly(f) /\ Cover(f) \subseteq Cover(c)
      BY <1>9, <2>1, <2>2, <2>4, <2>5 DEF Orderly, Cover
    <2> QED BY <1>1, <1>12, <2>6 DEF Divides
  <1>13. CASE Replace(c, {e})
    <2>1. /\ e.at = p.at /\ e.stage = "ingress" /\ e.eth = "BIER"
          /\ e.recirc = p.recirc /\ e.boi = p.boi /\ e.bier = c.bier
          /\ e.boi_bs = p.boi_bs \ {k} /\ e.needs_cloning = TRUE /\ e.decap = TRUE
          /\ e.frr.BitString = p.frr.BitString /\ e.frr.add_bm = p.frr.add_bm
          /\ e.frr.reset_bm = p.frr.reset_bm
      BY <1>4, <1>5, <1>11 DEF Packet, Frr, Headers
    <2> HIDE DEF e
    <2>2. Gather(e)
      BY <1>1, <1>4, <1>10, <2>1 DEF Gather, NoneGathered
    <2>3. IngressOk(e)
      BY <1>1, <1>4, <1>5, <1>8, <2>1, <2>2 DEF IngressOk
    <2>4. Ahead(e) \subseteq hosts
      BY <1>4, <2>1 DEF Ahead
    <2>5. Orderly(e) /\ Cover(e) \subseteq Cover(c)
      BY <1>8, <2>1, <2>3, <2>4 DEF Orderly, Cover
    <2> QED BY <1>1, <1>13, <2>5 DEF Divides
  <1> QED BY <1>1, <1>12, <1>13

\* No link bit has the port of the multicast group for its port.
LEMMA BiftNotHost ==
    ASSUME NEW s \in Switches, NEW k \in Boi[s], k # DecapBit(s)
    PROVE  Bift[s][k] # HostPort
  <1>1. k \in BitsOfInterest(NumSwitches, HostsTaken, s) \ {DecapBit(s)}
    BY DEF Boi
  <1>2. \E p \in LinkPorts(HostsTaken) :
            AdjacencyBit(NumSwitches, HostsTaken, s, p) = k
    BY <1>1 DEF BitsOfInterest
  <1>3. Bift[s][k] = CHOOSE p \in LinkPorts(HostsTaken) :
            AdjacencyBit(NumSwitches, HostsTaken, s, p) = k
    BY <1>1 DEF Bift, PortOfBit
  <1>4. Bift[s][k] \in LinkPorts(HostsTaken)
    BY <1>2, <1>3
  <1> QED BY <1>4, SwitchNumbers DEF LinkPorts, MaxPortNum, HostPort

\* The bit of a port: the frame leads where the bit does, the clone to the rest;
\* in a decapsulation the frame is the inner packet, and so is its clone.
LEMMA ForwardConnectedDivides ==
    ASSUME RInv, NEW c, Sane(c), Orderly(c), ForwardConnected(c)
    PROVE  \E new : Replace(c, new) /\ Divides(c, new) /\ got' = got
  <1> DEFINE d == Prepared(c)
             k == LowBit(d.boi_bs)
             q == Bift[c.at][k]
             g == [d EXCEPT !.boi_bs = @ \ {k}, !.needs_cloning = TRUE, !.port = q]
             f == [g EXCEPT !.stage = "egress"]
  <1>1. /\ BierAtIngress(c) /\ Unaffected(d) /\ k # DecapBit(c.at) /\ ToEgress(c, g)
    BY DEF ForwardConnected
  <1>2. Known /\ Filled
    BY DEF RInv, IInv
  <1>3. Ready(d, Cover(c))
    BY <1>1, <1>2, PreparedReady DEF Orderly, BierAtIngress
  <1>4. d.at = c.at /\ d.boi_bs # {}
    BY <1>1, <1>2, PreparedFits DEF Sane, Known, Unaffected, Found
  <1>5. /\ d \in Packet /\ d.at \in Switches /\ d.inst = "normal" /\ d.eth = "BIER"
        /\ ~d.recirc /\ d.boi /\ d.bier[0] \in SUBSET AllBits /\ Gather(d)
        /\ d.boi_bs \subseteq Boi[d.at] /\ d.boi_bs \subseteq AllBits
    BY <1>3, BitNumbers DEF Ready
  <1>6. k \in d.boi_bs /\ k \in Boi[d.at]
    BY <1>4, <1>5, LowBitIn
  <1>7. q \in Port /\ q # HostPort
    BY <1>1, <1>4, <1>5, <1>6, BiftPort, BiftNotHost
  <1>8. /\ f.at = d.at /\ f.stage = "egress" /\ f.inst = d.inst /\ f.port = q
        /\ f.eth = d.eth /\ f.boi = d.boi /\ f.needs_cloning = TRUE
        /\ f.decap = d.decap /\ f.recirc = d.recirc /\ f.bier = d.bier
        /\ f.boi_bs = d.boi_bs \ {k} /\ f.bs_remaining = d.bs_remaining /\ f.frr = d.frr
    <2> HIDE DEF d, q
    <2> QED BY <1>5, <1>7 DEF Packet
  <1>9. CASE ~d.decap
    <2>1. Serving(d, Cover(c)) /\ d.bier[0] = d.bs_remaining
      BY <1>1, <1>3, <1>4, <1>5, <1>9, DecapLowest DEF Ready, Ending
    <2>2. /\ Onward(d.at, k, d.bs_remaining, d.bier[1]) \subseteq Ways
          /\ Branch(d.at, k, d.bs_remaining, d.bier[1]) \subseteq Cover(c)
          /\ Rest(d.at, d.boi_bs \ {k}, d.bs_remaining, d.bier[1]) \subseteq Cover(c)
          /\ Branch(d.at, k, d.bs_remaining, d.bier[1])
                 \cap Rest(d.at, d.boi_bs \ {k}, d.bs_remaining, d.bier[1]) = {}
          /\ Tidy(d.at, d.boi_bs \ {k}, d.bs_remaining, d.bier[1])
      BY <1>5, <1>6, <2>1, ServingBit
    <2>3. d.bier[1] # Invalid => DecapBit(d.at) \notin d.boi_bs
      BY <1>5, <2>1 DEF Serving, Charted
    <2>4. Across(d.at, k, d.bs_remaining, d.bier[1]) =
              {<<t, d.bs_remaining, d.bier[1]>> : t \in Peer[d.at][q]}
      BY <1>1, <1>4 DEF Across
    <2> HIDE DEF d, k, q, f
    <2>5. Frame(f) = Across(d.at, k, d.bs_remaining, d.bier[1])
      BY <1>8, <1>9, <2>1, <2>4 DEF Frame
    <2>6. Frame(f) \subseteq Onward(d.at, k, d.bs_remaining, d.bier[1])
      BY <2>5 DEF Onward
    <2>7. Frame(f) \subseteq Ways
          /\ Hosted(Frame(f)) \subseteq Branch(d.at, k, d.bs_remaining, d.bier[1])
      BY <2>2, <2>6 DEF Branch, Hosted
    <2>8. Sent(f) = Hosted(Frame(f))
      BY <1>5, <1>7, <1>8 DEF Sent
    <2>9. Charted(f) /\ Kept(f) = Rest(d.at, d.boi_bs \ {k}, d.bs_remaining, d.bier[1])
      BY <1>5, <1>8, <2>2, <2>3 DEF Charted, Kept
    <2>10. Back(f) = Kept(f)
      BY <1>8, <1>9 DEF Back, Flagged
    <2>11. Gather(f)
      BY <1>5, <1>8 DEF Gather, Gathering, FrrRest
    <2>12. Sent(f) \cap Back(f) = {} /\ Sent(f) \cup Back(f) \subseteq Cover(c)
      BY <2>2, <2>7, <2>8, <2>9, <2>10
    <2>13. FrameOk(f)
      BY <1>5, <1>7, <1>8, <1>9, <2>1, <2>7, <2>9, <2>11, <2>12, NotValid DEF FrameOk
    <2> QED BY <1>1, <1>5, <1>8, <2>12, <2>13, FrameStep DEF f, d, k, q
  <1>10. CASE d.decap
    <2>1. /\ d.bier[1] # Invalid
          /\ TidyEnd(d.at, d.boi_bs, d.bier[1])
          /\ Hosted({Inner(d.at, d.bier[1])} \cup Beyond(d.at, d.boi_bs, d.bier[1]))
                 \subseteq Cover(c)
      BY <1>3, <1>4, <1>10 DEF Ready, Ended
    <2>2. Beyond(d.at, d.boi_bs, d.bier[1]) =
              {<<t, d.bier[1], Invalid>> : t \in Peer[d.at][q]}
      BY <1>1, <1>4 DEF Beyond, Across
    <2> HIDE DEF d, k, q, f
    <2>3. Frame(f) = Beyond(d.at, d.boi_bs, d.bier[1])
      BY <1>8, <1>10, <2>1, <2>2 DEF Frame
    <2>4. /\ Frame(f) \subseteq Ways /\ Inner(d.at, d.bier[1]) \in Ways
          /\ Leads(Inner(d.at, d.bier[1])) \cap Hosted(Frame(f)) = {}
          /\ Leads(Inner(d.at, d.bier[1])) \subseteq Cover(c)
          /\ Hosted(Frame(f)) \subseteq Cover(c)
      BY <2>1, <2>3 DEF TidyEnd, Hosted
    <2>5. Sent(f) = Hosted(Frame(f))
      BY <1>5, <1>7, <1>8 DEF Sent
    <2>6. Back(f) = Leads(Inner(d.at, d.bier[1]))
      BY <1>8, <1>10, <2>1 DEF Back, Flagged
    <2>7. Gather(f)
      BY <1>5, <1>8, <2>1 DEF Gather, Gathering
    <2>8. Sent(f) \cap Back(f) = {} /\ Sent(f) \cup Back(f) \subseteq Cover(c)
      BY <2>4, <2>5, <2>6
    <2>9. FrameOk(f)
      BY <1>5, <1>7, <1>8, <1>10, <2>1, <2>4, <2>7, <2>8, NotValid DEF FrameOk
    <2> QED BY <1>1, <1>5, <1>8, <2>8, <2>9, FrameStep DEF f, d, k, q
  <1> QED BY <1>9, <1>10

LEMMA IngressDivides ==
    ASSUME RInv, NEW c, Sane(c), Orderly(c), Ingress(c)
    PROVE  \E new : Replace(c, new) /\ Divides(c, new) /\ got' = got
  BY NothingMissing, AddBierHeaderDivides, DropEmptyDivides, BtaftRecursionDivides,
     BtaftApplyDivides, BtaftMissingDivides, HandoverDivides, DecapEncapsulatedDivides,
     ForwardConnectedDivides
     DEF Ingress

-----------------------------------------------------------------------------
(* No host gets the packet twice.                                          *)

\* The tables are filled, and no switch has touched the packet yet.
Waiting ==
    /\ Filled /\ Planned /\ Fresh
    /\ got = [s \in Switches |-> 0]

LEMMA RInvBegins ==
    ASSUME IInv, Waiting
    PROVE  RInv
  <1> DEFINE p == Parsed(Source[group], "IPv4", Stack(Invalid, Invalid))
  <1>1. copies = [e \in {p} |-> 1] /\ got = [s \in Switches |-> 0]
    BY DEF Waiting, Fresh, SetToBag
  <1>2. p.stage = "ingress" /\ p.eth = "IPv4"
    BY DEF Parsed
  <1>3. Orderly(p) /\ Cover(p) = Leads(Entrance)
    BY <1>2 DEF Orderly, Cover, Ahead
  <1> HIDE DEF p
  <1>4. DOMAIN copies = {p} /\ BagToSet(copies) = {p} /\ copies[p] = 1
    BY <1>1 DEF BagToSet
  <1>5. Bag(copies)
    BY <1>1, <1>4 DEF Bag
  <1>6. \A c \in BagToSet(copies) : Orderly(c)
    BY <1>3, <1>4
  <1>7. Apart
    <2>1. Leads(Entrance) \subseteq Members /\ Members \subseteq Switches
      BY DEF Waiting, Planned, Members
    <2>2. \A s \in Members : got[s] = 0
      BY <1>1, <2>1
    <2> QED BY <1>3, <1>4, <2>1, <2>2 DEF Apart
  <1>8. AtMostOncePerHost
    BY <1>1 DEF AtMostOncePerHost
  <1> QED BY <1>5, <1>6, <1>7, <1>8 DEF RInv, Waiting

LEMMA RInvStep ==
    ASSUME RInv, [Next]_vars, IInv'
    PROVE  RInv'
  <1>1. ASSUME NEW c \in BagToSet(copies), Handle(c)
        PROVE  RInv'
    <2>1. Sane(c) /\ Orderly(c)
      BY <1>1 DEF RInv, IInv
    <2>2. UNCHANGED <<group, down, late, indicated, installed>>
      BY <1>1 DEF Handle, Ingress, Egress, ToEgress, AddBierHeader, NoPortChosen, DropEmpty,
                  BtaftRecursion, BtaftApply, BtaftMissing, Handover, HandoverToNone,
                  HandoverMissing, DecapEncapsulated, ForwardConnected
    <2>3. CASE Ingress(c)
      BY <2>1, <2>2, <2>3, <1>1, IngressDivides, DividingKeeps
    <2>4. CASE Egress(c) /\ c.inst = "clone"
      BY <2>1, <2>2, <2>4, <1>1, CloneDivides, DividingKeeps
    <2>5. CASE Egress(c) /\ c.inst # "clone"
      BY <2>1, <2>2, <2>5, <1>1, FrameDivides, DividingKeeps
    <2> QED BY <1>1, <2>3, <2>4, <2>5 DEF Handle
  <1>2. ASSUME UNCHANGED <<group, copies, got, installed>>
        PROVE  RInv'
    <2>1. \A c : Cover(c)' = Cover(c) /\ Orderly(c)' = Orderly(c)
      BY <1>2, RigidWays
    <2>2. Planned' = Planned /\ Members' = Members
      BY <1>2, RigidWays
    <2>3. Filled' /\ Bag(copies)' /\ AtMostOncePerHost'
      BY <1>2, <2>2 DEF RInv, Filled, Bag, AtMostOncePerHost
    <2>4. (\A c \in BagToSet(copies) : Orderly(c))'
      BY <1>2, <2>1 DEF RInv
    <2>5. Apart'
      BY <1>2, <2>1, <2>2 DEF RInv, Apart
    <2> QED BY <2>2, <2>3, <2>4, <2>5 DEF RInv
  <1>3. ASSUME NEW l \in Fragile, Fail(l)
        PROVE  RInv'
    BY <1>2, <1>3 DEF Fail
  <1>4. ASSUME NEW s \in Switches, Install(s)
        PROVE  FALSE
    <2>1. installed[s] = Len(InstallOrder) /\ Len(InstallOrder) = 13
      BY DEF RInv, Filled, InstallOrder
    <2> QED BY <1>4, <2>1 DEF Install
  <1>5. ASSUME NEW s, NEW l, Indicate(s, l)
        PROVE  RInv'
    BY <1>2, <1>5 DEF Indicate
  <1>6. ASSUME UNCHANGED vars
        PROVE  RInv'
    BY <1>2, <1>6 DEF vars
  <1> QED BY <1>1, <1>3, <1>4, <1>5, <1>6 DEF Next

LEMMA RInvHolds == Spec => [](Waiting => []RInv)
  <1>1. IInv /\ Waiting => RInv
    BY RInvBegins
  <1>2. RInv /\ [Next]_vars => RInv'
    <2>1. RInv => IInv
      BY DEF RInv
    <2> QED BY <2>1, IInvInductive, RInvStep
  <1>3. [][Next]_vars => [](RInv => []RInv)
    BY <1>2, PTL
  <1> QED BY <1>1, <1>3, IInvHolds, PTL DEF Spec

\* Along a plan the copies of a packet stay apart: the passes over the bits of a
\* switch, the clones, the way around a failed link and the end of the second
\* header share the members out among the copies (bfr_bier_te.p4:11-51, 154-195).
THEOREM ApartHolds == Spec => [](Waiting => []Apart)
  <1>1. RInv => Apart
    BY DEF RInv
  <1> QED BY <1>1, RInvHolds, PTL

\* Along a plan no host gets the packet twice, nor one outside the group, whenever
\* the link fails and its ends notice (bfr_bier_te.p4:11-51, 154-195).
THEOREM AtMostOnceHolds == Spec => [](Waiting => []AtMostOncePerHost)
  <1>1. RInv => AtMostOncePerHost
    BY DEF RInv
  <1> QED BY <1>1, RInvHolds, PTL

\* So it is for a packet that enters after insert_bier_te is through.
THEOREM AtMostOnceOfFilled == Spec /\ Filled /\ Planned => []AtMostOncePerHost
  <1>1. Init /\ Filled /\ Planned => Waiting
    BY DEF Init, Waiting, Fresh
  <1> QED BY <1>1, AtMostOnceHolds, PTL DEF Spec

-----------------------------------------------------------------------------
(* No member is forgotten while no link is down.                           *)

\* The detours of the bits of interest lead to nobody but the bits themselves.
Straight(c) ==
    c.boi => \A k \in c.boi_bs :
                 Hosted(Detours(c.at, k, c.bs_remaining))
                     \subseteq Hosted(Across(c.at, k, c.bs_remaining, Invalid))

Remembered ==
    \A s \in Members : got[s] > 0 \/ \E c \in BagToSet(copies) : s \in Cover(c)

NInv ==
    /\ RInv /\ Exact
    /\ down = {} => Remembered /\ \A c \in BagToSet(copies) : Straight(c)

\* The packets a copy becomes lead to all it led to, but for hosts that are served.
Passes(c, new) ==
    /\ \A d \in new : Straight(d)
    /\ \A s \in Cover(c) : got'[s] > 0 \/ \E d \in new : s \in Cover(d)

LEMMA PassingKeeps ==
    ASSUME NInv, RInv', NEW c \in BagToSet(copies), NEW new, Replace(c, new), Passes(c, new),
           UNCHANGED <<group, down>>, down = {},
           \A s \in Switches : got[s] > 0 => got'[s] > 0
    PROVE  NInv'
  <1>1. Bag(copies) /\ Bag(copies')
    BY DEF NInv, RInv
  <1>2. /\ c \in DOMAIN copies
        /\ BagToSet(copies) = DOMAIN copies /\ BagToSet(copies') = DOMAIN copies'
    BY DEF BagToSet
  <1>3. \A e : Count(copies', e) =
            (Count(copies, e) - (IF e = c THEN 1 ELSE 0)) + (IF e \in new THEN 1 ELSE 0)
    BY <1>1, <1>2, ReplaceCounts
  <1>4. \A e \in DOMAIN copies : copies[e] \in Nat \ {0} /\ Count(copies, e) = copies[e]
    BY <1>1 DEF Bag, Count
  <1>5. \A e : e \in DOMAIN copies' <=> Count(copies', e) # 0
    BY <1>1 DEF Bag, Count
  <1>6. \A e : e \notin DOMAIN copies => Count(copies, e) = 0
    BY DEF Count
  <1>7. /\ \A e \in new : e \in DOMAIN copies'
        /\ \A e \in DOMAIN copies : e # c => e \in DOMAIN copies'
        /\ \A e \in DOMAIN copies' : e \in DOMAIN copies \/ e \in new
    BY <1>2, <1>3, <1>4, <1>5, <1>6
  <1>8. \A e : Cover(e)' = Cover(e) /\ Straight(e)' = Straight(e)
    BY RigidWays DEF Straight
  <1>9. Members' = Members /\ Members \subseteq Switches
    BY RigidWays DEF Members
  <1>10. Remembered /\ \A e \in BagToSet(copies) : Straight(e)
    BY DEF NInv
  <1>11. Remembered'
    <2>1. ASSUME NEW s \in Members
          PROVE  got'[s] > 0 \/ \E e \in DOMAIN copies' : s \in Cover(e)
      <3>1. CASE got[s] > 0
        BY <1>9, <3>1
      <3>2. ASSUME NEW e \in DOMAIN copies, s \in Cover(e)
            PROVE  got'[s] > 0 \/ \E d \in DOMAIN copies' : s \in Cover(d)
        BY <1>7, <3>2 DEF Passes
      <3> QED BY <1>2, <1>10, <3>1, <3>2 DEF Remembered
    <2> QED BY <1>2, <1>8, <1>9, <2>1 DEF Remembered
  <1>12. \A e \in BagToSet(copies') : Straight(e)'
    BY <1>2, <1>7, <1>8, <1>10 DEF Passes
  <1> QED BY <1>11, <1>12 DEF NInv

\* While no link is down the bits of a packet lead to all it leads to.
LEMMA PreparedSure ==
    ASSUME NInv, down = {}, NEW c \in BagToSet(copies), BierAtIngress(c)
    PROVE  LET d == Prepared(c)
           IN  /\ d.at = c.at /\ d.boi /\ ~d.decap /\ d.bier[1] = Invalid
               /\ c.bier[1] = Invalid /\ ~Affected(d)
               /\ Straight(d)
               /\ Cover(c) \subseteq Rest(d.at, d.boi_bs, d.bs_remaining, Invalid)
               /\ Ready(d, Cover(c)) /\ Serving(d, Cover(c))
  <1> DEFINE d == Prepared(c)
             s == c.at
  <1>1. Known /\ Filled /\ Sane(c) /\ Orderly(c) /\ Exact /\ Straight(c)
    BY DEF NInv, RInv, IInv
  <1>2. IngressOk(c) /\ c.bier[1] = Invalid
    BY <1>1 DEF Orderly, BierAtIngress, Sane, Watched
  <1>3. ~c.decap
    BY <1>2 DEF IngressOk
  <1>4. /\ s \in Switches /\ c.boi \in BOOLEAN /\ c.bier \in Headers /\ c.bier[0] # Invalid
        /\ TypeOK /\ Fits(c)
    BY <1>1 DEF Sane, Known, Fits, Packet, Headers, BierAtIngress
  <1>5. On(s, "bift_entries")
    BY <1>1, <1>4, FilledOn
  <1>6. Ready(d, Cover(c))
    BY <1>1, <1>2, PreparedReady
  <1>7. /\ d.at = s /\ d.decap = c.decap /\ d.bier[1] = Invalid
        /\ IF c.boi
           THEN d.boi_bs = c.boi_bs /\ d.bs_remaining = c.bs_remaining
           ELSE /\ d.boi_bs = c.bier[0] \cap Boi[s]
                /\ d.bs_remaining = c.bier[0] \ Boi[s]
    BY <1>2, <1>4, <1>5, PreparedFits, SoughtFits
  <1>8. ~Affected(d)
    BY <1>1, AffectedSingle
  <1> HIDE DEF d
  <1>9. d.boi /\ ~d.decap /\ Serving(d, Cover(c))
    BY <1>3, <1>6, <1>7 DEF Ready, Ending
  <1>10. Cover(c) = Kept(c)
    BY <1>3 DEF Cover, Ahead, BierAtIngress
  <1>11. Straight(d) /\ Cover(c) \subseteq Rest(d.at, d.boi_bs, d.bs_remaining, Invalid)
    <2>1. CASE c.boi
      BY <1>1, <1>2, <1>7, <1>10, <2>1 DEF Straight, Kept
    <2>2. CASE ~c.boi
      <3>1. Reparsed(c.bier) = c.bier
        BY <1>4 DEF Reparsed
      <3>2. <<s, c.bier[0], Invalid>> \in Ways /\ Cover(c) = Leads(<<s, c.bier[0], Invalid>>)
        BY <1>2, <1>3, <1>10, <2>2, <3>1 DEF IngressOk, Charted, Kept
      <3>3. Direct(s, c.bier[0])
        BY <1>1, <3>2 DEF Exact
      <3> QED BY <1>7, <2>2, <3>2, <3>3 DEF Direct, Straight
    <2> QED BY <1>4, <2>1, <2>2
  <1> QED BY <1>2, <1>6, <1>7, <1>8, <1>9, <1>11 DEF d

\* What the bit k leads to, and what the others do.
LEMMA SureBit ==
    ASSUME NEW d, Straight(d), d.boi, NEW k \in d.boi_bs,
           NEW hosts, hosts \subseteq Rest(d.at, d.boi_bs, d.bs_remaining, Invalid)
    PROVE  \A s \in hosts :
               \/ k = DecapBit(d.at) /\ s = d.at
               \/ s \in Hosted(Across(d.at, k, d.bs_remaining, Invalid))
               \/ s \in Rest(d.at, d.boi_bs \ {k}, d.bs_remaining, Invalid)
  <1> DEFINE B(j) == Branch(d.at, j, d.bs_remaining, Invalid)
             A == Across(d.at, k, d.bs_remaining, Invalid)
             D == Detours(d.at, k, d.bs_remaining)
  <1>1. \A S : Rest(d.at, S, d.bs_remaining, Invalid) = UNION {B(j) : j \in S}
    BY DEF Rest
  <1>2. Hosted(D) \subseteq Hosted(A)
    BY DEF Straight
  <1>3. Hosted(A \cup D) = Hosted(A) \cup Hosted(D)
    BY DEF Hosted
  <1>4. B(k) = (IF k = DecapBit(d.at) THEN {d.at} ELSE {}) \cup Hosted(A \cup D)
    BY DEF Branch, Onward
  <1> HIDE DEF B, A, D
  <1>5. ASSUME NEW s \in hosts
        PROVE  s \in B(k) \/ s \in UNION {B(j) : j \in d.boi_bs \ {k}}
    BY <1>1
  <1> QED BY <1>1, <1>2, <1>3, <1>4, <1>5 DEF A

LEMMA FramePasses ==
    ASSUME NEW c, NEW g, ToEgress(c, g), NEW f, f = [g EXCEPT !.stage = "egress"],
           f.stage = "egress", f.inst = "normal", Straight(f),
           Cover(c) \subseteq Sent(f) \cup Back(f)
    PROVE  \E new : Replace(c, new) /\ Passes(c, new) /\ got' = got
  <1>1. Replace(c, {f}) /\ got' = got
    BY DEF ToEgress
  <1>2. Cover(f) = Sent(f) \cup Back(f)
    BY DEF Cover
  <1> QED BY <1>1, <1>2 DEF Passes

LEMMA AddBierHeaderPasses ==
    ASSUME NInv, NEW c \in BagToSet(copies), AddBierHeader(c)
    PROVE  \E new : Replace(c, new) /\ Passes(c, new) /\ got' = got
  <1> DEFINE g == [c EXCEPT !.bier = Stack(Groups[group], Invalid), !.eth = "BIER",
                            !.recirc = TRUE]
             f == [g EXCEPT !.stage = "egress"]
  <1>1. /\ c = Parsed(Source[group], "IPv4", Stack(Invalid, Invalid))
        /\ c.stage = "ingress" /\ c.eth = "IPv4" /\ ToEgress(c, g)
    BY DEF AddBierHeader, Orderly, NInv, RInv
  <1>2. Groups[group] # Invalid
    BY TablesAssumption, NotValid DEF NInv, RInv, IInv, Known, TypeOK
  <1>3. /\ c.at = Source[group] /\ c.inst = "normal" /\ c.boi = FALSE /\ c.decap = FALSE
        /\ c \in Packet
    BY <1>1 DEF Parsed, NInv, RInv, IInv, Sane, Fits
  <1>4. /\ f.at = c.at /\ f.stage = "egress" /\ f.inst = c.inst /\ f.boi = c.boi
        /\ f.decap = c.decap /\ f.recirc = TRUE
        /\ f.bier[0] = Groups[group] /\ f.bier[1] = Invalid
    BY <1>3 DEF Packet, Stack
  <1> HIDE DEF f
  <1>5. <<f.at, Reparsed(f.bier)[0], Reparsed(f.bier)[1]>> = Entrance
    BY <1>2, <1>3, <1>4 DEF Reparsed, Entrance
  <1>6. Back(f) = Leads(Entrance)
    BY <1>3, <1>4, <1>5 DEF Back, Kept
  <1>7. Cover(c) = Leads(Entrance)
    BY <1>1 DEF Cover, Ahead
  <1>8. Straight(f)
    BY <1>3, <1>4 DEF Straight
  <1>9. f = [g EXCEPT !.stage = "egress"]
    BY DEF f
  <1>10. f.inst = "normal" /\ Cover(c) \subseteq Sent(f) \cup Back(f)
    BY <1>3, <1>4, <1>6, <1>7
  <1> HIDE DEF g
  <1> QED BY <1>1, <1>4, <1>8, <1>9, <1>10, FramePasses

LEMMA DropEmptyPasses ==
    ASSUME NInv, down = {}, NEW c \in BagToSet(copies), DropEmpty(c)
    PROVE  \E new : Replace(c, new) /\ Passes(c, new) /\ got' = got
  <1>1. Replace(c, {}) /\ got' = got /\ BierAtIngress(c) /\ Prepared(c).boi_bs = {}
    BY DEF DropEmpty
  <1>2. \A s, rest : Rest(s, {}, rest, Invalid) = {}
    BY DEF Rest
  <1>3. Cover(c) = {}
    BY <1>1, <1>2, PreparedSure
  <1> QED BY <1>1, <1>3 DEF Passes

LEMMA HandoverPasses ==
    ASSUME NInv, down = {}, NEW c \in BagToSet(copies), Handover(c)
    PROVE  \E new : Replace(c, new) /\ Passes(c, new) /\ got' = got
  <1> DEFINE d == Prepared(c)
             k == LowBit(d.boi_bs)
             g == [Decapsulated(d) EXCEPT !.port = HostPort]
             f == [g EXCEPT !.stage = "egress"]
  <1>1. /\ BierAtIngress(c) /\ Unaffected(d) /\ k = DecapBit(c.at) /\ ToEgress(c, g)
    BY DEF Handover, HandedOver, LocalDecap
  <1>2. /\ d.at = c.at /\ d.boi /\ d.bier[1] = Invalid /\ Straight(d)
        /\ Cover(c) \subseteq Rest(d.at, d.boi_bs, d.bs_remaining, Invalid)
        /\ Ready(d, Cover(c))
    BY <1>1, PreparedSure
  <1>3. /\ d \in Packet /\ d.inst = "normal" /\ ~d.recirc /\ d.at \in Switches
        /\ d.boi_bs \subseteq AllBits /\ d.boi_bs # {}
    BY <1>1, <1>2, BitNumbers DEF Ready, Unaffected, Found
  <1>4. k \in d.boi_bs
    BY <1>3, LowBitIn
  <1>5. /\ f.at = d.at /\ f.stage = "egress" /\ f.inst = d.inst /\ f.port = HostPort
        /\ f.boi = d.boi /\ f.needs_cloning = TRUE
        /\ f.recirc = d.recirc /\ f.bier = d.bier
        /\ f.boi_bs = d.boi_bs \ {k} /\ f.bs_remaining = d.bs_remaining
    <2> HIDE DEF d
    <2> QED BY <1>3 DEF Packet, Decapsulated
  <1>6. \A s \in Cover(c) :
            \/ k = DecapBit(d.at) /\ s = d.at
            \/ s \in Hosted(Across(d.at, k, d.bs_remaining, Invalid))
            \/ s \in Rest(d.at, d.boi_bs \ {k}, d.bs_remaining, Invalid)
    BY <1>2, <1>4, SureBit
  <1>7. Hosted(Across(d.at, k, d.bs_remaining, Invalid)) = {}
    BY <1>1, <1>2 DEF Across, Hosted
  <1> HIDE DEF d, k, f
  <1>8. Sent(f) = {d.at} /\ Back(f) = Rest(d.at, d.boi_bs \ {k}, d.bs_remaining, Invalid)
    BY <1>2, <1>3, <1>5 DEF Sent, Back, Flagged, Kept
  <1>9. Straight(f)
    BY <1>2, <1>5 DEF Straight
  <1> QED BY <1>1, <1>3, <1>5, <1>6, <1>7, <1>8, <1>9, FramePasses DEF f, d, k

LEMMA ForwardConnectedPasses ==
    ASSUME NInv, down = {}, NEW c \in BagToSet(copies), ForwardConnected(c)
    PROVE  \E new : Replace(c, new) /\ Passes(c, new) /\ got' = got
  <1> DEFINE d == Prepared(c)
             k == LowBit(d.boi_bs)
             q == Bift[c.at][k]
             g == [d EXCEPT !.boi_bs = @ \ {k}, !.needs_cloning = TRUE, !.port = q]
             f == [g EXCEPT !.stage = "egress"]
  <1>1. /\ BierAtIngress(c) /\ Unaffected(d) /\ k # DecapBit(c.at) /\ ToEgress(c, g)
    BY DEF ForwardConnected
  <1>2. /\ d.at = c.at /\ d.boi /\ ~d.decap /\ d.bier[1] = Invalid /\ Straight(d)
        /\ Cover(c) \subseteq Rest(d.at, d.boi_bs, d.bs_remaining, Invalid)
        /\ Ready(d, Cover(c))
    BY <1>1, PreparedSure
  <1>3. /\ d \in Packet /\ d.inst = "normal" /\ ~d.recirc /\ d.at \in Switches
        /\ d.boi_bs \subseteq Boi[d.at] /\ d.boi_bs \subseteq AllBits /\ d.boi_bs # {}
    BY <1>1, <1>2, BitNumbers DEF Ready, Unaffected, Found
  <1>4. d.bier[0] = d.bs_remaining
    BY <1>2 DEF Ready
  <1>5. k \in d.boi_bs /\ k \in Boi[d.at]
    BY <1>3, LowBitIn
  <1>6. q \in Port /\ q # HostPort
    BY <1>1, <1>2, <1>3, <1>5, BiftPort, BiftNotHost
  <1>7. /\ f.at = d.at /\ f.stage = "egress" /\ f.inst = d.inst /\ f.port = q
        /\ f.boi = d.boi /\ f.needs_cloning = TRUE /\ f.decap = d.decap
        /\ f.recirc = d.recirc /\ f.bier = d.bier
        /\ f.boi_bs = d.boi_bs \ {k} /\ f.bs_remaining = d.bs_remaining
    <2> HIDE DEF d, q
    <2> QED BY <1>3, <1>6 DEF Packet
  <1>8. \A s \in Cover(c) :
            \/ k = DecapBit(d.at) /\ s = d.at
            \/ s \in Hosted(Across(d.at, k, d.bs_remaining, Invalid))
            \/ s \in Rest(d.at, d.boi_bs \ {k}, d.bs_remaining, Invalid)
    BY <1>2, <1>5, SureBit
  <1>9. Across(d.at, k, d.bs_remaining, Invalid) =
            {<<t, d.bs_remaining, Invalid>> : t \in Peer[d.at][q]}
    BY <1>1, <1>2 DEF Across
  <1> HIDE DEF d, k, q, f
  <1>10. Frame(f) = Across(d.at, k, d.bs_remaining, Invalid)
    BY <1>2, <1>4, <1>7, <1>9 DEF Frame
  <1>11. Sent(f) = Hosted(Frame(f))
    BY <1>3, <1>6, <1>7 DEF Sent
  <1>12. Back(f) = Rest(d.at, d.boi_bs \ {k}, d.bs_remaining, Invalid)
    BY <1>2, <1>7 DEF Back, Flagged, Kept
  <1>13. Straight(f)
    BY <1>2, <1>7 DEF Straight
  <1>14. Cover(c) \subseteq Sent(f) \cup Back(f)
    BY <1>1, <1>2, <1>8, <1>10, <1>11, <1>12 DEF k
  <1>15. f = [g EXCEPT !.stage = "egress"] /\ f.inst = "normal"
    BY <1>3, <1>7 DEF f, d, k, q
  <1> HIDE DEF g
  <1> QED BY <1>1, <1>7, <1>13, <1>14, <1>15, FramePasses

LEMMA IngressPasses ==
    ASSUME NInv, down = {}, NEW c \in BagToSet(copies), Ingress(c)
    PROVE  \E new : Replace(c, new) /\ Passes(c, new) /\ got' = got
  <1>1. RInv /\ Sane(c) /\ Orderly(c)
    BY DEF NInv, RInv, IInv
  <1>2. ~NoPortChosen(c) /\ ~HandoverToNone(c) /\ ~HandoverMissing(c)
    BY <1>1, NothingMissing
  <1>3. BierAtIngress(c) => c.bier[1] = Invalid /\ ~Affected(Prepared(c))
    BY PreparedSure
  <1>4. ~BtaftRecursion(c) /\ ~BtaftApply(c) /\ ~BtaftMissing(c) /\ ~DecapEncapsulated(c)
    BY <1>3 DEF BtaftRecursion, BtaftApply, BtaftMissing, DecapEncapsulated, LocalDecap
  <1> QED BY <1>2, <1>4, AddBierHeaderPasses, DropEmptyPasses, HandoverPasses,
             ForwardConnectedPasses DEF Ingress

LEMMA ReturnPasses ==
    ASSUME NInv, down = {}, NEW c \in BagToSet(copies), Egress(c),
           c.inst = "clone" \/ c.recirc
    PROVE  \E new : Replace(c, new) /\ Passes(c, new) /\ got' = got
  <1>1. RInv /\ Sane(c) /\ Orderly(c) /\ Straight(c)
    BY DEF NInv, RInv, IInv
  <1>2. PICK z : /\ Replace(c, {z}) /\ got' = got
                 /\ Orderly(z) /\ Cover(z) = Cover(c) /\ z.at = c.at /\ z.boi = c.boi
                 /\ z.boi_bs = c.boi_bs /\ z.bs_remaining = c.bs_remaining
    BY <1>1, CloneReturns, FrameReturns
  <1>3. Straight(z)
    BY <1>1, <1>2 DEF Straight
  <1> QED BY <1>2, <1>3 DEF Passes

\* A frame that leaves gets to the hosts behind its port, and the clone keeps the rest.
LEMMA LeavePasses ==
    ASSUME NInv, down = {}, NEW c \in BagToSet(copies), Egress(c),
           c.inst # "clone", ~c.recirc
    PROVE  \E new : /\ Replace(c, new) /\ Passes(c, new)
                    /\ \A s \in Switches : got[s] > 0 => got'[s] > 0
  <1> DEFINE r == EgressResult(c)
             new == CloneOf(c) \cup Recirculated(r) \cup Transmitted(r)
             x == [r EXCEPT !.inst = "clone", !.port = HostPort]
  <1>1. /\ RInv /\ Sane(c) /\ Orderly(c) /\ Straight(c) /\ TypeOK
        /\ c.stage = "egress" /\ FrameOk(c) /\ Filled
    BY DEF NInv, RInv, IInv, Known, Egress, Orderly
  <1>2. c \in Packet /\ c.at \in Switches /\ c.port \in Port /\ c.bier[1] = Invalid
    BY <1>1 DEF Sane, Fits, Packet, Watched
  <1>3. /\ Replace(c, new)
        /\ got' = IF ~r.recirc /\ r.port = HostPort
                  THEN [got EXCEPT ![c.at] = IF @ = 2 THEN 2 ELSE @ + 1] ELSE got
    BY DEF Egress
  <1>4. /\ r \in Packet /\ r.at = c.at /\ r.port = c.port /\ ~r.recirc
        /\ r.boi_bs = c.boi_bs /\ r.bs_remaining = c.bs_remaining
        /\ r.boi <=> c.boi
    BY <1>1, <1>2, FrameResult
  <1>5. Cover(c) = Sent(c) \cup Back(c)
    BY <1>1 DEF Cover
  <1>6. /\ x.at = c.at /\ x.boi_bs = c.boi_bs /\ x.bs_remaining = c.bs_remaining
        /\ x.boi <=> c.boi
    <2> HIDE DEF r
    <2> QED BY <1>4 DEF Packet
  <1>7. CloneOf(c) \subseteq {x} /\ CloneOf(c) \subseteq new /\ Transmitted(r) \subseteq new
        /\ Recirculated(r) = {}
    BY <1>4 DEF CloneOf, Recirculated
  <1>8. \A d \in CloneOf(c) : Cover(d) = Back(c)
    BY <1>1, CloneOrderly
  <1>9. \A e \in Transmitted(r) : Cover(e) = Sent(c) /\ ~e.boi
    BY <1>1, FrameArrives
  <1>10. CloneOf(c) = {} => Back(c) = {}
    <2>1. On(c.at, "do_cloning_table") /\ On(c.at, "mirroring")
      BY <1>1, <1>2, FilledOn
    <2>2. CloneOf(c) = {} => ~Flagged(c)
      BY <2>1 DEF CloneOf, Clones, Flagged
    <2> QED BY <2>2 DEF Back
  <1>11. c.port # HostPort /\ Sent(c) # {} => Transmitted(r) # {}
    <2>1. ASSUME c.port # HostPort, Sent(c) # {}
          PROVE  Peer[c.at][c.port] # {}
      <3>1. Hosted(Frame(c)) # {}
        BY <2>1 DEF Sent
      <3>2. Frame(c) # {}
        BY <3>1 DEF Hosted
      <3> QED BY <3>2 DEF Frame
    <2> HIDE DEF r
    <2> QED BY <1>4, <2>1 DEF Transmitted
  <1> HIDE DEF r, new, x
  <1>12. \A d \in new : Straight(d)
    <2>1. ASSUME NEW d \in CloneOf(c)
          PROVE  Straight(d)
      BY <1>1, <1>6, <1>7, <2>1 DEF Straight
    <2>2. ASSUME NEW d \in Transmitted(r)
          PROVE  Straight(d)
      BY <1>9, <2>2 DEF Straight
    <2>3. \A d \in new : d \in CloneOf(c) \/ d \in Transmitted(r)
      BY <1>7 DEF new
    <2> QED BY <2>1, <2>2, <2>3
  <1>13. \A s \in Back(c) : \E d \in new : s \in Cover(d)
    BY <1>7, <1>8, <1>10
  <1>14. CASE c.port = HostPort
    <2>1. got' = [got EXCEPT ![c.at] = IF @ = 2 THEN 2 ELSE @ + 1]
      BY <1>3, <1>4, <1>14
    <2>2. got \in [Switches -> 0 .. 2]
      BY <1>1 DEF TypeOK
    <2>3. got'[c.at] > 0 /\ \A s \in Switches : got[s] > 0 => got'[s] > 0
      BY <1>2, <2>1, <2>2
    <2>4. Sent(c) = {c.at}
      BY <1>14 DEF Sent
    <2> QED BY <1>3, <1>5, <1>12, <1>13, <2>3, <2>4 DEF Passes
  <1>15. CASE c.port # HostPort
    <2>1. got' = got
      BY <1>3, <1>4, <1>15
    <2>2. \A s \in Sent(c) : \E d \in new : s \in Cover(d)
      BY <1>7, <1>9, <1>11, <1>15
    <2> QED BY <1>3, <1>5, <1>12, <1>13, <2>1, <2>2 DEF Passes
  <1> QED BY <1>14, <1>15

LEMMA NInvBegins ==
    ASSUME IInv, Waiting, Exact, Members \subseteq Leads(Entrance)
    PROVE  NInv
  <1> DEFINE p == Parsed(Source[group], "IPv4", Stack(Invalid, Invalid))
  <1>1. copies = [e \in {p} |-> 1]
    BY DEF Waiting, Fresh, SetToBag
  <1>2. p.stage = "ingress" /\ p.eth = "IPv4" /\ ~p.boi
    BY DEF Parsed
  <1> HIDE DEF p
  <1>3. BagToSet(copies) = {p}
    BY <1>1 DEF BagToSet
  <1>4. Cover(p) = Leads(Entrance) /\ Straight(p)
    BY <1>2 DEF Cover, Ahead, Straight
  <1>5. Remembered /\ \A c \in BagToSet(copies) : Straight(c)
    BY <1>3, <1>4 DEF Remembered
  <1> QED BY <1>5, RInvBegins DEF NInv

LEMMA NInvStep ==
    ASSUME NInv, [Next]_vars, IInv'
    PROVE  NInv'
  <1>1. RInv' /\ Exact'
    BY RInvStep DEF NInv, Exact, Direct
  <1>2. ASSUME down = {}, NEW c \in BagToSet(copies), Handle(c)
        PROVE  NInv'
    <2>1. UNCHANGED <<group, down>>
      BY <1>2 DEF Handle, Ingress, Egress, ToEgress, AddBierHeader, NoPortChosen, DropEmpty,
                  BtaftRecursion, BtaftApply, BtaftMissing, Handover, HandoverToNone,
                  HandoverMissing, DecapEncapsulated, ForwardConnected
    <2>2. \E new : /\ Replace(c, new) /\ Passes(c, new)
                   /\ \A s \in Switches : got[s] > 0 => got'[s] > 0
      <3>1. CASE Ingress(c)
        BY <1>2, <3>1, IngressPasses
      <3>2. CASE Egress(c) /\ (c.inst = "clone" \/ c.recirc)
        BY <1>2, <3>2, ReturnPasses
      <3>3. CASE Egress(c) /\ c.inst # "clone" /\ ~c.recirc
        BY <1>2, <3>3, LeavePasses
      <3> QED BY <1>2, <3>1, <3>2, <3>3 DEF Handle
    <2> QED BY <1>1, <1>2, <2>1, <2>2, PassingKeeps
  <1>3. ASSUME UNCHANGED <<group, copies, got, down>>
        PROVE  NInv'
    <2>1. \A c : Cover(c)' = Cover(c) /\ Straight(c)' = Straight(c)
      BY <1>3, RigidWays DEF Straight
    <2>2. Members' = Members
      BY <1>3, RigidWays
    <2>3. Remembered' = Remembered
      BY <1>3, <2>1, <2>2 DEF Remembered
    <2>4. (\A c \in BagToSet(copies) : Straight(c))' = (\A c \in BagToSet(copies) : Straight(c))
      BY <1>3, <2>1
    <2> QED BY <1>1, <1>3, <2>3, <2>4 DEF NInv
  <1>4. ASSUME down # {}, down' = down
        PROVE  NInv'
    BY <1>1, <1>4 DEF NInv
  <1>5. ASSUME NEW l \in Fragile, Fail(l)
        PROVE  NInv'
    <2>1. down' # {}
      BY <1>5 DEF Fail
    <2> QED BY <1>1, <2>1 DEF NInv
  <1>6. ASSUME NEW s \in Switches, Install(s)
        PROVE  NInv'
    BY <1>3, <1>6 DEF Install
  <1>7. ASSUME NEW s, NEW l, Indicate(s, l)
        PROVE  NInv'
    BY <1>3, <1>7 DEF Indicate
  <1>8. ASSUME UNCHANGED vars
        PROVE  NInv'
    BY <1>3, <1>8 DEF vars
  <1>9. ASSUME down # {}, NEW c \in BagToSet(copies), Handle(c)
        PROVE  NInv'
    <2>1. down' = down
      BY <1>9 DEF Handle, Ingress, Egress, ToEgress, AddBierHeader, NoPortChosen, DropEmpty,
                  BtaftRecursion, BtaftApply, BtaftMissing, Handover, HandoverToNone,
                  HandoverMissing, DecapEncapsulated, ForwardConnected
    <2> QED BY <1>4, <1>9, <2>1
  <1> QED BY <1>2, <1>5, <1>6, <1>7, <1>8, <1>9 DEF Next

\* The plan promises exactly what the bits keep, and leads to every member.
Promised == Exact /\ Members \subseteq Leads(Entrance)

LEMMA NInvHolds == Spec => [](Waiting /\ Promised => []NInv)
  <1>1. IInv /\ Waiting /\ Promised => NInv
    BY NInvBegins DEF Promised
  <1>2. NInv /\ [Next]_vars => NInv'
    <2>1. NInv => IInv
      BY DEF NInv, RInv
    <2> QED BY <2>1, IInvInductive, NInvStep
  <1>3. [][Next]_vars => [](NInv => []NInv)
    BY <1>2, PTL
  <1> QED BY <1>1, <1>3, IInvHolds, PTL DEF Spec

\* The packet enters before insert_bier_te is through, or without a plan; or with a
\* plan that promises too much or too little.
Unplanned == ~(EntersFilled /\ Planned)
Unpromised == ~(EntersFilled /\ Planned /\ Promised)

LEMMA EntersWaiting == Init /\ EntersFilled /\ Planned => Waiting
  <1>1. Init /\ EntersFilled => Filled
    BY DEF Init, EntersFilled, Filled
  <1> QED BY <1>1 DEF Init, Waiting, Fresh

LEMMA SameGroup == [Next]_vars => group' = group
  BY DEF Next, vars, Handle, Ingress, Egress, ToEgress, AddBierHeader, NoPortChosen, DropEmpty,
         BtaftRecursion, BtaftApply, BtaftMissing, Handover, HandoverToNone, HandoverMissing,
         DecapEncapsulated, ForwardConnected, Fail, Install, Indicate

\* No two copies of a packet that enters after insert_bier_te, along a plan, lead to
\* the same host (bfr_bier_te.p4:11-51, 154-195).
THEOREM KeptApartHolds == Spec => []KeptApart
  <1>1. Init => Waiting \/ Unplanned
    BY EntersWaiting DEF Unplanned
  <1>2. Unplanned /\ [Next]_vars => Unplanned'
    BY SameGroup DEF Unplanned, EntersFilled, Planned, Entrance, Members
  <1>3. Unplanned \/ Apart => KeptApart
    BY DEF Unplanned, KeptApart
  <1>4. [][Next]_vars => [](Unplanned => []Unplanned)
    BY <1>2, PTL
  <1> QED BY <1>1, <1>3, <1>4, ApartHolds, PTL DEF Spec

\* No pass, clone or frame forgets a member while no link is down: the bits of
\* interest and the rest of the BitString together keep every host a copy led to
\* (bfr_bier_te.p4:18-48, 269-279).
THEOREM NoneForgottenHolds == Spec => []NoneForgotten
  <1>1. Init => Unpromised \/ (Waiting /\ Promised)
    BY EntersWaiting DEF Unpromised
  <1>2. Unpromised /\ [Next]_vars => Unpromised'
    BY SameGroup DEF Unpromised, Promised, Exact, Direct, EntersFilled, Planned, Entrance,
                     Members
  <1>3. Unpromised \/ NInv => NoneForgotten
    BY DEF Unpromised, Promised, NInv, Remembered, NoneForgotten
  <1>4. [][Next]_vars => [](Unpromised => []Unpromised)
    BY <1>2, PTL
  <1> QED BY <1>1, <1>3, <1>4, NInvHolds, PTL DEF Spec

\* When the copies are gone, and no link failed, the host of every member has the
\* packet once, and no other host has it: what there is to AllMembersServed besides
\* the end of the packet.
OnceEach ==
    EntersFilled /\ Planned /\ Promised /\ down = {} /\ copies = EmptyBag =>
        \A s \in Switches : got[s] = IF s \in Members THEN 1 ELSE 0

THEOREM OnceEachHolds == Spec => []OnceEach
  <1>1. Init => Unpromised \/ (Waiting /\ Promised)
    BY EntersWaiting DEF Unpromised
  <1>2. Unpromised /\ [Next]_vars => Unpromised'
    BY SameGroup DEF Unpromised, Promised, Exact, Direct, EntersFilled, Planned, Entrance,
                     Members
  <1>3. Unpromised \/ NInv => OnceEach
    <2>1. Unpromised => OnceEach
      BY DEF Unpromised, OnceEach
    <2>2. ASSUME NInv, down = {}, copies = EmptyBag, NEW s \in Switches
          PROVE  got[s] = IF s \in Members THEN 1 ELSE 0
      <3>1. BagToSet(copies) = {}
        BY <2>2 DEF BagToSet, EmptyBag, SetToBag
      <3>2. got[s] \in 0 .. 2
        BY <2>2 DEF NInv, RInv, IInv, Known, TypeOK
      <3>3. s \in Members => got[s] > 0
        BY <2>2, <3>1 DEF NInv, Remembered
      <3>4. got[s] > 0 => got[s] = 1 /\ s \in Members
        BY <2>2 DEF NInv, RInv, AtMostOncePerHost
      <3> QED BY <3>2, <3>3, <3>4
    <2> QED BY <2>1, <2>2 DEF OnceEach
  <1>4. [][Next]_vars => [](Unpromised => []Unpromised)
    BY <1>2, PTL
  <1> QED BY <1>1, <1>3, <1>4, NInvHolds, PTL DEF Spec

=============================================================================
