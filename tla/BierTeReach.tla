----------------------------- MODULE BierTeReach -----------------------------
(***************************************************************************)
(* What the bits of a group say about the ways of its packets, and what is *)
(* left of these ways while a packet is in the network.                    *)
(*                                                                         *)
(* An arrival is a packet fresh from the parser: the switch and the two    *)
(* headers.  Reach gives the hosts an arrival may still get to.  It is a   *)
(* plan if it is closed under what a switch that has all its tables makes  *)
(* of an arrival, and if the adjacencies a switch serves lead to different *)
(* hosts, with and without a detour around a link that may fail.           *)
(***************************************************************************)
EXTENDS BierTeNetwork

CONSTANT Reach        \* arrival |-> set of switches

\* The arrivals the plan knows; another one may lead anywhere.
Ways == DOMAIN Reach
Leads(a) == IF a \in Ways THEN Reach[a] ELSE Switches

\* The entries of btaft that can match for the bit bp in a packet with the bits
\* rest of other switches.
EntriesFor(s, bp, rest) ==
    {i \in DOMAIN Entries[s] :
        Entries[s][i].bp = bp /\ Entries[s][i].match \subseteq rest}

NextHops(s, I) == {Entries[s][i].nnh_bp : i \in I}
Added(s, I) == UNION {Entries[s][i].add_bm : i \in I}
Taken(s, I) == UNION {Entries[s][i].reset_bm : i \in I}

\* The entries btaft may have gathered when none matches any more.
Gathered(s, bp, rest) ==
    {I \in SUBSET EntriesFor(s, bp, rest) :
        EntriesFor(s, bp, rest \ NextHops(s, I)) = {}}

\* The same packet at s in a second header, where s may have to lead it around
\* the adjacency bp.
Detours(s, bp, rest) ==
    IF s \in DOMAIN Entries /\ \E l \in WatchedBy(s) : bp = LinkBp(s, l)
    THEN {<<s, Added(s, I), rest \ Taken(s, I)>> : I \in Gathered(s, bp, rest)}
    ELSE {}

\* The arrivals behind the adjacency k of s.
Across(s, k, outer, inner) ==
    IF k = DecapBit(s) THEN {} ELSE {<<t, outer, inner>> : t \in Peer[s][Bift[s][k]]}

\* The arrivals that may come of the bit k of s in a packet with the bits rest of
\* other switches.
Onward(s, k, rest, inner) ==
    Across(s, k, rest, inner)
        \cup (IF inner = Invalid THEN Detours(s, k, rest) ELSE {})

Hosted(arrivals) == UNION {Leads(a) : a \in arrivals}

Branch(s, k, rest, inner) ==
    (IF k = DecapBit(s) THEN {s} ELSE {}) \cup Hosted(Onward(s, k, rest, inner))

Rest(s, bits, rest, inner) == UNION {Branch(s, k, rest, inner) : k \in bits}

\* The bits of s that are still to be served lead to different hosts.
Tidy(s, bits, rest, inner) ==
    /\ \A k \in bits : Onward(s, k, rest, inner) \subseteq Ways
    /\ \A j, k \in bits :
           j # k => Branch(s, j, rest, inner) \cap Branch(s, k, rest, inner) = {}

\* The outer header ends at s: the inner packet stays here, and it goes where the
\* next bit of s in the outer header leads.
Inner(s, inner) == <<s, inner, Invalid>>

Beyond(s, bits, inner) ==
    IF bits = {} THEN {} ELSE Across(s, LowBit(bits), inner, Invalid)

TidyEnd(s, bits, inner) ==
    /\ {Inner(s, inner)} \cup Beyond(s, bits, inner) \subseteq Ways
    /\ Leads(Inner(s, inner)) \cap Hosted(Beyond(s, bits, inner)) = {}

EndsTunnel(s, outer, inner) == inner # Invalid /\ DecapBit(s) \in outer

Closed(s, outer, inner) ==
    LET bits == outer \cap Boi[s]
        rest == outer \ Boi[s]
        more == bits \ {DecapBit(s)}
    IN  IF EndsTunnel(s, outer, inner)
        THEN /\ TidyEnd(s, more, inner)
             /\ Hosted({Inner(s, inner)} \cup Beyond(s, more, inner))
                    \subseteq Leads(<<s, outer, inner>>)
        ELSE /\ Tidy(s, bits, rest, inner)
             /\ Rest(s, bits, rest, inner) \subseteq Leads(<<s, outer, inner>>)

\* The empty function is a plan: it says nothing of any group.
ASSUME PlanAssumption == \A a \in Ways : Closed(a[1], a[2], a[3])

Entrance == <<Source[group], Groups[group], Invalid>>

\* The packets of the group are led along the plan, and to its members.
Planned == Entrance \in Ways /\ Leads(Entrance) \subseteq Members

-----------------------------------------------------------------------------
(* What a copy can still get to, once all tables are filled.               *)

\* The copy at the ingress, when it is or comes back there.
Kept(c) ==
    IF c.boi
    THEN Rest(c.at, c.boi_bs, c.bs_remaining, c.bier[1])
    ELSE Leads(<<c.at, Reparsed(c.bier)[0], Reparsed(c.bier)[1]>>)

Ahead(c) ==
    IF c.eth = "IPv4" THEN Leads(Entrance)
    ELSE IF ~c.decap THEN Kept(c)
    ELSE IF c.boi_bs = {} THEN {}
    ELSE Hosted({Inner(c.at, c.bier[1])} \cup Beyond(c.at, c.boi_bs, c.bier[1]))

\* The arrivals of the frame a copy at the egress becomes.
Frame(c) ==
    IF c.decap /\ c.bier[1] # Invalid
    THEN {<<t, c.bier[1], Invalid>> : t \in Peer[c.at][c.port]}
    ELSE {<<t, c.bier[0], c.bier[1]>> : t \in Peer[c.at][c.port]}

Sent(c) ==
    IF c.recirc THEN {}
    ELSE IF c.port = HostPort THEN {c.at}
    ELSE Hosted(Frame(c))

Flagged(c) ==
    c.needs_cloning \/ c.decap \/ c.frr.needs_recursion \/ c.frr.needs_cloning

\* What the copy or its clone brings back to the ingress.
Back(c) ==
    IF ~c.recirc /\ ~Flagged(c) THEN {}
    ELSE IF c.decap /\ c.bier[1] # Invalid THEN Leads(Inner(c.at, c.bier[1]))
    ELSE Kept(c)

Cover(c) ==
    IF c.stage = "ingress" THEN Ahead(c)
    ELSE IF c.inst = "clone" THEN Kept(c)
    ELSE Sent(c) \cup Back(c)

\* A copy leads only to members whose hosts do not have the packet yet, and no
\* two copies lead to the same host.
Apart ==
    LET cover == [c \in BagToSet(copies) |-> Cover(c)]
    IN  \A c \in BagToSet(copies) :
            /\ cover[c] \subseteq Members
            /\ \A s \in cover[c] : got[s] = 0
            /\ copies[c] > 1 => cover[c] = {}
            /\ \A d \in BagToSet(copies) \ {c} : cover[c] \cap cover[d] = {}

\* The tables are filled before the packet enters.
EntersFilled == \A s \in Switches : s <= FilledBefore[group]

\* No two copies of a packet that enters so lead to the same host.
KeptApart == EntersFilled /\ Planned => Apart

\* A packet in one header leads to hosts over the adjacencies of the switch only,
\* and a detour to no more of them than the adjacency it is about.
Direct(s, outer) ==
    LET bits == outer \cap Boi[s]
        rest == outer \ Boi[s]
    IN  /\ Leads(<<s, outer, Invalid>>) \subseteq Rest(s, bits, rest, Invalid)
        /\ \A k \in bits :
               Hosted(Detours(s, k, rest)) \subseteq Hosted(Across(s, k, rest, Invalid))

\* The plan promises no more than the bits keep.
Exact == \A a \in Ways : a[3] = Invalid => Direct(a[1], a[2])

\* As long as no link is down every member has the packet, or a copy leads to it.
NoneForgotten ==
    EntersFilled /\ Planned /\ Exact /\ Members \subseteq Leads(Entrance) /\ down = {} =>
        \A s \in Members : got[s] > 0 \/ \E c \in BagToSet(copies) : s \in Cover(c)
=============================================================================
