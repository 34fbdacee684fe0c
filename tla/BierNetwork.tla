---------------------------- MODULE BierNetwork ----------------------------
(***************************************************************************)
(* A domain of BIER routers joined by links: one multicast packet enters   *)
(* at some router and is replicated on its way to the hosts.  A router     *)
(* does to each copy that is with it what BierForwarding promises, which   *)
(* BierRouter implements; a copy sent to a port is with the router behind  *)
(* that port.  The egress queues of simple_switch are bounded and drop at  *)
(* their end, so a copy may be lost.                                       *)
(*                                                                         *)
(* Copies that exist at one time carry disjoint BitStrings (Disjoint       *)
(* below), so a set of them loses no copy to equality.                     *)
(***************************************************************************)
EXTENDS Topology

CONSTANTS
    Networks,   \* the networks to look at: records [size, links, hosts, bift]
    MaxLosses   \* bound on the copies that are lost

Switches(n) == 1 .. n.size

\* A group's BitString is typed in by hand and may have a bit of no switch.
Bits(n) == 1 .. n.size + 1

ASSUME NetworksAssumption ==
    \A n \in Networks :
        /\ n.size \in Nat /\ n.hosts \in Nat
        /\ n.links \in Seq(Switches(n) \X Switches(n))

ASSUME LossesAssumption == MaxLosses \in Nat

VARIABLES
    net,        \* the network of this behaviour
    want,       \* the BitString the packet gets when it enters
    copies,     \* the copies in the domain: records [at, todo]
    got,        \* got[s]: copies handed to the host of switch s, up to 2
    carried,    \* carried[<<s, t>>]: copies sent from s to t, up to 2
    lost        \* BitStrings of the copies that were lost or given up

vars == <<net, want, copies, got, carried, lost>>

Copy == [at : Switches(net), todo : SUBSET Bits(net)]

TypeOK ==
    /\ net \in Networks
    /\ want \subseteq Bits(net)
    /\ copies \subseteq Copy
    /\ got \in [Switches(net) -> 0 .. 2]
    /\ carried \in [Switches(net) \X Switches(net) -> 0 .. 2]
    /\ lost \in Seq(SUBSET Bits(net))

Init ==
    /\ net \in Networks
    /\ want \in (SUBSET Bits(net)) \ {{}}
    /\ \E s \in Switches(net) : copies = {[at |-> s, todo |-> want]}
    /\ got = [s \in Switches(net) |-> 0]
    /\ carried = [e \in Switches(net) \X Switches(net) |-> 0]
    /\ lost = << >>

Count(k) == IF k = 2 THEN 2 ELSE k + 1

\* Mutation: nothing remains after a copy was sent.
LeftNothing(c, bits) == {}

\* Mutation: the bits that were served stay set.
LeftAll(c, bits) == IF c.todo \subseteq bits THEN {} ELSE {c}

\* What is left of copy c when the bits are served; nothing when none is left.
Left(c, bits) ==
    IF c.todo \subseteq bits THEN {} ELSE {[c EXCEPT !.todo = @ \ bits]}

Deliver(c) ==
    /\ c.at \in c.todo
    /\ got' = [got EXCEPT ![c.at] = Count(@)]
    /\ copies' = (copies \ {c}) \cup Left(c, {c.at})
    /\ UNCHANGED <<net, want, carried, lost>>

\* Mutation: the copy for the neighbour is not masked.
ForwardUnmasked(c, k) ==
    LET bift == net.bift[c.at]
        there == Peers(net.links, net.hosts, c.at, bift[k].nbr_port)
    IN  /\ k \in (c.todo \cap DOMAIN bift) \ {c.at}
        /\ copies' = (copies \ {c}) \cup Left(c, bift[k].f_bm)
                                    \cup [at : there, todo : {c.todo}]
        /\ UNCHANGED <<net, want, got, carried, lost>>

Forward(c, k) ==
    LET bift == net.bift[c.at]
        there == Peers(net.links, net.hosts, c.at, bift[k].nbr_port)
    IN  /\ k \in (c.todo \cap DOMAIN bift) \ {c.at}
        /\ copies' = (copies \ {c})
                     \cup Left(c, bift[k].f_bm)
                     \cup [at : there, todo : {c.todo \cap bift[k].f_bm}]
        /\ carried' = [e \in DOMAIN carried |->
                          IF e[1] = c.at /\ e[2] \in there THEN Count(carried[e])
                                                           ELSE carried[e]]
        /\ UNCHANGED <<net, want, got, lost>>

GiveUp(c) ==
    /\ c.todo \ (DOMAIN net.bift[c.at] \cup {c.at}) # {}
    /\ copies' = copies \ {c}
    /\ lost' = Append(lost, c.todo)
    /\ UNCHANGED <<net, want, got, carried>>

Serve(c) == Deliver(c) \/ (\E k \in c.todo \ {c.at} : Forward(c, k)) \/ GiveUp(c)

Lose(c) ==
    /\ Len(lost) < MaxLosses
    /\ copies' = copies \ {c}
    /\ lost' = Append(lost, c.todo)
    /\ UNCHANGED <<net, want, got, carried>>

Next == \E c \in copies : Serve(c) \/ Lose(c)

Spec == Init /\ [][Next]_vars

\* The threads of every switch keep serving; nothing obliges a copy to be lost.
FairSpec == Spec /\ WF_vars(\E c \in copies : Serve(c))

-----------------------------------------------------------------------------
Pending == UNION {c.todo : c \in copies}
Lost == UNION {lost[i] : i \in DOMAIN lost}

\* Copies in the domain at the same time have no bit in common, and none has a
\* bit whose host was served.
Disjoint ==
    /\ \A c, d \in copies : c # d => c.todo \cap d.todo = {}
    /\ \A s \in Pending \cap Switches(net) : got[s] = 0

\* No host gets the packet twice, and none gets it that was not asked for
\* (bift_action's f_bm against the tables of all the routers).
AtMostOncePerHost ==
    \A s \in Switches(net) : got[s] > 0 => got[s] = 1 /\ s \in want

\* A host that was asked for has got the packet, or a copy for it is in the
\* domain, or the copy for it was lost: no router drops bits silently.
Accounted ==
    \A s \in want :
        \/ s \in Pending \cup Lost
        \/ s \in Switches(net) /\ got[s] = 1

\* A link carries at most one copy of the packet in each direction: bits that
\* share a neighbour share a copy.
OneCopyPerLink ==
    \A e \in DOMAIN carried : carried[e] <= 1

\* No copy circulates in the domain forever.
Drains == <>[](copies = {})
=============================================================================
