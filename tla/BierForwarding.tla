--------------------------- MODULE BierForwarding ---------------------------
(***************************************************************************)
(* What a bit-forwarding router (BFR) promises for each packet given to    *)
(* it: every bit of the packet's BitString is served by exactly one copy,  *)
(* the router's own bit by a copy for the attached host and every other    *)
(* bit by a copy sent to the neighbour the Bit Index Forwarding Table      *)
(* names for it.  The order in which the bits are served is left open.     *)
(*                                                                         *)
(* BierRouter is the P4 program, with its clones and recirculations, that  *)
(* keeps this promise.                                                     *)
(***************************************************************************)
EXTENDS Naturals, Sequences

CONSTANTS
    Arrivals,   \* the packets handed to the router
    Bits,       \* the positions of a BitString
    Ports,      \* the ports with something attached
    HostPort,   \* the port of the multicast overlay
    BfrId,      \* the bit of this router
    Bift        \* bit |-> [f_bm |-> bits reached that way, nbr_port |-> port]

ASSUME ForwardingAssumption ==
    /\ BfrId \in Bits
    /\ HostPort \in Ports
    /\ DOMAIN Bift \subseteq Bits
    /\ \A k \in DOMAIN Bift : Bift[k] \in [f_bm : SUBSET Bits, nbr_port : Ports]

VARIABLES
    want,   \* want[a]: the BitString packet a came with
    todo,   \* todo[a]: the bits of a no copy serves yet
    sent    \* sent[a]: the copies sent for a, in order

vars == <<want, todo, sent>>

\* A copy and the bits it is sent for.
Copy == [port : Ports, bits : SUBSET Bits]

TypeOK ==
    /\ want \in [Arrivals -> SUBSET Bits]
    /\ todo \in [Arrivals -> SUBSET Bits]
    /\ sent \in [Arrivals -> Seq(Copy)]

Init ==
    /\ want \in [Arrivals -> SUBSET Bits]
    /\ todo = want
    /\ sent = [a \in Arrivals |-> << >>]

Send(a, port, bits) ==
    sent' = [sent EXCEPT ![a] = Append(@, [port |-> port, bits |-> bits])]

\* Mutation: the router's own bit stays set.
DeliverKeepsBit(a) ==
    /\ BfrId \in todo[a]
    /\ Send(a, HostPort, {BfrId})
    /\ UNCHANGED <<want, todo>>

\* The router's own bit: a copy without BIER header for the host.
Deliver(a) ==
    /\ BfrId \in todo[a]
    /\ Send(a, HostPort, {BfrId})
    /\ todo' = [todo EXCEPT ![a] = @ \ {BfrId}]
    /\ UNCHANGED want

\* One copy for all the bits that share the neighbour of bit k.
Forward(a, k) ==
    /\ k \in (todo[a] \cap DOMAIN Bift) \ {BfrId}
    /\ Send(a, Bift[k].nbr_port, todo[a] \cap Bift[k].f_bm)
    /\ todo' = [todo EXCEPT ![a] = @ \ Bift[k].f_bm]
    /\ UNCHANGED want

\* Mutation: any bit left over ends the packet.
GiveUpEarly(a) ==
    /\ todo[a] # {}
    /\ todo' = [todo EXCEPT ![a] = {}]
    /\ UNCHANGED <<want, sent>>

\* A bit without an entry: the packet is given up with all that is left.
GiveUp(a) ==
    /\ todo[a] \ (DOMAIN Bift \cup {BfrId}) # {}
    /\ todo' = [todo EXCEPT ![a] = {}]
    /\ UNCHANGED <<want, sent>>

Serve(a) == Deliver(a) \/ (\E k \in Bits : Forward(a, k)) \/ GiveUp(a)

Next == \E a \in Arrivals : Serve(a)

Spec == Init /\ [][Next]_vars

FairSpec == Spec /\ \A a \in Arrivals : WF_vars(Serve(a))

-----------------------------------------------------------------------------
Served(a) == UNION {sent[a][i].bits : i \in DOMAIN sent[a]}

\* No bit is served by two copies, none that is served is still to do, and
\* none is served that the packet did not carry.
ServedOnce ==
    \A a \in Arrivals :
        /\ todo[a] \subseteq want[a]
        /\ \A i \in DOMAIN sent[a] :
              /\ sent[a][i].bits \subseteq want[a] \ todo[a]
              /\ \A j \in DOMAIN sent[a] :
                    i # j => sent[a][i].bits \cap sent[a][j].bits = {}

\* A packet all of whose bits have an entry loses none of them.
NoneLost ==
    \A a \in Arrivals :
        want[a] \subseteq DOMAIN Bift \cup {BfrId} =>
            want[a] \subseteq todo[a] \cup Served(a)

\* The packet does not stay in the router.
EveryPacketEnds == \A a \in Arrivals : <>(todo[a] = {})
=============================================================================
