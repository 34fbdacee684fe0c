---------------------------- MODULE MCBierTeReach ----------------------------
(***************************************************************************)
(* The demonstration network again, with one more group and entry, and     *)
(* with the plan of all groups worked out from their bits.                 *)
(***************************************************************************)
EXTENDS MCBierTeNetwork, BierTeReach

\* TLC keeps the fields of records in the order in which it meets their names, and
\* compares copies faster when these come first.
FieldOrder(c) == <<c.stage, c.inst, c.port, c.recirc, c.at, c.eth>>

\* From s1 over s3 and s6 to s7 and s8.
PairGroup == [g \in {"pair"} |-> {7, 8, 10, 20, 30, 31}]

\* Besides the entry of frr_s3, one for the packets s6 would send on to s8: over
\* s5 to s8, where the outer header ends.
ReachEntries ==
    [s \in {3} |->
        DemoEntries[3] \o << [bp |-> 20, match |-> {8, 31}, nnh_bp |-> 8,
                              add_bm |-> {8, 19, 27, 38}, reset_bm |-> {20, 31}] >>]

ReachGroups == AllGroups @@ PairGroup
ReachSource == AllSource @@ ("pair" :> 1)
ReachCovered == AllCovered \cup {"pair"}
ReachDetoured == AllDetoured @@ ("pair" :> {7, 8})
ReachFilledBefore == AllFilledBefore @@ ("pair" :> 8)

\* The arrivals a switch makes of one.
Next1(a) ==
    LET bits == a[2] \cap Boi[a[1]]
    IN  IF EndsTunnel(a[1], a[2], a[3])
        THEN {Inner(a[1], a[3])} \cup Beyond(a[1], bits \ {DecapBit(a[1])}, a[3])
        ELSE UNION {Onward(a[1], k, a[2] \ Boi[a[1]], a[3]) : k \in bits}

\* No way of a packet is longer.
MaxHops == 12

Arrivals ==
    LET after[n \in 0 .. MaxHops] ==
            IF n = 0 THEN {<<Source[g], Groups[g], Invalid>> : g \in DOMAIN Groups}
            ELSE LET A == after[n - 1] IN A \cup UNION {Next1(a) : a \in A}
    IN  after[MaxHops]

\* The hosts an arrival leads to: its own, and those of the arrivals after it.
ReachOfGroups ==
    LET own(a) == IF a[3] = Invalid THEN a[2] \cap {DecapBit(a[1])} ELSE {}
        within[n \in 0 .. MaxHops] ==
            IF n = 0 THEN [a \in Arrivals |-> {}]
            ELSE LET reach == within[n - 1]
                 IN  [a \in Arrivals |-> own(a) \cup UNION {reach[b] : b \in Next1(a)}]
    IN  within[MaxHops]

\* The plan covers every group of this instance.
ASSUME AllPlanned ==
    \A g \in DOMAIN Groups :
        Reach[<<Source[g], Groups[g], Invalid>>] = Groups[g] \cap Switches

\* It promises no more than the bits keep.
ASSUME AllExact == Exact
=============================================================================
