-------------------------- MODULE MCBierTeNetwork --------------------------
(***************************************************************************)
(* The demonstration network: FRRNetwork.json, the groups of               *)
(* bier_te/bier_ingress, and frr_s3, which protects the link s3-s6.        *)
(***************************************************************************)
EXTENDS BierTeNetwork, TLC

DemoGroups ==
    [g \in {"224.1.1.1", "224.1.1.2", "224.1.1.3"} |->
        CASE g = "224.1.1.1" -> {2, 3, 4, 9, 10, 18}
          [] g = "224.1.1.2" -> {6, 7, 8, 9, 10, 14, 20, 27, 30}
          [] g = "224.1.1.3" -> {6, 7, 8, 10, 19, 20, 27, 30}]

DemoHosts == [s \in 1 .. 8 |-> 1]

DemoSource == [g \in DOMAIN DemoGroups |-> 1]

\* The link s3-s6 leads to these members.
DemoDetoured ==
    [g \in DOMAIN DemoGroups |-> IF g = "224.1.1.1" THEN {} ELSE {6, 7}]

DemoEntries ==
    [s \in {3} |-> << [bp |-> 20, match |-> {7}, add_bm |-> {6, 7, 18, 22, 34},
                       reset_bm |-> {20, 30}, nnh_bp |-> 7] >>]
-----------------------------------------------------------------------------
(* Groups and entries of our own, on the same network.                     *)

\* From s8 to s5, to s6 and on to s3; s6 has no entries for its link to s3.
BackGroup == [g \in {"back"} |-> {3, 5, 6, 29, 37, 38}]

\* From s1 to s3, and on to s4 and over s6 to s7, as the packets of 224.1.1.3.
AheadGroup == [g \in {"ahead"} |-> {4, 7, 10, 18, 20, 30}]

\* From s7 over s6 to s8 while the tables of s7 and s8 are filled.
EarlyGroup == [g \in {"early"} |-> {6, 7, 8, 31, 34}]

\* The groups of the demonstration and these three.
AllGroups == DemoGroups @@ BackGroup @@ AheadGroup @@ EarlyGroup
AllSource ==
    DemoSource @@ ("back" :> 8) @@ ("ahead" :> 1) @@ ("early" :> 7)
FailingLate == {"224.1.1.1", "ahead", "back"}
AllCovered == DOMAIN AllGroups \ {"back"}
AllDetoured ==
    DemoDetoured @@ ("back" :> {3}) @@ ("ahead" :> {7}) @@ ("early" :> {})
AllFilledBefore == [g \in DOMAIN AllGroups |-> IF g = "early" THEN 6 ELSE 8]

\* From s1 over s3 to s4 and to s6; the bit of the link s3-s4 is not the
\* highest bit of s3 in the packet.  s3 leads around that link over s6 and s7,
\* where the outer header ends.
ForkGroup == [g \in {"fork"} |-> {4, 6, 10, 18, 20}]
ForkSource == [g \in {"fork"} |-> 1]
ForkCovered == {"fork"}
ForkFilledBefore == [g \in {"fork"} |-> 8]
ForkDetoured == [g \in {"fork"} |-> {4}]
ForkEntries ==
    [s \in {3} |-> << [bp |-> 18, match |-> {4}, add_bm |-> {4, 20, 30, 33},
                       reset_bm |-> {18}, nnh_bp |-> 4] >>]

\* From s1 over s3 to s5 and to s6.  s3 leads around the link s3-s6 over s4 and
\* s7; the outer header ends at s6, whose only bit in it is that of its
\* local_decap.
TunnelGroup == [g \in {"tunnel"} |-> {5, 6, 10, 19, 20}]
TunnelSource == [g \in {"tunnel"} |-> 1]
TunnelCovered == {"tunnel"}
TunnelFilledBefore == [g \in {"tunnel"} |-> 8]
TunnelDetoured == [g \in {"tunnel"} |-> {6}]
TunnelEntries ==
    [s \in {3} |-> << [bp |-> 20, match |-> {6}, add_bm |-> {6, 18, 22, 34},
                       reset_bm |-> {20}, nnh_bp |-> 6] >>]

\* The same with s6 as the only member: nothing is left of the BitString once btaft
\* has taken the bit of s6 out of it, and Drains fails (bfr_bier_te.p4:28).
LoneGroup == [g \in {"tunnel"} |-> {6, 10, 20}]
=============================================================================
