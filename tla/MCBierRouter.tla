---------------------------- MODULE MCBierRouter ----------------------------
(***************************************************************************)
(* A switch s3 of a ring for TLC.  Bits 4 and 5 share the neighbour on     *)
(* port 4 and bit 1 has no entry.  Of the IPv4 destinations, mc is the     *)
(* group bier_ingress knows, h3 the attached host, h2 a host with a route  *)
(* but no send_frame entry on its port, h9 one without a route.            *)
(***************************************************************************)
EXTENDS BierRouter, TableLiterals, TLC

MCBift == (2 :> [f_bm |-> {2}, nbr_port |-> 3])
       @@ (4 :> [f_bm |-> {4, 5}, nbr_port |-> 4])
       @@ (5 :> [f_bm |-> {4, 5}, nbr_port |-> 4])

MCBierIngress == "mc" :> {2, 3, 5}

MCIpv4Lpm == ("h3" :> [nhop_ipv4 |-> "h3", port |-> 1])
          @@ ("h2" :> [nhop_ipv4 |-> "s2", port |-> 3])

-----------------------------------------------------------------------------
(* Switch s2 of the ring of three, with its committed tables.              *)

S2Bift == (1 :> [f_bm |-> {1}, nbr_port |-> 3])
       @@ (3 :> [f_bm |-> {3}, nbr_port |-> 4])

\* The parameter bm as check_bfr_id_entries_s2 writes it: 0000000000000010.
S2BfrBm == BitsOf(ValueOf("0", <<0, 0, 0, 0, 0, 0, 0, 0, 0, 0, 0, 0, 0, 0, 1, 0>>),
                  16)
=============================================================================
