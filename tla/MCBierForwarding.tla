-------------------------- MODULE MCBierForwarding --------------------------
(* The forwarding table of MCBierRouter, for TLC.                          *)
EXTENDS BierForwarding, TLC

MCBift == (1 :> [f_bm |-> {1}, nbr_port |-> 3])
       @@ (3 :> [f_bm |-> {3, 4}, nbr_port |-> 4])
       @@ (4 :> [f_bm |-> {3, 4}, nbr_port |-> 4])
=============================================================================
