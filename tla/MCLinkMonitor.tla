--------------------------- MODULE MCLinkMonitor ---------------------------
(***************************************************************************)
(* Switch s3 of FRRNetwork.json: one failure at a time, failures that      *)
(* overlap, and changes that share a message, with messages lost and the   *)
(* monitor restarted.                                                      *)
(***************************************************************************)
EXTENDS LinkMonitor

MCRegimes == {[down |-> 1, batch |-> 1, faults |-> 2],
              [down |-> 3, batch |-> 1, faults |-> 1],
              [down |-> 3, batch |-> 3, faults |-> 2]}
=============================================================================
