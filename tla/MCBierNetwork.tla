--------------------------- MODULE MCBierNetwork ---------------------------
(* Rings of switches with two hosts each, as RingNetwork.json has them.    *)
EXTENDS BierNetwork, BiftGenerator

Ring(n, Bift(_, _)) ==
    [size |-> n, links |-> RingLinks(n), hosts |-> 2,
     bift |-> [i \in 1 .. n |-> Bift(n, i)]]

CommittedRings == {Ring(n, CommittedBift) : n \in 3 .. 5}
GeneratedRings == {Ring(5, GeneratedBift)}
=============================================================================
