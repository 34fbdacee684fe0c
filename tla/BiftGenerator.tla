--------------------------- MODULE BiftGenerator ---------------------------
(***************************************************************************)
(* The Bit Index Forwarding Tables of a ring of n switches, as             *)
(* generateBIFTEntries_BIER.py writes them and as the committed files      *)
(* bift_entries_s1 to s3 hold them.                                        *)
(***************************************************************************)
EXTENDS Naturals

\* The switch j places after or before switch i.
After(n, i, j) == ((i - 1 + j) % n) + 1
Before(n, i, j) == ((i - 1 + n - j) % n) + 1

\* Half the ring is reached through the next switch; with an even number the
\* opposite switch counts as next only.
NextBits(n, i) == {After(n, i, j) : j \in 1 .. n \div 2}
PrevBits(n, i) == {Before(n, i, j) : j \in 1 .. (n \div 2) - ((n + 1) % 2)}

\* Mutation: every bit gets a copy of its own.
SideTableSingle(bits, port) == [k \in bits |-> [f_bm |-> {k}, nbr_port |-> port]]

SideTable(bits, port) == [k \in bits |-> [f_bm |-> bits, nbr_port |-> port]]

\* The table of switch i when the next switch is on port p, the previous on q.
TwoSides(n, i, p, q) ==
    LET next == SideTable(NextBits(n, i), p)
        prev == SideTable(PrevBits(n, i), q)
    IN  [k \in DOMAIN next \cup DOMAIN prev |->
            IF k \in DOMAIN next THEN next[k] ELSE prev[k]]

\* "the next switch is always on port 4 and the prev switch is always on port 3"
GeneratedBift(n, i) == TwoSides(n, i, 4, 3)

\* The committed files differ from the generator's in switch 1, whose link to
\* the next switch is the first of the ring and has the lower port.
CommittedBift(n, i) == IF i = 1 THEN TwoSides(n, i, 3, 4) ELSE GeneratedBift(n, i)
=============================================================================
