--------------------------- MODULE TableLiterals ---------------------------
(***************************************************************************)
(* How a number in a table file becomes the value of an action parameter.  *)
(* The files are fed to bmv2's runtime_CLI (cli/sswitch_CLI.py imports it; *)
(* it is not part of this repository), which calls int(text, 0) in         *)
(* Python 2: the base follows from the prefix, and a bare leading zero     *)
(* means octal.                                                            *)
(***************************************************************************)
EXTENDS Integers, Sequences

\* A literal: its prefix and its digits, most significant first.
BaseOf(prefix) ==
    CASE prefix = "0b" -> 2 [] prefix = "0" -> 8 [] prefix = "" -> 10

\* The value of a literal, -1 for one int() refuses.
ValueOf(prefix, digits) ==
    LET value[i \in 0 .. Len(digits)] ==     \* of the first i digits
            IF i = 0 THEN 0 ELSE value[i - 1] * BaseOf(prefix) + digits[i]
    IN  IF \A i \in DOMAIN digits : digits[i] < BaseOf(prefix)
        THEN value[Len(digits)]
        ELSE -1

\* The positions of the one bits of a value of the given width, the lowest
\* being position 1.
BitsOf(value, width) == {p \in 1 .. width : (value \div 2^(p - 1)) % 2 = 1}
=============================================================================
