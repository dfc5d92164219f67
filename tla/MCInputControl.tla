--------------------------- MODULE MCInputControl ---------------------------
(* Instances of InputControl for TLC. *)
EXTENDS InputControl
\* Priorities 1, 1 (the first value does not parse), 0, and a number that is no
\* int: the first leaves priority 0 empty, the second appends to a group that
\* clients may hold, in place or not, and the last finds no group.
MCFlagInputs == << <<1>>, <<BadNumber, 1>>, <<>>, <<MaxInt + 1>> >>

\* Priorities and numbers clients ask for, and one that is no int.
MCPrios == {0, 1}
MCNums == {0, 1, 2 * MaxInt + 1}
MCAllPrios == MCPrios \cup MCNums

\* The values clients set are only compared with each other.
OptionSymmetry == Permutations(Options)
=============================================================================
