--------------------------- MODULE MCInputFactory ---------------------------
(* Instances of InputFactory for TLC. *)
EXTENDS InputFactory, TLC
WorkerSymmetry == Permutations(Workers)
=============================================================================
