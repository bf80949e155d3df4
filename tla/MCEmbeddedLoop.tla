--------------------------- MODULE MCEmbeddedLoop ---------------------------
(* EmbeddedLoop on a few interchangeable descriptor numbers.               *)
EXTENDS EmbeddedLoop, TLC

FdSymmetry == Permutations(Fds)
=============================================================================
