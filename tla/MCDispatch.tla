----------------------------- MODULE MCDispatch -----------------------------
(* Dispatch on a few interchangeable descriptor numbers.                   *)
EXTENDS Dispatch, TLC

FdSymmetry == Permutations(Fds)
=============================================================================
