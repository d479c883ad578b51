-------------------------- MODULE TaoRecyclerMC --------------------------
(* Instances of TaoRecycler for TLC: objects are interchangeable. *)
EXTENDS TaoRecycler, TLC

ObjSymmetry == Permutations(Obj)

==========================================================================
