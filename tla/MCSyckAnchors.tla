--------------------------- MODULE MCSyckAnchors ---------------------------
(***************************************************************************)
(* SyckAnchors for TLC: the cells of the heap are interchangeable.  Fresh  *)
(* takes one of those that are free, and these are all alike: no variable  *)
(* but `live' tells them apart.                                            *)
(***************************************************************************)
EXTENDS SyckAnchors, TLC

NodeSymmetry == Permutations(Nodes)
=============================================================================
