----------------------------- MODULE MCSyckDump -----------------------------
(***************************************************************************)
(* The references of a graph are interchangeable: they are model values,   *)
(* and no operator of SyckDump prefers one.                                *)
(***************************************************************************)
EXTENDS SyckDump, TLC

RefSymmetry == Permutations(Refs)
=============================================================================
