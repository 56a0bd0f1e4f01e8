---------------------------- MODULE MCSyckLoad ----------------------------
(***************************************************************************)
(* SyckLoad for TLC: the names of anchors are interchangeable.             *)
(***************************************************************************)
EXTENDS SyckLoad, TLC

NameSymmetry == Permutations(Names)
=============================================================================
