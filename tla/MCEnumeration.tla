--------------------------- MODULE MCEnumeration ---------------------------
(***************************************************************************)
(* Instances of Enumeration for TLC.                                       *)
(***************************************************************************)
EXTENDS Enumeration

FewIds  == 1..4
ManyIds == 1..6
=============================================================================
