--------------------------- MODULE MCVirtualKeys ---------------------------
(* Instances of VirtualKeys for TLC. *)
EXTENDS VirtualKeys, TLC

KeySymmetry == Permutations(Ids) \cup Permutations(Admins) \cup Permutations(Calls)
==========================================================================
