------------------------- MODULE MCApprovalStore -------------------------
(* Instances of ApprovalStore for TLC. *)
EXTENDS ApprovalStore, TLC

\* Nothing orders request ids: createOrReuse may return any unused one.
RequestSymmetry == Permutations(Requests)
==========================================================================
