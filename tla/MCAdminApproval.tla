-------------------------- MODULE MCAdminApproval --------------------------
(* Model-checking instance of AdminApproval. *)
EXTENDS AdminApproval, TLC

Symmetry == Permutations(Admins) \cup Permutations(Requests)
=============================================================================
