---------------------------- MODULE MCBoardPosts ----------------------------
(* Model-checking instance of BoardPosts. *)
EXTENDS BoardPosts, TLC

Symmetry == Permutations(Requests)
=============================================================================
