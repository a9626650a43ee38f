-------------------------- MODULE MCSessionTokens --------------------------
(* Model-checking instance of SessionTokens. *)
EXTENDS SessionTokens, TLC

Symmetry == Permutations(Clients) \cup Permutations(Requests) \cup Permutations(Passwords)
=============================================================================
