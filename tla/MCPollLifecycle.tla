--------------------------- MODULE MCPollLifecycle ---------------------------
(* Model-checking instance of PollLifecycle. *)
EXTENDS PollLifecycle, TLC

Symmetry == Permutations(Voters) \cup Permutations(Choices) \cup Permutations(Requests)
            \cup Permutations(Runs) \cup Permutations(Admins)
==============================================================================
