------------------------- MODULE MCResidentRegistry -------------------------
(* Model-checking instance of ResidentRegistry: all units in one apartment. *)
EXTENDS ResidentRegistry, TLC

CONSTANT Complex
MCApartmentOf == [u \in Units |-> Complex]

Symmetry == Permutations(Contacts) \cup Permutations(Units) \cup Permutations(Requests)
=============================================================================
