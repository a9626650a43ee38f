------------------------ MODULE MCNotificationOutbox ------------------------
(* Small instances of NotificationOutbox for TLC. *)
EXTENDS NotificationOutbox, TLC

(* Processes and dispatches are interchangeable. *)
Symmetry == Permutations(Workers) \cup Permutations(Dispatchers)
=============================================================================
