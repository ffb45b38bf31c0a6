--------------------------- MODULE MCNetworkSearch ---------------------------
(* NetworkSearch on four users and one card. *)
EXTENDS NetworkSearch

\* Bound: one card and two blocks at a time.
Bounded == Cardinality(Owners) <= 1 /\ Cardinality(user_blocks) <= 2

SpecBounded == Init /\ [][Next /\ Bounded']_vars
==============================================================================
