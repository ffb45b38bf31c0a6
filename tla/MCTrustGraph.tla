----------------------------- MODULE MCTrustGraph -----------------------------
(* TrustGraph on small sets of users and sessions. *)
EXTENDS TrustGraphApart, TLC

CONSTANT alice

\* Calls on two of three pairs, which share a user: they overlap and, by the
\* shared user's rate limit and edges, could get in each other's way.
CallsOfAlice == \A s \in Sessions : Busy(s) => alice \in CallPair(s)
SpecStar == Init /\ [][Next /\ PairsApart' /\ CallsOfAlice']_vars

StarSymmetry == Permutations(Users \ {alice}) \cup Permutations(Sessions)

\* Bound: the first request is alice's; the other case is its mirror image.
AliceFirst ==
  \A r \in Requests : r[3] = 1 /\ r[1] # alice =>
    friend_requests[r] = "none" /\ \A s \in Sessions : Busy(s) => call[s].req # r

LiveSpec == Init /\ [][Next /\ AliceFirst']_vars /\ Fairness
===============================================================================
