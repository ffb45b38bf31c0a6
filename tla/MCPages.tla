-------------------------------- MODULE MCPages --------------------------------
(***************************************************************************)
(* Client, small: two people who are friends, three cards in the           *)
(* catalogue, two accounts.                                                *)
(***************************************************************************)
EXTENDS Client

CONSTANTS p1, p2

Everyone == {p1, p2}
MCTied == {Everyone}
MCMatch == [q \in Queries |-> IF q = 1 THEN {p1} ELSE {p2}]
MCFits == [n \in CardNames |-> IF n = "known" THEN <<{}, {2}, {1, 2}>> ELSE <<{}, {}, {}>>]

\* p2 is a friend and p1 is not, or p1 asks to become one; a page that is mounted
\* finds p1 alone, and only the first query has been typed.
FewStarts ==
  page \in PeoplePages =>
    /\ \/ link[p2] = "friend" /\ link[p1] # "friend"
       \/ link[p2] = "none" /\ link[p1] = "incoming"
    /\ issued = IF \E p \in People : ticket[p] # 0 THEN 1 ELSE 0
    /\ loads # {} => spent = 1 /\ link[p2] = "none"
    /\ loads = {} => spent = 0
    /\ query \in {1, NoQuery}

InitMC == ClientInit /\ FewStarts
SpecMC == InitMC /\ [][ClientNext]_clientVars
===============================================================================
