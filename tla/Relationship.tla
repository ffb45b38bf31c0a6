----------------------------- MODULE Relationship -----------------------------
(***************************************************************************)
(* What the friendship calls promise, without statements, locks and rows:  *)
(* between two users there is at most an open invitation, a friendship or  *)
(* a block, and every call changes this in one step.                       *)
(***************************************************************************)
CONSTANT Users

VARIABLES
  open,     \* <<from, to>>: an invitation waits for an answer
  friends,  \* unordered pairs
  blocked   \* <<blocker, blocked>>

rvars == <<open, friends, blocked>>

Between(p) == {<<p[1], p[2]>>, <<p[2], p[1]>>}
Separated(p) == Between(p) \cap blocked # {}
Ends(p) == {p[1], p[2]}

RInit == open = {} /\ friends = {} /\ blocked = {}

Invite(p) ==
  /\ ~Separated(p)
  /\ Ends(p) \notin friends
  /\ Between(p) \cap open = {}
  /\ open' = open \cup {p}
  /\ UNCHANGED <<friends, blocked>>

Accept(p) ==
  /\ p \in open
  /\ open' = open \ {p}
  /\ friends' = friends \cup {Ends(p)}
  /\ UNCHANGED blocked

DeclineOrCancel(p) ==
  /\ p \in open
  /\ open' = open \ {p}
  /\ UNCHANGED <<friends, blocked>>

Block(p) ==
  /\ blocked' = blocked \cup {p}
  /\ friends' = friends \ {Ends(p)}
  /\ open' = open \ Between(p)

Unblock(p) ==
  /\ p \in blocked
  /\ blocked' = blocked \ {p}
  /\ UNCHANGED <<open, friends>>

Remove(p) ==
  /\ Ends(p) \in friends
  /\ friends' = friends \ {Ends(p)}
  /\ UNCHANGED <<open, blocked>>

RNext ==
  \E p \in {q \in Users \X Users : q[1] # q[2]} :
     Invite(p) \/ Accept(p) \/ DeclineOrCancel(p) \/ Block(p) \/ Unblock(p) \/ Remove(p)

RSpec == RInit /\ [][RNext]_rvars
===============================================================================
