---------------------------- MODULE MCRequestFlow ----------------------------
(* RequestFlow on one card, three users and two connections. *)
EXTENDS RequestFlowApart, TLC

CONSTANTS owner, asker, mutual

MCOwner == [c \in Cards |-> owner]

SessionSymmetry == Permutations(Sessions)

\* The friendships asker - mutual - owner stand; only the third pair changes, so
\* that a request of asker is direct, referred or refused.
InitPath ==
  /\ friends = {{asker, mutual}, {mutual, owner}}
  /\ blocked = {}
  /\ shared = [c \in Cards |-> "absent"]
  /\ requests = [r \in Requests |-> NoRow]
  /\ request_events = [r \in Requests |-> <<>>]
  /\ call = [s \in Sessions |-> Idle]

NextPath ==
  \/ \E s \in Sessions : CallStep(s)
  \/ CardChange
  \/ \E p \in {{asker, owner}} : Befriend(p) \/ Unfriend(p) \/ Block(p) \/ Unblock(p)

InitMC == InitPath /\ disturbed = FALSE

SpecPath == InitMC /\ [][NextPath /\ Watched]_<<vars, disturbed>>
===============================================================================
