---------------------------- MODULE TrustGraphApart ----------------------------
(***************************************************************************)
(* The trust graph when no two calls on the same pair of users overlap.    *)
(* Calls on different pairs interleave freely. This is what the code's     *)
(* read-then-write statements need: under it the calls keep BlockSeparates *)
(* and implement Relationship, and every failure that TrustGraph shows     *)
(* takes two overlapping calls on one pair.                                *)
(***************************************************************************)
EXTENDS TrustGraph

\* Calls on one pair of users never overlap in time; calls on different pairs may.
PairsApart ==
  \A s, t \in Sessions :
     s # t /\ Busy(s) /\ Busy(t) => CallPair(s) # CallPair(t)

SpecApart == Init /\ [][Next /\ PairsApart']_vars

\* How far the call of s has come, when no other call touches its pair: what it
\* has read still holds, and its writes are the ones its statements so far make.
Written(rows, status, friendship, block) ==
  [rows |-> rows, status |-> status, friendship |-> friendship, block |-> block]

\* The writes a finished call brings to its commit, by what it does.
Inviting(s) ==
  LET u == call[s].me
      v == call[s].peer
      r == call[s].req
  IN  /\ writes[s] = Written({r}, "pending", "keep", "keep")
      /\ r \in Requests /\ r[1] = u /\ r[2] = v
      /\ ~Blocked(u, v) /\ ~Friends(u, v) /\ OpenBetween(u, v) = {}
      /\ friend_requests[r] = "none"
Answering(s, status, friendship) ==
  LET r == call[s].req
  IN  /\ writes[s] = Written({r}, status, friendship, "keep")
      /\ r \in Requests /\ friend_requests[r] = "pending"
BlockWrite(s) ==
  IF <<call[s].me, call[s].peer>> \in user_blocks THEN "keep" ELSE "insert"
UnfriendWrite(s) ==
  IF Friends(call[s].me, call[s].peer) THEN "delete" ELSE "keep"
Blocking(s) ==
  writes[s] = Written(OpenBetween(call[s].me, call[s].peer), "deleted",
                      UnfriendWrite(s), BlockWrite(s))
Removing(s) ==
  /\ writes[s] = Written({}, "none", "delete", "keep")
  /\ Friends(call[s].me, call[s].peer)
Unblocking(s) ==
  /\ writes[s] = Written({}, "none", "keep", "delete")
  /\ <<call[s].me, call[s].peer>> \in user_blocks

Effect(s) ==
  \/ Inviting(s)
  \/ Answering(s, "accepted", "insert")
  \/ Answering(s, "declined", "keep")
  \/ Answering(s, "cancelled", "keep")
  \/ Blocking(s)
  \/ Removing(s)
  \/ Unblocking(s)

Progress(s) ==
  LET u == call[s].me
      v == call[s].peer
      r == call[s].req
      at(point) == call[s].pc = point
  IN  \/ at("idle") /\ writes[s] = NoWrites
      \/ /\ at("send_friends") \/ (at("send_insert") /\ ~Friends(u, v))
         /\ r[1] = u /\ r[2] = v /\ ~Blocked(u, v)
         /\ friend_requests[r] = "none" /\ writes[s] = NoWrites
      \/ /\ at("accept_update") \/ at("decline_update")
         /\ friend_requests[r] = "pending" /\ writes[s] = NoWrites
      \/ /\ at("accept_insert")
         /\ friend_requests[r] = "pending"
         /\ writes[s] = Written({r}, "accepted", "keep", "keep")
      \/ /\ at("block_friendship")
         /\ writes[s] = Written({}, "none", "keep", BlockWrite(s))
      \/ /\ at("block_requests")
         /\ writes[s] = Written({}, "none", UnfriendWrite(s), BlockWrite(s))
      \/ at("remove_delete") /\ Friends(u, v) /\ writes[s] = NoWrites
      \/ at("commit") /\ Effect(s)

\* The inductive invariant of the calls that are apart.
ApartInv ==
  /\ PairsApart
  /\ BlockSeparates
  /\ NoOpenRequestBetweenFriends
  /\ \A s \in Sessions : Progress(s)

\* A call takes effect at its COMMIT: the tables implement Relationship.
OpenInvitations ==
  {<<r[1], r[2]>> : r \in {q \in Requests : friend_requests[q] = "pending"}}
Abstract == INSTANCE Relationship WITH
  open <- OpenInvitations, friends <- friendships, blocked <- user_blocks

\* Every call is one step of the promise (DATABASE_DESIGN: "one atomic transition").
ImplementsRelationship == Abstract!RSpec
===============================================================================
