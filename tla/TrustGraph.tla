------------------------------ MODULE TrustGraph ------------------------------
(***************************************************************************)
(* The trust graph of the Supabase backend: friend_requests, friendships,  *)
(* friend_edges and user_blocks, and the calls that write them             *)
(* (send_friend_request, accept_friend_request, decline_friend_request,    *)
(* block_user, remove_friend, and the client's unblock DELETE).            *)
(*                                                                         *)
(* A call is one PostgreSQL transaction at READ COMMITTED: every SQL       *)
(* statement is a step, it reads what is committed when it runs, its       *)
(* writes stay invisible to the other sessions until Commit, and it waits  *)
(* while another transaction holds a row or a unique key it needs.         *)
(***************************************************************************)
EXTENDS Naturals, FiniteSets

CONSTANTS
  Users,        \* the profiles
  Sessions,     \* database connections serving calls
  MaxRequests,  \* bound: rows ever inserted into friend_requests
  RateLimit     \* rows per minute a requester may insert (10 in the code)

ASSUME TrustGraphAssumption ==
  /\ MaxRequests \in Nat \ {0}
  /\ RateLimit \in Nat

VARIABLES
  friend_requests,  \* committed status of every possible row
  friendships,      \* committed set of unordered pairs
  friend_edges,     \* committed set of ordered pairs, kept by a trigger
  user_blocks,      \* committed set of <<blocker, blocked>>
  call,             \* per session: the call in progress
  writes            \* per session: its uncommitted writes

tables == <<friend_requests, friendships, friend_edges, user_blocks>>
vars == <<friend_requests, friendships, friend_edges, user_blocks, call, writes>>

-------------------------------------------------------------------------------
(* Rows, calls and write sets.                                             *)

Ordered == {p \in Users \X Users : p[1] # p[2]}
Pair(u, v) == {u, v}

\* requester, addressee and number never change after the INSERT: they are the key.
Requests == {<<u, v, n>> : u \in Users, v \in Users, n \in 1..MaxRequests}
               \ {<<u, u, n>> : u \in Users, n \in 1..MaxRequests}
PairOf(r) == Pair(r[1], r[2])

\* "none" was never inserted; "deleted" was, and block_user removed it.
Status == {"none", "pending", "accepted", "declined", "cancelled", "deleted"}
Answered == {"accepted", "declined", "cancelled"}

NoRequest == <<>>
Idle == [pc |-> "idle"]
RowPoints == {"send_friends", "send_insert",      \* statements about one request
              "accept_update", "accept_insert", "decline_update"}
Points == RowPoints \cup {"block_friendship", "block_requests", "remove_delete", "commit"}
Call(pc, u, v, r) == [pc |-> pc, me |-> u, peer |-> v, req |-> r]
ActiveCalls ==
  {c \in [pc : Points, me : Users, peer : Users, req : Requests \cup {NoRequest}] :
     /\ c.me # c.peer
     /\ c.req # NoRequest => PairOf(c.req) = Pair(c.me, c.peer)
     /\ c.pc \in RowPoints => c.req # NoRequest}
Calls == {Idle} \cup ActiveCalls

\* status is what the rows in "rows" become at commit.
WriteSets == [rows : SUBSET Requests, status : Status,
              friendship : {"keep", "insert", "delete"},
              block : {"keep", "insert", "delete"}]
NoWrites == [rows |-> {}, status |-> "none", friendship |-> "keep", block |-> "keep"]

CallPair(s) == Pair(call[s].me, call[s].peer)
Busy(s) == call[s].pc # "idle"

Blocked(u, v) == <<u, v>> \in user_blocks \/ <<v, u>> \in user_blocks
Friends(u, v) == Pair(u, v) \in friendships
OpenBetween(u, v) ==
  {r \in Requests : PairOf(r) = Pair(u, v) /\ friend_requests[r] = "pending"}

-------------------------------------------------------------------------------
(* Locks: whom the next statement of a session waits for.                  *)

HoldsRow(t, r) == r \in writes[t].rows
\* Mutant: the index is on the ordered pair (requester_id, addressee_id).
HoldsOpenPair_Directed(t, u, v) ==
  \E r \in writes[t].rows :
     /\ r[1] = u /\ r[2] = v
     /\ friend_requests[r] = "pending" \/ writes[t].status = "pending"

HoldsOpenPair(t, u, v) ==          \* the partial unique index friend_requests_open_pair
  \E r \in writes[t].rows :
     /\ PairOf(r) = Pair(u, v)
     /\ friend_requests[r] = "pending" \/ writes[t].status = "pending"
HoldsOpenRow(t, u, v) == \E r \in OpenBetween(u, v) : HoldsRow(t, r)
HoldsFriendship(t, u, v, ws) ==
  Busy(t) /\ CallPair(t) = Pair(u, v) /\ writes[t].friendship \in ws
HoldsBlock(t, u, v, ws) ==
  Busy(t) /\ call[t].me = u /\ call[t].peer = v /\ writes[t].block \in ws

Needs(s, t) ==
  LET u == call[s].me
      v == call[s].peer
      at(point) == call[s].pc = point
  IN  \/ at("send_insert") /\ HoldsOpenPair(t, u, v)
      \/ at("accept_update") /\ HoldsRow(t, call[s].req)
      \/ at("accept_insert") /\ HoldsFriendship(t, u, v, {"insert", "delete"})
      \/ at("decline_update") /\ HoldsRow(t, call[s].req)
      \/ at("block_friendship") /\ HoldsFriendship(t, u, v, {"delete"})
      \/ at("remove_delete") /\ HoldsFriendship(t, u, v, {"delete"})
      \/ at("block_requests") /\ HoldsOpenRow(t, u, v)
WaitsFor(s) == {t \in Sessions \ {s} : Busy(s) /\ Needs(s, t)}

\* s waits in a cycle of waiting sessions.
Deadlocked(s) ==
  \E C \in SUBSET Sessions :
     s \in C /\ \A c \in C : WaitsFor(c) \cap C # {}

-------------------------------------------------------------------------------
(* Steps of a call.                                                        *)

Begin(s, c, w) ==
  /\ ~Busy(s)
  /\ call' = [call EXCEPT ![s] = c]
  /\ writes' = [writes EXCEPT ![s] = w]
  /\ UNCHANGED tables

\* The next statement of s is at point, and nobody holds what it needs.
Ready(s, point) == call[s].pc = point /\ WaitsFor(s) = {}

Proceed(s, to, w) ==
  /\ call' = [call EXCEPT ![s].pc = to]
  /\ writes' = [writes EXCEPT ![s] = w]
  /\ UNCHANGED tables

\* The writes of s when its statement gives these rows this status.
WriteRows(s, rows, status) ==
  [rows |-> rows, status |-> status,
   friendship |-> writes[s].friendship, block |-> writes[s].block]

\* An exception, or a lost connection: the transaction leaves no trace.
Undo(s) ==
  /\ call' = [call EXCEPT ![s] = Idle]
  /\ writes' = [writes EXCEPT ![s] = NoWrites]
  /\ UNCHANGED tables

\* The next row number that no row and no INSERT under way has.
Numbers ==
  {r[3] : r \in {q \in Requests : friend_requests[q] # "none"}} \cup
  {call[t].req[3] : t \in {x \in Sessions : Busy(x) /\ call[x].req # NoRequest}}
Fresh(r) == r[3] \notin Numbers /\ 1..(r[3] - 1) \subseteq Numbers

\* Mutant: only the requester's own blocks are looked at.
SendCheckBlocks_OneWay(s, r) ==
  /\ Fresh(r)
  /\ <<r[1], r[2]>> \notin user_blocks
  /\ Begin(s, Call("send_friends", r[1], r[2], r), NoWrites)

SendCheckBlocks(s, r) ==
  /\ Fresh(r)
  /\ ~Blocked(r[1], r[2])
  /\ Begin(s, Call("send_friends", r[1], r[2], r), NoWrites)

RowsOf(u) == {r \in Requests : r[1] = u /\ friend_requests[r] \notin {"none", "deleted"}}

\* Mutant: the already_friends check is missing.
SendCheckFriendsAndRate_Unchecked(s) ==
  /\ Ready(s, "send_friends")
  /\ Proceed(s, "send_insert", writes[s])

\* Friends are refused, then a requester with RateLimit rows of the last minute.
\* The clock is abstracted: once there are that many rows it may go either way.
SendCheckFriendsAndRate(s) ==
  /\ Ready(s, "send_friends")
  /\ IF Friends(call[s].me, call[s].peer)
     THEN Undo(s)
     ELSE \/ Proceed(s, "send_insert", writes[s])
          \/ Cardinality(RowsOf(call[s].me)) >= RateLimit /\ Undo(s)

\* Mutant: a send that finds the pair taken is tried again.
SendInsert_Retry(s) ==
  /\ Ready(s, "send_insert")
  /\ IF OpenBetween(call[s].me, call[s].peer) # {}
     THEN Proceed(s, "send_friends", writes[s])
     ELSE Proceed(s, "commit", WriteRows(s, {call[s].req}, "pending"))

SendInsert(s) ==
  /\ Ready(s, "send_insert")
  /\ IF OpenBetween(call[s].me, call[s].peer) # {}
     THEN Undo(s)
     ELSE Proceed(s, "commit", WriteRows(s, {call[s].req}, "pending"))

\* Mutant: the request_not_pending check is missing.
AcceptRead_AnyStatus(s, r) ==
  /\ friend_requests[r] \notin {"none", "deleted"}
  /\ Begin(s, Call("accept_update", r[2], r[1], r), NoWrites)

AcceptRead(s, r) ==
  /\ friend_requests[r] = "pending"
  /\ Begin(s, Call("accept_update", r[2], r[1], r), NoWrites)

\* UPDATE ... WHERE id = p_request_id: the status is not checked again, and a
\* row deleted in between makes it an update of no row.
Answer(s, status) ==
  IF friend_requests[call[s].req] = "deleted" THEN writes[s]
  ELSE WriteRows(s, {call[s].req}, status)

AcceptUpdate(s) ==
  /\ Ready(s, "accept_update")
  /\ Proceed(s, "accept_insert", Answer(s, "accepted"))

AcceptInsertFriendship(s) ==      \* ... on conflict do nothing
  /\ Ready(s, "accept_insert")
  /\ Proceed(s, "commit",
             IF Friends(call[s].me, call[s].peer) THEN writes[s]
             ELSE [writes[s] EXCEPT !.friendship = "insert"])

DeclineRead(s, r, u) ==
  /\ friend_requests[r] = "pending"
  /\ u \in PairOf(r)
  /\ Begin(s, Call("decline_update", u, IF u = r[1] THEN r[2] ELSE r[1], r), NoWrites)

DeclineUpdate(s) ==
  /\ Ready(s, "decline_update")
  /\ Proceed(s, "commit",
             Answer(s, IF call[s].me = call[s].req[2] THEN "declined" ELSE "cancelled"))

UnfriendWrites(s) ==
  IF Friends(call[s].me, call[s].peer)
  THEN [writes[s] EXCEPT !.friendship = "delete"] ELSE writes[s]

BlockInsert(s, p) ==              \* ... on conflict do nothing
  /\ \A t \in Sessions \ {s} : ~HoldsBlock(t, p[1], p[2], {"insert", "delete"})
  /\ Begin(s, Call("block_friendship", p[1], p[2], NoRequest),
           [NoWrites EXCEPT !.block = IF p \in user_blocks THEN "keep" ELSE "insert"])

BlockDeleteFriendship(s) ==
  /\ Ready(s, "block_friendship")
  /\ Proceed(s, "block_requests", UnfriendWrites(s))

\* Mutant: only the requests the blocker sent are deleted.
BlockDeleteRequests_OwnOnly(s) ==
  /\ Ready(s, "block_requests")
  /\ Proceed(s, "commit",
             WriteRows(s, {r \in OpenBetween(call[s].me, call[s].peer) : r[1] = call[s].me},
                       "deleted"))

\* Mutant: the requests get a status that is not of the enum.
BlockDeleteRequests_BadStatus(s) ==
  /\ Ready(s, "block_requests")
  /\ Proceed(s, "commit",
             WriteRows(s, OpenBetween(call[s].me, call[s].peer), "blocked"))

BlockDeleteRequests(s) ==
  /\ Ready(s, "block_requests")
  /\ Proceed(s, "commit",
             WriteRows(s, OpenBetween(call[s].me, call[s].peer), "deleted"))

RemoveCheck(s, p) ==
  /\ Friends(p[1], p[2])
  /\ Begin(s, Call("remove_delete", p[1], p[2], NoRequest), NoWrites)

RemoveDelete(s) ==
  /\ Ready(s, "remove_delete")
  /\ Proceed(s, "commit", UnfriendWrites(s))

UnblockDelete(s, p) ==
  /\ p \in user_blocks
  /\ \A t \in Sessions \ {s} : ~HoldsBlock(t, p[1], p[2], {"delete"})
  /\ Begin(s, Call("commit", p[1], p[2], NoRequest), [NoWrites EXCEPT !.block = "delete"])

-------------------------------------------------------------------------------
(* End of a transaction.                                                   *)

Apply(set, elements, write) ==
  CASE write = "insert" -> set \cup elements
    [] write = "delete" -> set \ elements
    [] OTHER -> set

\* Mutant: the DELETE branch drops one direction only.
sync_friend_edges_HalfDelete(u, v, write) ==
  Apply(friend_edges, {<<u, v>>} \cup (IF write = "delete" THEN {} ELSE {<<v, u>>}), write)

\* The trigger runs inside the writing transaction, once per friendships row.
sync_friend_edges(u, v, write) == Apply(friend_edges, {<<u, v>>, <<v, u>>}, write)

Commit(s) ==
  LET u == call[s].me
      v == call[s].peer
      w == writes[s]
  IN  /\ call[s].pc = "commit"
      /\ friend_requests' = [r \in Requests |->
                               IF r \in w.rows THEN w.status ELSE friend_requests[r]]
      /\ friendships' = Apply(friendships, {Pair(u, v)}, w.friendship)
      /\ friend_edges' = sync_friend_edges(u, v, w.friendship)
      /\ user_blocks' = Apply(user_blocks, {<<u, v>>}, w.block)
      /\ call' = [call EXCEPT ![s] = Idle]
      /\ writes' = [writes EXCEPT ![s] = NoWrites]

Rollback(s) == Busy(s) /\ Undo(s)

DeadlockVictim(s) == Deadlocked(s) /\ Undo(s)

-------------------------------------------------------------------------------

Init ==
  /\ friend_requests = [r \in Requests |-> "none"]
  /\ friendships = {}
  /\ friend_edges = {}
  /\ user_blocks = {}
  /\ call = [s \in Sessions |-> Idle]
  /\ writes = [s \in Sessions |-> NoWrites]

Start(s) ==
  \/ \E r \in Requests : SendCheckBlocks(s, r)
  \/ \E r \in Requests : AcceptRead(s, r)
  \/ \E r \in Requests, u \in Users : DeclineRead(s, r, u)
  \/ \E p \in Ordered : BlockInsert(s, p)
  \/ \E p \in Ordered : RemoveCheck(s, p)
  \/ \E p \in Ordered : UnblockDelete(s, p)

Continue(s) ==
  \/ SendCheckFriendsAndRate(s)
  \/ SendInsert(s)
  \/ AcceptUpdate(s)
  \/ AcceptInsertFriendship(s)
  \/ DeclineUpdate(s)
  \/ BlockDeleteFriendship(s)
  \/ BlockDeleteRequests(s)
  \/ RemoveDelete(s)
  \/ Commit(s)

Next ==
  \E s \in Sessions :
     \/ Start(s)
     \/ Continue(s)
     \/ Rollback(s)
     \/ DeadlockVictim(s)

Spec == Init /\ [][Next]_vars

\* PostgreSQL queues the waiters of a lock, so a session is not overtaken for
\* ever (strong fairness), and its deadlock detector always runs.
Fairness ==
  \A s \in Sessions : SF_vars(Continue(s)) /\ WF_vars(DeadlockVictim(s))

-------------------------------------------------------------------------------
(* Properties.                                                             *)

\* The tables and the sessions hold values of their types.
TypeOK ==
  /\ friend_requests \in [Requests -> Status]
  /\ friendships \subseteq {Pair(p[1], p[2]) : p \in Ordered}
  /\ friend_edges \subseteq Ordered
  /\ user_blocks \subseteq Ordered
  /\ call \in [Sessions -> Calls]
  /\ writes \in [Sessions -> WriteSets]

\* At most one open request per unordered pair, whatever interleaving of sends
\* in both directions, answers and blocks (the index friend_requests_open_pair
\* against the reads send_friend_request does before its INSERT).
OneOpenRequestPerPair ==
  \A p \in Ordered : Cardinality(OpenBetween(p[1], p[2])) <= 1

\* The locks behind it. Two open requests of a pair are one; while an INSERT of
\* an open request is uncommitted, the pair has no committed open request and no
\* second INSERT under way.
OpenPairLocked ==
  /\ \A r, q \in Requests :
       /\ friend_requests[r] = "pending" /\ friend_requests[q] = "pending"
       /\ PairOf(r) = PairOf(q)
       => r = q
  /\ \A s \in Sessions : writes[s].status = "pending" =>
       \A r \in writes[s].rows :
          /\ r = call[s].req
          /\ \A q \in Requests : friend_requests[q] = "pending" => PairOf(q) # PairOf(r)
          /\ \A t \in Sessions \ {s} : writes[t].status = "pending" =>
               \A q \in writes[t].rows : PairOf(q) # PairOf(r)

\* friend_edges is friendships written twice, in every committed state
\* (sync_friend_edges; the pre-doubled mirror every search joins on).
EdgesMirrorFriendships ==
  friend_edges = {p \in Ordered : Friends(p[1], p[2])}

\* A block in either direction leaves the pair neither a friendship nor an open
\* request (block_user deletes both; send_friend_request refuses a blocked pair).
BlockSeparates ==
  \A p \in user_blocks :
     /\ ~Friends(p[1], p[2])
     /\ OpenBetween(p[1], p[2]) = {}

\* Friends have no open request between them (send_friend_request refuses
\* friends, accept_friend_request closes the request it accepts).
NoOpenRequestBetweenFriends ==
  \A p \in Ordered : Friends(p[1], p[2]) => OpenBetween(p[1], p[2]) = {}

\* An answered request keeps its answer: accept and decline change a request
\* only while it is pending.
AnsweredOnce ==
  [][\A r \in Requests :
       friend_requests[r] \in Answered => friend_requests'[r] = friend_requests[r]]_vars

\* Every call that started ends: no wait for a lock lasts for ever.
CallsEnd == \A s \in Sessions : Busy(s) ~> ~Busy(s)
===============================================================================
