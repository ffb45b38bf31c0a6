--------------------------- MODULE TrustGraph_proofs ---------------------------
(***************************************************************************)
(* Theorems about TrustGraph, for any users, sessions and bounds.          *)
(***************************************************************************)
EXTENDS TrustGraph, FiniteSetTheorems, TLAPS

-------------------------------------------------------------------------------
(* Type correctness.                                                       *)

\* Starting a call keeps the types.
LEMMA TypeBegin ==
  ASSUME TypeOK, NEW s \in Sessions, NEW c \in Calls, NEW w \in WriteSets,
         Begin(s, c, w)
  PROVE  TypeOK'
BY DEF TypeOK, Begin, tables, Ordered, Status, Requests, Pair

\* A call that has started is no idle session.
LEMMA Active ==
  ASSUME TypeOK, NEW s \in Sessions, call[s].pc # "idle"
  PROVE  /\ call[s] \in ActiveCalls
         /\ call[s].me \in Users /\ call[s].peer \in Users
         /\ call[s].me # call[s].peer
         /\ <<call[s].me, call[s].peer>> \in Ordered
         /\ call[s].req \in Requests => PairOf(call[s].req) = CallPair(s)
         /\ call[s].pc \in RowPoints => call[s].req \in Requests
         /\ writes[s] \in WriteSets
<1>1. call[s] \in ActiveCalls
  BY DEF TypeOK, Calls, Idle
<1>2. call[s].req \in Requests => call[s].req # NoRequest
  BY DEF Requests, NoRequest
<1> QED
  BY <1>1, <1>2 DEF TypeOK, ActiveCalls, Ordered, CallPair

\* The next statement of a call keeps the types.
LEMMA TypeProceed ==
  ASSUME TypeOK, NEW s \in Sessions, call[s].pc # "idle",
         NEW to \in Points, to \in RowPoints => call[s].pc \in RowPoints,
         NEW w \in WriteSets, Proceed(s, to, w)
  PROVE  TypeOK'
<1>1. call[s] \in ActiveCalls
  BY Active
<1>2. [call[s] EXCEPT !.pc = to] \in Calls
  BY <1>1 DEF Calls, ActiveCalls
<1>3. call' \in [Sessions -> Calls] /\ writes' \in [Sessions -> WriteSets]
  BY <1>2 DEF TypeOK, Proceed
<1> QED
  BY <1>3 DEF TypeOK, Proceed, tables

\* A rollback keeps the types.
LEMMA TypeUndo ==
  ASSUME TypeOK, NEW s \in Sessions, Undo(s)
  PROVE  TypeOK'
<1>1. Idle \in Calls /\ NoWrites \in WriteSets
  BY DEF Calls, NoWrites, WriteSets, Status
<1> QED
  BY <1>1 DEF TypeOK, Undo, tables, Ordered, Pair, Requests

\* Applying the writes of a transaction to the tables keeps the types.
LEMMA TypeCommit ==
  ASSUME TypeOK, NEW s \in Sessions, Commit(s)
  PROVE  TypeOK'
<1> DEFINE u == call[s].me
           v == call[s].peer
<1>1. /\ u \in Users /\ v \in Users /\ u # v /\ <<u, v>> \in Ordered
      /\ writes[s] \in WriteSets
  BY Active DEF Commit
<1>2. <<v, u>> \in Ordered
  BY <1>1 DEF Ordered
<1>3. friend_requests' \in [Requests -> Status]
  BY <1>1 DEF TypeOK, Commit, WriteSets
<1>4. Idle \in Calls /\ NoWrites \in WriteSets
  BY DEF Calls, NoWrites, WriteSets, Status
<1>5. call' \in [Sessions -> Calls] /\ writes' \in [Sessions -> WriteSets]
  BY <1>4 DEF TypeOK, Commit
<1>6. Pair(u, v) \in {Pair(p[1], p[2]) : p \in Ordered}
  <2>1. Pair(u, v) = Pair(<<u, v>>[1], <<u, v>>[2])
    OBVIOUS
  <2> QED
    BY <1>1, <2>1
<1>7. friendships' \subseteq {Pair(p[1], p[2]) : p \in Ordered}
  BY <1>6 DEF TypeOK, Commit, Apply
<1>8. friend_edges' \subseteq Ordered /\ user_blocks' \subseteq Ordered
  BY <1>1, <1>2 DEF TypeOK, Commit, Apply, sync_friend_edges
<1> QED
  BY <1>3, <1>5, <1>7, <1>8 DEF TypeOK

\* Every first statement starts a call of the right type.
LEMMA TypeStart ==
  ASSUME TypeOK, NEW s \in Sessions, Start(s)
  PROVE  TypeOK'
<1>1. NoWrites \in WriteSets /\ \A x \in {"keep", "insert", "delete"} :
                                  [NoWrites EXCEPT !.block = x] \in WriteSets
  BY DEF NoWrites, WriteSets, Status
<1>2. ASSUME NEW r \in Requests
      PROVE  /\ r[1] \in Users /\ r[2] \in Users /\ r[1] # r[2]
             /\ r # NoRequest
             /\ PairOf(r) = Pair(r[1], r[2]) /\ PairOf(r) = Pair(r[2], r[1])
  BY DEF Requests, NoRequest, PairOf, Pair
<1>3. ASSUME NEW r \in Requests, SendCheckBlocks(s, r)
      PROVE  TypeOK'
  <2>1. Call("send_friends", r[1], r[2], r) \in Calls
    BY <1>2 DEF Call, Calls, ActiveCalls, Points, RowPoints
  <2> QED
    BY <1>1, <1>3, <2>1, TypeBegin DEF SendCheckBlocks
<1>4. ASSUME NEW r \in Requests, AcceptRead(s, r)
      PROVE  TypeOK'
  <2>1. Call("accept_update", r[2], r[1], r) \in Calls
    BY <1>2 DEF Call, Calls, ActiveCalls, Points, RowPoints
  <2> QED
    BY <1>1, <1>4, <2>1, TypeBegin DEF AcceptRead
<1>5. ASSUME NEW r \in Requests, NEW u \in Users, DeclineRead(s, r, u)
      PROVE  TypeOK'
  <2>1. u = r[1] \/ u = r[2]
    BY <1>5 DEF DeclineRead, PairOf, Pair
  <2>2. Call("decline_update", u, IF u = r[1] THEN r[2] ELSE r[1], r) \in Calls
    BY <1>2, <2>1 DEF Call, Calls, ActiveCalls, Points, RowPoints
  <2> QED
    BY <1>1, <1>5, <2>2, TypeBegin DEF DeclineRead
<1>6. ASSUME NEW p \in Ordered, NEW pc \in Points \ RowPoints
      PROVE  Call(pc, p[1], p[2], NoRequest) \in Calls
  BY <1>6 DEF Call, Calls, ActiveCalls, Ordered, RowPoints
<1>7. {"block_friendship", "remove_delete", "commit"} \subseteq Points \ RowPoints
  BY DEF Points, RowPoints
<1>8. ASSUME NEW p \in Ordered, BlockInsert(s, p)
      PROVE  TypeOK'
  BY <1>1, <1>6, <1>7, <1>8, TypeBegin DEF BlockInsert
<1>9. ASSUME NEW p \in Ordered, RemoveCheck(s, p)
      PROVE  TypeOK'
  BY <1>1, <1>6, <1>7, <1>9, TypeBegin DEF RemoveCheck
<1>10. ASSUME NEW p \in Ordered, UnblockDelete(s, p)
       PROVE  TypeOK'
  BY <1>1, <1>6, <1>7, <1>10, TypeBegin DEF UnblockDelete
<1> QED
  BY <1>3, <1>4, <1>5, <1>8, <1>9, <1>10 DEF Start

\* Every further statement, and the commit, keeps the types.
LEMMA TypeContinue ==
  ASSUME TypeOK, NEW s \in Sessions, Continue(s)
  PROVE  TypeOK'
<1> DEFINE W == writes[s]
<1>1. ASSUME NEW point \in Points, Ready(s, point)
      PROVE  call[s].pc = point /\ call[s].pc # "idle"
  BY <1>1 DEF Ready, Points, RowPoints
<1>2. /\ "commit" \in Points \ RowPoints
      /\ "block_requests" \in Points \ RowPoints
      /\ "block_friendship" \in Points \ RowPoints
      /\ "remove_delete" \in Points \ RowPoints
      /\ "send_insert" \in RowPoints /\ "accept_insert" \in RowPoints
      /\ "send_friends" \in RowPoints /\ "accept_update" \in RowPoints
      /\ "decline_update" \in RowPoints
      /\ RowPoints \subseteq Points
  BY DEF Points, RowPoints
<1>3. W \in WriteSets
  BY DEF TypeOK
<1>4. ASSUME NEW rows \in SUBSET Requests, NEW status \in Status
      PROVE  WriteRows(s, rows, status) \in WriteSets
  BY <1>3 DEF WriteSets, WriteRows
<1>5. ASSUME NEW x \in {"keep", "insert", "delete"}
      PROVE  [W EXCEPT !.friendship = x] \in WriteSets
  BY <1>3 DEF WriteSets
<1>6. {"pending", "accepted", "declined", "cancelled", "deleted"} \subseteq Status
  BY DEF Status
<1>7. ASSUME NEW status \in {"accepted", "declined", "cancelled"}, call[s].req \in Requests
      PROVE  Answer(s, status) \in WriteSets
  BY <1>3, <1>4, <1>6, <1>7 DEF Answer
<1>8. UnfriendWrites(s) \in WriteSets
  BY <1>3, <1>5 DEF UnfriendWrites
<1>9. CASE SendCheckFriendsAndRate(s)
  BY <1>1, <1>2, <1>3, <1>9, TypeUndo, TypeProceed
     DEF SendCheckFriendsAndRate, Idle
<1>10. CASE SendInsert(s)
  <2>1. WriteRows(s, {call[s].req}, "pending") \in WriteSets
    BY <1>1, <1>2, <1>4, <1>6, <1>10, Active DEF SendInsert
  <2> QED
    BY <1>1, <1>2, <1>10, <2>1, TypeUndo, TypeProceed DEF SendInsert, Idle
<1>11. CASE AcceptUpdate(s)
  <2>1. Answer(s, "accepted") \in WriteSets
    BY <1>1, <1>2, <1>7, <1>11, Active DEF AcceptUpdate
  <2> QED
    BY <1>1, <1>2, <1>11, <2>1, TypeProceed DEF AcceptUpdate, Idle
<1>12. CASE AcceptInsertFriendship(s)
  BY <1>1, <1>2, <1>3, <1>5, <1>12, TypeProceed DEF AcceptInsertFriendship, Idle
<1>13. CASE DeclineUpdate(s)
  <2>1. Answer(s, IF call[s].me = call[s].req[2] THEN "declined" ELSE "cancelled")
          \in WriteSets
    BY <1>1, <1>2, <1>7, <1>13, Active DEF DeclineUpdate
  <2> QED
    BY <1>1, <1>2, <1>13, <2>1, TypeProceed DEF DeclineUpdate, Idle
<1>14. CASE BlockDeleteFriendship(s)
  BY <1>1, <1>2, <1>8, <1>14, TypeProceed DEF BlockDeleteFriendship, Idle
<1>15. CASE BlockDeleteRequests(s)
  <2>1. WriteRows(s, OpenBetween(call[s].me, call[s].peer), "deleted")
          \in WriteSets
    BY <1>4, <1>6 DEF OpenBetween
  <2> QED
    BY <1>1, <1>2, <1>15, <2>1, TypeProceed DEF BlockDeleteRequests, Idle
<1>16. CASE RemoveDelete(s)
  BY <1>1, <1>2, <1>8, <1>16, TypeProceed DEF RemoveDelete, Idle
<1>17. CASE Commit(s)
  BY <1>17, TypeCommit
<1> QED
  BY <1>9, <1>10, <1>11, <1>12, <1>13, <1>14, <1>15, <1>16, <1>17 DEF Continue

LEMMA TypeStep == TypeOK /\ [Next]_vars => TypeOK'
<1> SUFFICES ASSUME TypeOK, [Next]_vars PROVE TypeOK'
  OBVIOUS
<1>1. ASSUME NEW s \in Sessions, Start(s) \/ Continue(s) \/ Rollback(s) \/ DeadlockVictim(s)
      PROVE  TypeOK'
  BY <1>1, TypeStart, TypeContinue, TypeUndo DEF Rollback, DeadlockVictim
<1>2. CASE UNCHANGED vars
  BY <1>2 DEF vars, TypeOK
<1> QED
  BY <1>1, <1>2 DEF Next

LEMMA TypeInit == Init => TypeOK
BY DEF Init, TypeOK, Calls, NoWrites, WriteSets, Status

\* The tables, the calls and the uncommitted writes keep their types under
\* every interleaving of the calls' statements.
THEOREM TypeCorrect == Spec => []TypeOK
BY TypeInit, TypeStep, PTL DEF Spec
-------------------------------------------------------------------------------
(* The mirror of friendships in friend_edges.                              *)

LEMMA MirrorStep ==
  ASSUME TypeOK, EdgesMirrorFriendships, [Next]_vars
  PROVE  EdgesMirrorFriendships'
<1>1. ASSUME NEW s \in Sessions, Commit(s)
      PROVE  EdgesMirrorFriendships'
  <2> DEFINE u == call[s].me
             v == call[s].peer
  <2>1. <<u, v>> \in Ordered /\ <<v, u>> \in Ordered
    BY <1>1, Active DEF Commit, Ordered
  <2>2. ASSUME NEW p \in Ordered
        PROVE  Pair(p[1], p[2]) = Pair(u, v) <=> p \in {<<u, v>>, <<v, u>>}
    BY DEF Ordered, Pair
  <2>3. CASE writes[s].friendship = "insert"
    <3>1. /\ friendships' = friendships \cup {Pair(u, v)}
          /\ friend_edges' = friend_edges \cup {<<u, v>>, <<v, u>>}
      BY <1>1, <2>3 DEF Commit, Apply, sync_friend_edges
    <3> QED
      BY <2>1, <2>2, <3>1 DEF EdgesMirrorFriendships, Friends
  <2>4. CASE writes[s].friendship = "delete"
    <3>1. /\ friendships' = friendships \ {Pair(u, v)}
          /\ friend_edges' = friend_edges \ {<<u, v>>, <<v, u>>}
      BY <1>1, <2>4 DEF Commit, Apply, sync_friend_edges
    <3> QED
      BY <2>1, <2>2, <3>1 DEF EdgesMirrorFriendships, Friends
  <2>5. CASE writes[s].friendship \notin {"insert", "delete"}
    BY <1>1, <2>5 DEF Commit, Apply, sync_friend_edges, EdgesMirrorFriendships, Friends
  <2> QED
    BY <2>3, <2>4, <2>5
<1>2. CASE UNCHANGED <<friendships, friend_edges>>
  BY <1>2 DEF EdgesMirrorFriendships, Friends
<1>3. ASSUME NEW s \in Sessions, Start(s) \/ Continue(s) \/ Rollback(s) \/ DeadlockVictim(s)
      PROVE  Commit(s) \/ UNCHANGED <<friendships, friend_edges>>
  BY <1>3 DEF Start, Continue, Rollback, DeadlockVictim, Undo, Proceed, Begin, tables,
       SendCheckBlocks, AcceptRead, DeclineRead, BlockInsert, RemoveCheck, UnblockDelete,
       SendCheckFriendsAndRate, SendInsert, AcceptUpdate, AcceptInsertFriendship,
       DeclineUpdate, BlockDeleteFriendship, BlockDeleteRequests, RemoveDelete
<1> QED
  BY <1>1, <1>2, <1>3 DEF Next, vars

\* friend_edges is the symmetric double of friendships in every committed
\* state, whatever calls of any sessions interleave (sync_friend_edges).
THEOREM EdgesMirror == Spec => []EdgesMirrorFriendships
<1>1. Init => EdgesMirrorFriendships
  BY DEF Init, EdgesMirrorFriendships, Friends
<1>2. TypeOK /\ EdgesMirrorFriendships /\ [Next]_vars => EdgesMirrorFriendships'
  BY MirrorStep
<1> QED
  BY <1>1, <1>2, TypeCorrect, PTL DEF Spec
-------------------------------------------------------------------------------
(* At most one open request per pair.                                      *)

\* A step that leaves the tables alone and makes the session write no open
\* request (or what it already wrote) keeps the locks.
LEMMA OpenPairOther ==
  ASSUME TypeOK, OpenPairLocked, NEW s \in Sessions, UNCHANGED tables,
         \A t \in Sessions \ {s} : call'[t] = call[t] /\ writes'[t] = writes[t],
         writes'[s].status = "pending" =>
           writes[s].status = "pending" /\ writes'[s].rows = writes[s].rows
             /\ call'[s].req = call[s].req
  PROVE  OpenPairLocked'
<1>1. ASSUME NEW t \in Sessions, writes'[t].status = "pending"
      PROVE  /\ writes[t].status = "pending" /\ writes'[t].rows = writes[t].rows
             /\ call'[t].req = call[t].req
  BY <1>1
<1> QED
  BY <1>1 DEF OpenPairLocked, tables

\* The unique index: the INSERT waits for every session that holds the pair.
LEMMA OpenPairInsert ==
  ASSUME TypeOK, OpenPairLocked, NEW s \in Sessions, SendInsert(s)
  PROVE  OpenPairLocked'
<1> DEFINE r == call[s].req
<1>1. CASE Undo(s)
  BY <1>1, OpenPairOther DEF Undo, NoWrites, TypeOK
<1>2. CASE ~Undo(s)
  <2>1. /\ Ready(s, "send_insert")
        /\ OpenBetween(call[s].me, call[s].peer) = {}
        /\ Proceed(s, "commit", WriteRows(s, {r}, "pending"))
    BY <1>2 DEF SendInsert
  <2>2. /\ call[s].pc = "send_insert" /\ WaitsFor(s) = {} /\ Busy(s)
    BY <2>1 DEF Ready, Busy
  <2>3. r \in Requests /\ PairOf(r) = CallPair(s) /\ writes[s] \in WriteSets
    BY <2>2, Active DEF Busy, RowPoints
  <2>4. \A q \in Requests : friend_requests[q] = "pending" => PairOf(q) # PairOf(r)
    BY <2>1, <2>3 DEF OpenBetween, CallPair
  <2>5. ASSUME NEW t \in Sessions \ {s}
        PROVE  ~HoldsOpenPair(t, call[s].me, call[s].peer)
    BY <2>2 DEF WaitsFor, Needs
  <2>6. ASSUME NEW t \in Sessions \ {s}, writes[t].status = "pending",
               NEW q \in writes[t].rows
        PROVE  PairOf(q) # PairOf(r)
    BY <2>3, <2>5, <2>6 DEF HoldsOpenPair, CallPair
  <2>7. /\ writes'[s].rows = {r} /\ call'[s].req = r
        /\ \A t \in Sessions \ {s} : writes'[t] = writes[t] /\ call'[t] = call[t]
        /\ friend_requests' = friend_requests
    <3>1. writes[s].rows \in SUBSET Requests
      BY <2>3 DEF WriteSets
    <3>2. call[s] \in ActiveCalls
      BY <2>2, Active DEF Busy
    <3> QED
      BY <2>1, <2>3, <3>2 DEF Proceed, WriteRows, tables, TypeOK, WriteSets, ActiveCalls
  <2> QED
    BY <2>4, <2>6, <2>7 DEF OpenPairLocked
<1> QED
  BY <1>1, <1>2

\* A commit publishes at most the one open request its session inserted.
LEMMA OpenPairCommit ==
  ASSUME TypeOK, OpenPairLocked, NEW s \in Sessions, Commit(s)
  PROVE  OpenPairLocked'
<1> DEFINE w == writes[s]
<1>1. /\ \A q \in Requests : friend_requests'[q] =
           IF q \in w.rows THEN w.status ELSE friend_requests[q]
      /\ writes'[s] = NoWrites
      /\ \A t \in Sessions \ {s} : writes'[t] = writes[t] /\ call'[t] = call[t]
  BY DEF Commit, TypeOK
<1>2. w.rows \subseteq Requests
  BY DEF TypeOK, WriteSets
<1>3. ASSUME NEW q \in Requests, friend_requests'[q] = "pending"
      PROVE  \/ q \in w.rows /\ w.status = "pending"
             \/ friend_requests[q] = "pending"
  BY <1>1, <1>3
<1>4. ASSUME NEW q \in Requests, NEW r \in Requests, PairOf(q) = PairOf(r),
             friend_requests'[q] = "pending", friend_requests'[r] = "pending"
      PROVE  q = r
  BY <1>2, <1>3, <1>4 DEF OpenPairLocked
<1>5. ASSUME NEW t \in Sessions, writes'[t].status = "pending",
             NEW r \in writes'[t].rows
      PROVE  /\ r = call'[t].req
             /\ \A q \in Requests : friend_requests'[q] = "pending" => PairOf(q) # PairOf(r)
             /\ \A x \in Sessions \ {t} : writes'[x].status = "pending" =>
                  \A q \in writes'[x].rows : PairOf(q) # PairOf(r)
  <2>1. t # s /\ writes'[t] = writes[t] /\ call'[t] = call[t]
    BY <1>1, <1>5 DEF NoWrites
  <2>2. r = call[t].req
        /\ (\A q \in Requests : friend_requests[q] = "pending" => PairOf(q) # PairOf(r))
        /\ (\A x \in Sessions \ {t} : writes[x].status = "pending" =>
              \A q \in writes[x].rows : PairOf(q) # PairOf(r))
    BY <1>5, <2>1 DEF OpenPairLocked
  <2>3. \A q \in Requests : friend_requests'[q] = "pending" => PairOf(q) # PairOf(r)
    BY <1>3, <2>1, <2>2
  <2>4. \A x \in Sessions \ {t} : writes'[x].status = "pending" =>
          writes'[x] = writes[x]
    BY <1>1 DEF NoWrites
  <2> QED
    BY <2>1, <2>2, <2>3, <2>4
<1> QED
  BY <1>4, <1>5 DEF OpenPairLocked

LEMMA OpenPairStep ==
  ASSUME TypeOK, OpenPairLocked, [Next]_vars
  PROVE  OpenPairLocked'
<1>1. ASSUME NEW s \in Sessions, Begin(s, call'[s], NoWrites)
      PROVE  OpenPairLocked'
  BY <1>1, OpenPairOther DEF Begin, NoWrites, TypeOK
<1>2. ASSUME NEW s \in Sessions, NEW x \in {"keep", "insert", "delete"},
             Begin(s, call'[s], [NoWrites EXCEPT !.block = x])
      PROVE  OpenPairLocked'
  BY <1>2, OpenPairOther DEF Begin, NoWrites, TypeOK
<1>3. ASSUME NEW s \in Sessions, Undo(s)
      PROVE  OpenPairLocked'
  BY <1>3, OpenPairOther DEF Undo, NoWrites, TypeOK
<1>4. ASSUME NEW s \in Sessions, NEW to, NEW w, Proceed(s, to, w), call[s].pc # "idle",
             w.status = "pending" => w.status = writes[s].status /\ w.rows = writes[s].rows
      PROVE  OpenPairLocked'
  <2>1. call[s] \in ActiveCalls
    BY <1>4, Active
  <2>2. call'[s].req = call[s].req /\ writes'[s] = w
    BY <1>4, <2>1 DEF Proceed, ActiveCalls, TypeOK
  <2> QED
    BY <1>4, <2>2, OpenPairOther DEF Proceed, TypeOK
<1>5. ASSUME NEW s \in Sessions, Start(s)
      PROVE  OpenPairLocked'
  <2>1. ASSUME NEW c, NEW w, Begin(s, c, w)
        PROVE  Begin(s, call'[s], w)
    BY <2>1 DEF Begin, TypeOK
  <2>2. ASSUME NEW p \in Ordered, BlockInsert(s, p)
        PROVE  OpenPairLocked'
    BY <1>2, <2>1, <2>2 DEF BlockInsert
  <2>3. ASSUME NEW p \in Ordered, UnblockDelete(s, p)
        PROVE  OpenPairLocked'
    BY <1>2, <2>1, <2>3 DEF UnblockDelete
  <2> QED
    BY <1>1, <1>5, <2>1, <2>2, <2>3
       DEF Start, SendCheckBlocks, AcceptRead, DeclineRead, RemoveCheck
<1>6. ASSUME NEW s \in Sessions, Continue(s)
      PROVE  OpenPairLocked'
  <2>1. ASSUME NEW point, Ready(s, point), point # "idle"
        PROVE  call[s].pc # "idle"
    BY <2>1 DEF Ready
  <2>2. writes[s] \in WriteSets
    BY DEF TypeOK
  <2>3. ASSUME NEW status, status # "pending",
               Answer(s, status).status = "pending"
        PROVE  Answer(s, status) = writes[s]
    BY <2>2, <2>3 DEF Answer, WriteRows, WriteSets
  <2>4. CASE SendCheckFriendsAndRate(s)
    BY <1>3, <1>4, <2>1, <2>4 DEF SendCheckFriendsAndRate
  <2>5. CASE AcceptUpdate(s)
    BY <1>4, <2>1, <2>3, <2>5 DEF AcceptUpdate
  <2>6. CASE AcceptInsertFriendship(s)
    <3>1. /\ [writes[s] EXCEPT !.friendship = "insert"].status = writes[s].status
          /\ [writes[s] EXCEPT !.friendship = "insert"].rows = writes[s].rows
      BY <2>2 DEF WriteSets
    <3> QED
      BY <1>4, <2>1, <2>6, <3>1 DEF AcceptInsertFriendship
  <2>7. CASE DeclineUpdate(s)
    BY <1>4, <2>1, <2>3, <2>7 DEF DeclineUpdate
  <2>8. UnfriendWrites(s).status = writes[s].status /\ UnfriendWrites(s).rows = writes[s].rows
    BY <2>2 DEF UnfriendWrites, WriteSets
  <2>9. CASE BlockDeleteFriendship(s)
    BY <1>4, <2>1, <2>8, <2>9 DEF BlockDeleteFriendship
  <2>10. CASE BlockDeleteRequests(s)
    <3> DEFINE w == WriteRows(s, OpenBetween(call[s].me, call[s].peer), "deleted")
    <3>1. w.status = "deleted"
      BY DEF WriteRows
    <3>2. Ready(s, "block_requests") /\ Proceed(s, "commit", w)
      BY <2>10 DEF BlockDeleteRequests
    <3> HIDE DEF w
    <3> QED
      BY <1>4, <2>1, <3>1, <3>2
  <2>11. CASE RemoveDelete(s)
    BY <1>4, <2>1, <2>8, <2>11 DEF RemoveDelete
  <2> QED
    BY <1>6, <2>4, <2>5, <2>6, <2>7, <2>9, <2>10, <2>11, OpenPairInsert, OpenPairCommit
       DEF Continue
<1>7. CASE UNCHANGED vars
  BY <1>7 DEF vars, OpenPairLocked
<1> QED
  BY <1>3, <1>5, <1>6, <1>7 DEF Next, Rollback, DeadlockVictim

\* A requester and an addressee never have two open requests between them, in
\* whichever direction, under every interleaving (friend_requests_open_pair).
THEOREM OneOpenRequest == Spec => []OneOpenRequestPerPair
<1>1. Init => OpenPairLocked
  BY DEF Init, OpenPairLocked, NoWrites
<1>2. TypeOK /\ OpenPairLocked /\ [Next]_vars => OpenPairLocked'
  BY OpenPairStep
<1>3. OpenPairLocked => OneOpenRequestPerPair
  <2> SUFFICES ASSUME OpenPairLocked, NEW p \in Ordered
               PROVE  Cardinality(OpenBetween(p[1], p[2])) <= 1
    BY DEF OneOpenRequestPerPair
  <2> DEFINE S == OpenBetween(p[1], p[2])
  <2>1. \A r, q \in S : r = q
    BY DEF OpenPairLocked, OpenBetween
  <2>2. S = {} \/ \E r : S = {r}
    BY <2>1
  <2> QED
    BY <2>2, FS_EmptySet, FS_Singleton
<1> QED
  BY <1>1, <1>2, <1>3, TypeCorrect, PTL DEF Spec

===============================================================================
