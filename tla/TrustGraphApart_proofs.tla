------------------------ MODULE TrustGraphApart_proofs ------------------------
(***************************************************************************)
(* Theorems about TrustGraphApart, for any users, sessions and bounds.     *)
(***************************************************************************)
EXTENDS TrustGraphApart, TrustGraph_proofs

LEMMA PairSymmetric ==
  ASSUME NEW p \in Ordered, NEW u, NEW v
  PROVE  Pair(p[1], p[2]) = Pair(u, v) <=> p \in {<<u, v>>, <<v, u>>}
BY DEF Ordered, Pair

\* The tables say the same about one pair before and after the step.
Same(P) ==
  /\ \A r \in Requests : PairOf(r) = P => friend_requests'[r] = friend_requests[r]
  /\ P \in friendships' <=> P \in friendships
  /\ \A p \in Ordered : Pair(p[1], p[2]) = P => (p \in user_blocks' <=> p \in user_blocks)

\* A call is where it was when nobody touched its pair.
LEMMA ProgressFrame ==
  ASSUME TypeOK, NEW t \in Sessions, Progress(t),
         call'[t] = call[t], writes'[t] = writes[t],
         Busy(t) => Same(CallPair(t))
  PROVE  Progress(t)'
<1>1. CASE call[t].pc = "idle"
  BY <1>1 DEF Progress
<1>2. CASE call[t].pc # "idle"
  <2> DEFINE u == call[t].me
             v == call[t].peer
             r == call[t].req
  <2>1. /\ <<u, v>> \in Ordered /\ <<v, u>> \in Ordered
        /\ r \in Requests => PairOf(r) = Pair(u, v)
        /\ call[t].pc \in RowPoints => r \in Requests
    BY <1>2, Active DEF CallPair, Ordered
  <2>2. Same(Pair(u, v))
    BY <1>2 DEF Busy, CallPair
  <2>3. (Friends(u, v))' <=> Friends(u, v)
    BY <2>2 DEF Friends, Same
  <2>4. /\ <<u, v>> \in user_blocks' <=> <<u, v>> \in user_blocks
        /\ <<v, u>> \in user_blocks' <=> <<v, u>> \in user_blocks
    BY <2>1, <2>2, PairSymmetric DEF Same
  <2>5. r \in Requests => friend_requests'[r] = friend_requests[r]
    BY <2>1, <2>2 DEF Same
  <2>6. OpenBetween(u, v)' = OpenBetween(u, v)
    BY <2>2 DEF OpenBetween, Same
  <2>7. (Blocked(u, v))' <=> Blocked(u, v)
    BY <2>4 DEF Blocked
  <2>8. Effect(t) => Effect(t)'
    BY <2>3, <2>4, <2>5, <2>6, <2>7
       DEF Effect, Inviting, Answering, Blocking, Removing, Unblocking, BlockWrite, UnfriendWrite
  <2>9. (BlockWrite(t))' = BlockWrite(t) /\ (UnfriendWrite(t))' = UnfriendWrite(t)
    BY <2>3, <2>4 DEF BlockWrite, UnfriendWrite
  <2>10. call[t].pc \in RowPoints => friend_requests'[r] = friend_requests[r]
    BY <2>1, <2>5
  <2> QED
    BY <1>2, <2>3, <2>7, <2>8, <2>9, <2>10 DEF Progress, RowPoints
<1> QED
  BY <1>1, <1>2

\* A commit changes nothing of another pair.
LEMMA CommitLocal ==
  ASSUME TypeOK, NEW s \in Sessions, Progress(s), Commit(s), NEW P, P # CallPair(s)
  PROVE  Same(P)
<1> DEFINE u == call[s].me
           v == call[s].peer
<1>1. call[s].pc = "commit" /\ Effect(s)
  BY DEF Commit, Progress
<1>2. /\ <<u, v>> \in Ordered /\ Pair(u, v) # P
      /\ call[s].req \in Requests => PairOf(call[s].req) = Pair(u, v)
  BY <1>1, Active DEF CallPair
<1>3. \A r \in writes[s].rows : PairOf(r) = Pair(u, v)
  BY <1>1, <1>2 DEF Effect, Inviting, Answering, Blocking, Removing, Unblocking, Written,
                    OpenBetween
<1>4. \A r \in Requests : PairOf(r) = P => friend_requests'[r] = friend_requests[r]
  BY <1>2, <1>3 DEF Commit
<1>5. P \in friendships' <=> P \in friendships
  BY <1>2 DEF Commit, Apply
<1>6. \A p \in Ordered : Pair(p[1], p[2]) = P => (p \in user_blocks' <=> p \in user_blocks)
  BY <1>2 DEF Commit, Apply
<1> QED
  BY <1>4, <1>5, <1>6 DEF Same

\* The first statement of a call.
LEMMA ProgressStart ==
  ASSUME TypeOK, NEW s \in Sessions, Start(s)
  PROVE  Progress(s)' /\ UNCHANGED tables
<1>1. ASSUME NEW c, NEW w, Begin(s, c, w)
      PROVE  call'[s] = c /\ writes'[s] = w /\ UNCHANGED tables
  BY <1>1 DEF Begin, TypeOK
<1>2. ASSUME NEW r \in Requests, SendCheckBlocks(s, r)
      PROVE  Progress(s)' /\ UNCHANGED tables
  <2>1. friend_requests[r] = "none"
    BY <1>2 DEF SendCheckBlocks, Fresh, Numbers
  <2> QED
    BY <1>1, <1>2, <2>1 DEF SendCheckBlocks, Call, Progress, tables, Blocked
<1>3. ASSUME NEW r \in Requests, AcceptRead(s, r)
      PROVE  Progress(s)' /\ UNCHANGED tables
  BY <1>1, <1>3 DEF AcceptRead, Call, Progress, tables
<1>4. ASSUME NEW r \in Requests, NEW u \in Users, DeclineRead(s, r, u)
      PROVE  Progress(s)' /\ UNCHANGED tables
  BY <1>1, <1>4 DEF DeclineRead, Call, Progress, tables
<1>5. ASSUME NEW p \in Ordered
      PROVE  <<p[1], p[2]>> = p
  BY DEF Ordered
<1>6. ASSUME NEW p \in Ordered, BlockInsert(s, p)
      PROVE  Progress(s)' /\ UNCHANGED tables
  BY <1>1, <1>5, <1>6 DEF BlockInsert, Call, Progress, tables, NoWrites, Written, BlockWrite
<1>7. ASSUME NEW p \in Ordered, RemoveCheck(s, p)
      PROVE  Progress(s)' /\ UNCHANGED tables
  BY <1>1, <1>7 DEF RemoveCheck, Call, Progress, tables, Friends
<1>8. ASSUME NEW p \in Ordered, UnblockDelete(s, p)
      PROVE  Progress(s)' /\ UNCHANGED tables
  <2>1. /\ call'[s].pc = "commit" /\ <<call'[s].me, call'[s].peer>> = p
        /\ writes'[s] = [NoWrites EXCEPT !.block = "delete"]
        /\ UNCHANGED tables /\ p \in user_blocks
    BY <1>1, <1>5, <1>8 DEF UnblockDelete, Call
  <2>2. Unblocking(s)'
    BY <2>1 DEF Unblocking, tables, NoWrites, Written
  <2> QED
    BY <2>1, <2>2 DEF Progress, Effect
<1> QED
  BY <1>2, <1>3, <1>4, <1>6, <1>7, <1>8 DEF Start

LEMMA ProgressUndo ==
  ASSUME TypeOK, NEW s \in Sessions, Undo(s)
  PROVE  Progress(s)' /\ UNCHANGED tables
BY DEF TypeOK, Undo, Progress, Idle

\* Every further statement but the commit.
LEMMA ProgressContinue ==
  ASSUME TypeOK, NoOpenRequestBetweenFriends, NEW s \in Sessions, Progress(s),
         Continue(s), ~Commit(s)
  PROVE  Progress(s)' /\ UNCHANGED tables
<1> DEFINE u == call[s].me
           v == call[s].peer
           r == call[s].req
<1>1. ASSUME NEW point, Ready(s, point), point # "idle", NEW to, NEW w, Proceed(s, to, w)
      PROVE  /\ call[s].pc = point /\ call'[s].pc = to /\ writes'[s] = w
             /\ call'[s].me = u /\ call'[s].peer = v /\ call'[s].req = r
             /\ UNCHANGED tables
  <2>1. call[s] \in ActiveCalls
    BY <1>1, Active DEF Ready
  <2> QED
    BY <1>1, <2>1 DEF Ready, Proceed, TypeOK, ActiveCalls
<1>2. CASE SendCheckFriendsAndRate(s)
  <2>1. CASE Undo(s)
    BY <2>1, ProgressUndo
  <2>2. CASE ~Friends(u, v) /\ Proceed(s, "send_insert", writes[s])
    BY <1>1, <1>2, <2>2 DEF SendCheckFriendsAndRate, Progress, tables, Friends, Blocked
  <2> QED
    BY <1>2, <2>1, <2>2 DEF SendCheckFriendsAndRate
<1>3. CASE SendInsert(s)
  <2>1. CASE Undo(s)
    BY <2>1, ProgressUndo
  <2> DEFINE w == WriteRows(s, {r}, "pending")
  <2>2. CASE OpenBetween(u, v) = {} /\ Proceed(s, "commit", w)
    <3>1. call[s].pc = "send_insert"
      BY <1>3 DEF SendInsert, Ready
    <3>2. /\ r \in Requests /\ r[1] = u /\ r[2] = v
          /\ ~Blocked(u, v) /\ ~Friends(u, v)
          /\ friend_requests[r] = "none" /\ writes[s] = NoWrites
      BY <3>1, Active DEF Progress, RowPoints
    <3>3. w = Written({r}, "pending", "keep", "keep")
      BY <3>2 DEF NoWrites, Written, WriteRows
    <3>4. /\ call'[s].pc = "commit" /\ writes'[s] = w
          /\ call'[s].me = u /\ call'[s].peer = v /\ call'[s].req = r
          /\ UNCHANGED tables
      BY <1>1, <1>3, <2>2 DEF SendInsert
    <3>5. Inviting(s)'
      BY <2>2, <3>2, <3>3, <3>4 DEF Inviting, Blocked, Friends, OpenBetween, tables
    <3> QED
      BY <3>4, <3>5 DEF Progress, Effect
  <2> QED
    BY <1>3, <2>1, <2>2 DEF SendInsert
<1>4. CASE AcceptUpdate(s)
  <2>1. /\ call[s].pc = "accept_update"
        /\ friend_requests[r] = "pending" /\ writes[s] = NoWrites
    BY <1>4 DEF AcceptUpdate, Ready, Progress
  <2>2. Answer(s, "accepted") = Written({r}, "accepted", "keep", "keep")
    BY <2>1 DEF Answer, NoWrites, Written, WriteRows
  <2> QED
    BY <1>1, <1>4, <2>1, <2>2 DEF AcceptUpdate, Progress, tables
<1>5. CASE AcceptInsertFriendship(s)
  <2>1. /\ call[s].pc = "accept_insert"
        /\ friend_requests[r] = "pending"
        /\ writes[s] = Written({r}, "accepted", "keep", "keep")
    BY <1>5 DEF AcceptInsertFriendship, Ready, Progress
  <2>2. r \in Requests /\ PairOf(r) = Pair(u, v) /\ <<u, v>> \in Ordered
    BY <2>1, Active DEF RowPoints, CallPair
  <2>3. ~Friends(u, v)
    BY <2>1, <2>2 DEF NoOpenRequestBetweenFriends, OpenBetween
  <2>4. [writes[s] EXCEPT !.friendship = "insert"] = Written({r}, "accepted", "insert", "keep")
    BY <2>1 DEF Written
  <2>5. /\ call'[s].pc = "commit" /\ call'[s].req = r /\ UNCHANGED tables
        /\ writes'[s] = Written({r}, "accepted", "insert", "keep")
    BY <1>1, <1>5, <2>3, <2>4 DEF AcceptInsertFriendship
  <2>6. Answering(s, "accepted", "insert")'
    BY <2>1, <2>2, <2>5 DEF Answering, tables
  <2> QED
    BY <2>5, <2>6 DEF Progress, Effect
<1>6. CASE DeclineUpdate(s)
  <2> DEFINE status == IF u = r[2] THEN "declined" ELSE "cancelled"
  <2>1. /\ call[s].pc = "decline_update"
        /\ friend_requests[r] = "pending" /\ writes[s] = NoWrites
    BY <1>6 DEF DeclineUpdate, Ready, Progress
  <2>2. r \in Requests
    BY <2>1, Active DEF RowPoints
  <2>3. Answer(s, status) = Written({r}, status, "keep", "keep")
    BY <2>1 DEF Answer, NoWrites, Written, WriteRows
  <2>4. /\ call'[s].pc = "commit" /\ call'[s].req = r /\ UNCHANGED tables
        /\ writes'[s] = Written({r}, status, "keep", "keep")
    BY <1>1, <1>6, <2>3 DEF DeclineUpdate
  <2>5. Answering(s, "declined", "keep")' \/ Answering(s, "cancelled", "keep")'
    BY <2>1, <2>2, <2>4 DEF Answering, tables
  <2> QED
    BY <2>4, <2>5 DEF Progress, Effect
<1>7. CASE BlockDeleteFriendship(s)
  <2>1. /\ call[s].pc = "block_friendship"
        /\ writes[s] = Written({}, "none", "keep", BlockWrite(s))
    BY <1>7 DEF BlockDeleteFriendship, Ready, Progress
  <2>2. UnfriendWrites(s) = Written({}, "none", UnfriendWrite(s), BlockWrite(s))
    BY <2>1 DEF UnfriendWrites, UnfriendWrite, Written
  <2>3. /\ call'[s].pc = "block_requests" /\ writes'[s] = UnfriendWrites(s)
        /\ call'[s].me = u /\ call'[s].peer = v /\ UNCHANGED tables
    BY <1>1, <1>7 DEF BlockDeleteFriendship
  <2>4. (UnfriendWrite(s))' = UnfriendWrite(s) /\ (BlockWrite(s))' = BlockWrite(s)
    BY <2>3 DEF UnfriendWrite, BlockWrite, Friends, tables
  <2> QED
    BY <2>2, <2>3, <2>4 DEF Progress
<1>8. CASE BlockDeleteRequests(s)
  <2> DEFINE w == WriteRows(s, OpenBetween(u, v), "deleted")
  <2>1. /\ call[s].pc = "block_requests"
        /\ writes[s] = Written({}, "none", UnfriendWrite(s), BlockWrite(s))
    BY <1>8 DEF BlockDeleteRequests, Ready, Progress
  <2>2. w = Written(OpenBetween(u, v), "deleted", UnfriendWrite(s), BlockWrite(s))
    BY <2>1 DEF Written, WriteRows
  <2>3. /\ call'[s].pc = "commit" /\ writes'[s] = w
        /\ call'[s].me = u /\ call'[s].peer = v /\ UNCHANGED tables
    BY <1>1, <1>8 DEF BlockDeleteRequests
  <2>4. /\ (UnfriendWrite(s))' = UnfriendWrite(s) /\ (BlockWrite(s))' = BlockWrite(s)
        /\ OpenBetween(u, v)' = OpenBetween(u, v)
    BY <2>3 DEF UnfriendWrite, BlockWrite, OpenBetween, Friends, tables
  <2>5. Blocking(s)'
    BY <2>2, <2>3, <2>4 DEF Blocking
  <2> QED
    BY <2>3, <2>5 DEF Progress, Effect
<1>9. CASE RemoveDelete(s)
  <2>1. call[s].pc = "remove_delete" /\ Friends(u, v) /\ writes[s] = NoWrites
    BY <1>9 DEF RemoveDelete, Ready, Progress
  <2>2. UnfriendWrites(s) = Written({}, "none", "delete", "keep")
    BY <2>1 DEF UnfriendWrites, Written, NoWrites
  <2>3. /\ call'[s].pc = "commit" /\ writes'[s] = UnfriendWrites(s)
        /\ call'[s].me = u /\ call'[s].peer = v /\ UNCHANGED tables
    BY <1>1, <1>9 DEF RemoveDelete
  <2>4. Removing(s)'
    BY <2>1, <2>2, <2>3 DEF Removing, Friends, tables
  <2> QED
    BY <2>3, <2>4 DEF Progress, Effect
<1> QED
  BY <1>2, <1>3, <1>4, <1>5, <1>6, <1>7, <1>8, <1>9 DEF Continue

\* What a commit makes of the pair of its call.
LEMMA CommitOwnPair ==
  ASSUME TypeOK, OpenPairLocked, BlockSeparates, NoOpenRequestBetweenFriends,
         NEW s \in Sessions, Progress(s), Commit(s),
         NEW u, u = call[s].me, NEW v, v = call[s].peer
  PROVE  /\ Friends(u, v)' => OpenBetween(u, v)' = {}
         /\ Blocked(u, v)' => ~Friends(u, v)' /\ OpenBetween(u, v)' = {}
<1> DEFINE r == call[s].req
           w == writes[s]
<1>1. call[s].pc = "commit" /\ Effect(s)
  BY DEF Commit, Progress
<1>2. /\ <<u, v>> \in Ordered /\ <<v, u>> \in Ordered
      /\ r \in Requests => PairOf(r) = Pair(u, v)
  BY <1>1, Active DEF CallPair, Ordered
<1>3. /\ OpenBetween(u, v)' = {q \in Requests : PairOf(q) = Pair(u, v)
             /\ (IF q \in w.rows THEN w.status ELSE friend_requests[q]) = "pending"}
      /\ Friends(u, v)' <=> \/ w.friendship = "insert"
                            \/ w.friendship # "delete" /\ Friends(u, v)
      /\ Blocked(u, v)' => w.block = "insert" \/ Blocked(u, v)
  BY DEF Commit, OpenBetween, Friends, Blocked, Apply
<1>4. Pair(v, u) = Pair(u, v)
  BY DEF Pair
<1>5. /\ Blocked(u, v) => ~Friends(u, v) /\ OpenBetween(u, v) = {}
      /\ Friends(u, v) => OpenBetween(u, v) = {}
  BY <1>2, <1>4 DEF Blocked, BlockSeparates, NoOpenRequestBetweenFriends, Friends, OpenBetween
<1>6. CASE Inviting(s)
  BY <1>3, <1>6 DEF Inviting, Written
<1>7. ASSUME NEW status \in {"accepted", "declined", "cancelled"},
             NEW friendship, Answering(s, status, friendship)
      PROVE  OpenBetween(u, v)' = {} /\ ~Blocked(u, v)'
  <2>1. r \in OpenBetween(u, v) /\ w = Written({r}, status, friendship, "keep")
    BY <1>2, <1>7 DEF Answering, OpenBetween
  <2>2. \A q \in OpenBetween(u, v) : q = r
    BY <2>1 DEF OpenPairLocked, OpenBetween
  <2> QED
    BY <1>3, <1>5, <2>1, <2>2 DEF Written, OpenBetween
<1>8. CASE Blocking(s)
  <2>1. w.rows = OpenBetween(u, v) /\ w.status = "deleted"
        /\ w.friendship = IF Friends(u, v) THEN "delete" ELSE "keep"
    BY <1>8 DEF Blocking, Written, UnfriendWrite
  <2> QED
    BY <1>3, <2>1 DEF OpenBetween
<1>9. CASE Removing(s)
  BY <1>3, <1>5, <1>9 DEF Removing, Written, OpenBetween
<1>10. CASE Unblocking(s)
  <2>1. Blocked(u, v) /\ w = Written({}, "none", "keep", "delete")
    BY <1>10 DEF Unblocking, Blocked
  <2> QED
    BY <1>3, <1>5, <2>1 DEF Written, OpenBetween
<1> QED
  BY <1>1, <1>6, <1>7, <1>8, <1>9, <1>10 DEF Effect

LEMMA CommitSeparates ==
  ASSUME TypeOK, TypeOK', OpenPairLocked, BlockSeparates, NoOpenRequestBetweenFriends,
         NEW s \in Sessions, Progress(s), Commit(s)
  PROVE  BlockSeparates' /\ NoOpenRequestBetweenFriends'
<1>0. PICK u, v : u = call[s].me /\ v = call[s].peer
  OBVIOUS
<1> SUFFICES ASSUME NEW p \in Ordered
             PROVE  /\ Friends(p[1], p[2])' => OpenBetween(p[1], p[2])' = {}
                    /\ p \in user_blocks' => /\ ~Friends(p[1], p[2])'
                                             /\ OpenBetween(p[1], p[2])' = {}
  BY DEF BlockSeparates, NoOpenRequestBetweenFriends, TypeOK
<1>1. CASE Pair(p[1], p[2]) = Pair(u, v)
  <2>1. /\ Friends(u, v)' => OpenBetween(u, v)' = {}
        /\ Blocked(u, v)' => ~Friends(u, v)' /\ OpenBetween(u, v)' = {}
    BY <1>0, CommitOwnPair
  <2>2. p \in user_blocks' => Blocked(u, v)'
    BY <1>1, PairSymmetric DEF Blocked
  <2>3. Friends(p[1], p[2])' = Friends(u, v)' /\ OpenBetween(p[1], p[2])' = OpenBetween(u, v)'
    BY <1>1 DEF Friends, OpenBetween
  <2> QED
    BY <2>1, <2>2, <2>3
<1>2. CASE Pair(p[1], p[2]) # Pair(u, v)
  <2>1. Same(Pair(p[1], p[2]))
    BY <1>0, <1>2, CommitLocal DEF CallPair
  <2>2. /\ Friends(p[1], p[2])' <=> Friends(p[1], p[2])
        /\ OpenBetween(p[1], p[2])' = OpenBetween(p[1], p[2])
        /\ p \in user_blocks' <=> p \in user_blocks
    BY <2>1 DEF Same, Friends, OpenBetween
  <2> QED
    BY <2>2 DEF BlockSeparates, NoOpenRequestBetweenFriends
<1> QED
  BY <1>1, <1>2

LEMMA ApartStep ==
  ASSUME TypeOK, TypeOK', OpenPairLocked, ApartInv, [Next /\ PairsApart']_vars
  PROVE  ApartInv'
<1>1. ASSUME NEW s \in Sessions, NEW t \in Sessions \ {s},
             Start(s) \/ Continue(s) \/ Rollback(s) \/ DeadlockVictim(s)
      PROVE  call'[t] = call[t] /\ writes'[t] = writes[t]
  BY <1>1 DEF TypeOK, Start, Continue, Rollback, DeadlockVictim, Undo, Proceed, Begin,
       SendCheckBlocks, AcceptRead, DeclineRead, BlockInsert, RemoveCheck, UnblockDelete,
       SendCheckFriendsAndRate, SendInsert, AcceptUpdate, AcceptInsertFriendship,
       DeclineUpdate, BlockDeleteFriendship, BlockDeleteRequests, RemoveDelete, Commit
<1>2. ASSUME NEW s \in Sessions, PairsApart',
             Start(s) \/ (Continue(s) /\ ~Commit(s)) \/ Rollback(s) \/ DeadlockVictim(s)
      PROVE  ApartInv'
  <2>1. Progress(s)' /\ UNCHANGED tables
    BY <1>2, ProgressStart, ProgressContinue, ProgressUndo
       DEF ApartInv, Rollback, DeadlockVictim
  <2>2. ASSUME NEW t \in Sessions \ {s}
        PROVE  Progress(t)'
    <3>1. call'[t] = call[t] /\ writes'[t] = writes[t]
      BY <1>1, <1>2
    <3>2. \A P : Same(P)
      BY <2>1 DEF Same, tables
    <3> QED
      BY <3>1, <3>2, ProgressFrame DEF ApartInv
  <2>3. BlockSeparates' /\ NoOpenRequestBetweenFriends'
    BY <2>1 DEF ApartInv, BlockSeparates, NoOpenRequestBetweenFriends, tables,
                Friends, OpenBetween
  <2> QED
    BY <1>2, <2>1, <2>2, <2>3 DEF ApartInv
<1>3. ASSUME NEW s \in Sessions, PairsApart', Commit(s)
      PROVE  ApartInv'
  <2>1. BlockSeparates' /\ NoOpenRequestBetweenFriends'
    BY <1>3, CommitSeparates DEF ApartInv
  <2>2. Progress(s)'
    BY <1>3 DEF Commit, TypeOK, Progress, Idle
  <2>3. ASSUME NEW t \in Sessions \ {s}
        PROVE  Progress(t)'
    <3>1. call'[t] = call[t] /\ writes'[t] = writes[t]
      BY <1>1, <1>3 DEF Continue
    <3>2. Busy(t) => CallPair(t) # CallPair(s)
      BY <1>3 DEF ApartInv, PairsApart, Commit, Busy
    <3>3. Busy(t) => Same(CallPair(t))
      BY <1>3, <3>2, CommitLocal DEF ApartInv
    <3> QED
      BY <3>1, <3>3, ProgressFrame DEF ApartInv
  <2> QED
    BY <1>3, <2>1, <2>2, <2>3 DEF ApartInv
<1>4. CASE UNCHANGED vars
  <2>1. UNCHANGED tables /\ call' = call /\ writes' = writes
    BY <1>4 DEF vars, tables
  <2>2. \A P : Same(P)
    BY <2>1 DEF Same, tables
  <2>3. \A t \in Sessions : Progress(t)'
    BY <2>1, <2>2, ProgressFrame DEF ApartInv
  <2>4. PairsApart' /\ BlockSeparates' /\ NoOpenRequestBetweenFriends'
    BY <2>1 DEF ApartInv, PairsApart, BlockSeparates, NoOpenRequestBetweenFriends, tables,
                Friends, OpenBetween, Busy, CallPair
  <2> QED
    BY <2>3, <2>4 DEF ApartInv
<1> QED
  BY <1>2, <1>3, <1>4 DEF Next

LEMMA ApartInvariant == SpecApart => [](TypeOK /\ OpenPairLocked /\ ApartInv)
<1>1. Init => TypeOK /\ OpenPairLocked /\ ApartInv
  BY TypeInit DEF Init, OpenPairLocked, NoWrites, ApartInv, PairsApart, BlockSeparates,
     NoOpenRequestBetweenFriends, Progress, Busy, Idle, Friends
<1>2. TypeOK /\ OpenPairLocked /\ ApartInv /\ [Next /\ PairsApart']_vars
        => (TypeOK /\ OpenPairLocked /\ ApartInv)'
  BY TypeStep, OpenPairStep, ApartStep
<1> QED
  BY <1>1, <1>2, PTL DEF SpecApart

\* While the calls on a pair do not overlap, a block in either direction leaves
\* the pair no friendship and no open request (block_user, send_friend_request).
THEOREM ApartBlockSeparates == SpecApart => []BlockSeparates
<1>1. ApartInv => BlockSeparates
  BY DEF ApartInv
<1> QED
  BY <1>1, ApartInvariant, PTL

\* Under the same condition friends have no open request between them.
THEOREM ApartNoOpenRequestBetweenFriends == SpecApart => []NoOpenRequestBetweenFriends
<1>1. ApartInv => NoOpenRequestBetweenFriends
  BY DEF ApartInv
<1> QED
  BY <1>1, ApartInvariant, PTL
-------------------------------------------------------------------------------
(* Answers, and the refinement of Relationship.                            *)

LEMMA OnlyCommitWrites ==
  ASSUME [Next /\ PairsApart']_vars
  PROVE  (\E s \in Sessions : Commit(s)) \/ UNCHANGED tables
<1>1. ASSUME NEW s \in Sessions, Start(s) \/ Continue(s) \/ Rollback(s) \/ DeadlockVictim(s)
      PROVE  Commit(s) \/ UNCHANGED tables
  BY <1>1 DEF Start, Continue, Rollback, DeadlockVictim, Undo, Proceed, Begin,
       SendCheckBlocks, AcceptRead, DeclineRead, BlockInsert, RemoveCheck, UnblockDelete,
       SendCheckFriendsAndRate, SendInsert, AcceptUpdate, AcceptInsertFriendship,
       DeclineUpdate, BlockDeleteFriendship, BlockDeleteRequests, RemoveDelete
<1> QED
  BY <1>1 DEF Next, vars, tables

LEMMA AnsweredStep ==
  ASSUME TypeOK, ApartInv, [Next /\ PairsApart']_vars,
         NEW r \in Requests, friend_requests[r] \in Answered
  PROVE  friend_requests'[r] = friend_requests[r]
<1>1. ASSUME NEW s \in Sessions, Commit(s)
      PROVE  friend_requests'[r] = friend_requests[r]
  <2>1. Effect(s)
    BY <1>1 DEF ApartInv, Progress, Commit
  <2>2. r \notin writes[s].rows
    BY <2>1 DEF Effect, Inviting, Answering, Blocking, Removing, Unblocking, Written,
                OpenBetween, Answered
  <2> QED
    BY <1>1, <2>2 DEF Commit
<1> QED
  BY <1>1, OnlyCommitWrites DEF tables

\* While the calls on a pair do not overlap, a request that was accepted,
\* declined or cancelled keeps that answer (accept_/decline_friend_request).
THEOREM ApartAnsweredOnce == SpecApart => AnsweredOnce
<1> DEFINE Keep == \A r \in Requests :
             friend_requests[r] \in Answered => friend_requests'[r] = friend_requests[r]
<1>1. TypeOK /\ OpenPairLocked /\ ApartInv /\ [Next /\ PairsApart']_vars => [Keep]_vars
  BY AnsweredStep
<1> QED
  BY <1>1, ApartInvariant, PTL DEF SpecApart, AnsweredOnce

\* A commit is one step of the abstract relationship.
LEMMA CommitImplements ==
  ASSUME TypeOK, OpenPairLocked, ApartInv, NEW s \in Sessions, Commit(s)
  PROVE  Abstract!RNext \/ UNCHANGED <<OpenInvitations, friendships, user_blocks>>
<1>0. PICK u, v, r : u = call[s].me /\ v = call[s].peer /\ r = call[s].req
  OBVIOUS
<1> DEFINE w == writes[s]
           p == <<u, v>>
<1>1. Effect(s) /\ call[s].pc = "commit"
  BY DEF ApartInv, Progress, Commit
<1>2. /\ p \in Ordered /\ <<v, u>> \in Ordered
      /\ r \in Requests => PairOf(r) = Pair(u, v)
      /\ w \in WriteSets
  BY <1>0, <1>1, Active DEF CallPair, Ordered
<1>3. /\ \A q \in Requests : friend_requests'[q] =
           IF q \in w.rows THEN w.status ELSE friend_requests[q]
      /\ friendships' = Apply(friendships, {Pair(u, v)}, w.friendship)
      /\ user_blocks' = Apply(user_blocks, {p}, w.block)
  BY <1>0 DEF Commit
<1>4. \A x : x \in OpenInvitations <=>
        \E q \in Requests : x = <<q[1], q[2]>> /\ friend_requests[q] = "pending"
  BY DEF OpenInvitations
<1>5. \A x : x \in OpenInvitations' <=>
        \E q \in Requests : x = <<q[1], q[2]>> /\ friend_requests'[q] = "pending"
  BY DEF OpenInvitations
<1>6. Ordered = {q \in Users \X Users : q[1] # q[2]}
  BY DEF Ordered
<1>7. Abstract!Ends(p) = Pair(u, v) /\ Abstract!Between(p) = {<<u, v>>, <<v, u>>}
  BY DEF Abstract!Ends, Abstract!Between, Pair
<1>8. ASSUME NEW q \in Requests
      PROVE  /\ <<q[1], q[2]>> \in Ordered
             /\ PairOf(q) = Pair(u, v) <=> <<q[1], q[2]>> \in Abstract!Between(p)
  BY <1>2, <1>7 DEF Requests, Ordered, PairOf, Pair
<1>9. OpenBetween(u, v) = {} <=> Abstract!Between(p) \cap OpenInvitations = {}
  BY <1>4, <1>8 DEF OpenBetween
<1>10. CASE Inviting(s)
  <2>1. /\ w = Written({r}, "pending", "keep", "keep")
        /\ r \in Requests /\ r[1] = u /\ r[2] = v
        /\ ~Blocked(u, v) /\ ~Friends(u, v) /\ OpenBetween(u, v) = {}
        /\ friend_requests[r] = "none"
    BY <1>0, <1>10 DEF Inviting
  <2>2. OpenInvitations' = OpenInvitations \cup {p}
    BY <1>3, <1>4, <1>5, <2>1 DEF Written
  <2>3. UNCHANGED <<friendships, user_blocks>>
    BY <1>3, <2>1 DEF Written, Apply
  <2>4. Abstract!Invite(p)
    BY <1>7, <1>9, <2>1, <2>2, <2>3 DEF Abstract!Invite, Abstract!Separated, Blocked, Friends
  <2> QED
    BY <1>2, <1>6, <2>4 DEF Abstract!RNext
<1>11. ASSUME NEW status \in {"accepted", "declined", "cancelled"}, NEW friendship,
              Answering(s, status, friendship)
       PROVE  /\ <<r[1], r[2]>> \in OpenInvitations \cap Ordered
              /\ OpenInvitations' = OpenInvitations \ {<<r[1], r[2]>>}
              /\ UNCHANGED user_blocks
              /\ Abstract!Ends(<<r[1], r[2]>>) = Pair(u, v)
              /\ w.friendship = friendship
  <2>1. /\ w = Written({r}, status, friendship, "keep")
        /\ r \in Requests /\ friend_requests[r] = "pending"
    BY <1>0, <1>11 DEF Answering
  <2>2. ASSUME NEW q \in Requests, <<q[1], q[2]>> = <<r[1], r[2]>>,
               friend_requests[q] = "pending"
        PROVE  q = r
    BY <2>1, <2>2 DEF OpenPairLocked, PairOf
  <2>3. OpenInvitations' = OpenInvitations \ {<<r[1], r[2]>>}
    <3>1. \A q \in Requests : friend_requests'[q] = "pending" <=>
                                q # r /\ friend_requests[q] = "pending"
      BY <1>3, <2>1 DEF Written
    <3> QED
      BY <1>4, <1>5, <2>1, <2>2, <3>1
  <2>4. UNCHANGED user_blocks /\ w.friendship = friendship
    BY <1>3, <2>1 DEF Written, Apply
  <2>5. Abstract!Ends(<<r[1], r[2]>>) = Pair(u, v)
    BY <1>2, <2>1 DEF Abstract!Ends, PairOf, Pair
  <2> QED
    BY <1>4, <1>8, <2>1, <2>3, <2>4, <2>5
<1>12. CASE Answering(s, "accepted", "insert")
  <2>1. friendships' = friendships \cup {Pair(u, v)}
    BY <1>3, <1>11, <1>12 DEF Apply
  <2>2. Abstract!Accept(<<r[1], r[2]>>)
    BY <1>11, <1>12, <2>1 DEF Abstract!Accept
  <2> QED
    BY <1>6, <1>11, <1>12, <2>2 DEF Abstract!RNext
<1>13. CASE Answering(s, "declined", "keep") \/ Answering(s, "cancelled", "keep")
  <2>1. friendships' = friendships
    BY <1>3, <1>11, <1>13 DEF Apply
  <2>2. Abstract!DeclineOrCancel(<<r[1], r[2]>>)
    BY <1>11, <1>13, <2>1 DEF Abstract!DeclineOrCancel
  <2> QED
    BY <1>6, <1>11, <1>13, <2>2 DEF Abstract!RNext
<1>14. CASE Blocking(s)
  <2>1. /\ w.rows = OpenBetween(u, v) /\ w.status = "deleted"
        /\ w.friendship = IF Friends(u, v) THEN "delete" ELSE "keep"
        /\ w.block = IF p \in user_blocks THEN "keep" ELSE "insert"
    BY <1>0, <1>14 DEF Blocking, Written, UnfriendWrite, BlockWrite
  <2>2. OpenInvitations' = OpenInvitations \ Abstract!Between(p)
    <3>1. \A q \in Requests : friend_requests'[q] = "pending" <=>
            friend_requests[q] = "pending" /\ PairOf(q) # Pair(u, v)
      BY <1>3, <2>1 DEF OpenBetween
    <3> QED
      BY <1>4, <1>5, <1>8, <3>1
  <2>3. friendships' = friendships \ {Pair(u, v)} /\ user_blocks' = user_blocks \cup {p}
    BY <1>3, <2>1 DEF Apply, Friends
  <2>4. Abstract!Block(p)
    BY <1>7, <2>2, <2>3 DEF Abstract!Block
  <2> QED
    BY <1>2, <1>6, <2>4 DEF Abstract!RNext
<1>15. ASSUME w.rows = {}
       PROVE  OpenInvitations' = OpenInvitations
  <2>1. \A q \in Requests : friend_requests'[q] = friend_requests[q]
    BY <1>3, <1>15
  <2> QED
    BY <2>1 DEF OpenInvitations
<1>16. CASE Removing(s)
  <2>1. w = Written({}, "none", "delete", "keep") /\ Friends(u, v)
    BY <1>0, <1>16 DEF Removing
  <2>2. friendships' = friendships \ {Pair(u, v)} /\ UNCHANGED user_blocks
    BY <1>3, <2>1 DEF Apply, Written
  <2>3. Abstract!Remove(p)
    BY <1>7, <1>15, <2>1, <2>2 DEF Abstract!Remove, Friends, Written
  <2> QED
    BY <1>2, <1>6, <2>3 DEF Abstract!RNext
<1>17. CASE Unblocking(s)
  <2>1. w = Written({}, "none", "keep", "delete") /\ p \in user_blocks
    BY <1>0, <1>17 DEF Unblocking
  <2>2. user_blocks' = user_blocks \ {p} /\ UNCHANGED friendships
    BY <1>3, <2>1 DEF Apply, Written
  <2>3. Abstract!Unblock(p)
    BY <1>15, <2>1, <2>2 DEF Abstract!Unblock, Written
  <2> QED
    BY <1>2, <1>6, <2>3 DEF Abstract!RNext
<1> QED
  BY <1>1, <1>10, <1>12, <1>13, <1>14, <1>16, <1>17 DEF Effect

\* While the calls on a pair do not overlap, every call of the trust graph is
\* one atomic step of Relationship, and nothing else happens to the relations.
THEOREM ApartImplements == SpecApart => ImplementsRelationship
<1>1. Init => Abstract!RInit
  BY DEF Init, Abstract!RInit, OpenInvitations
<1>2. TypeOK /\ OpenPairLocked /\ ApartInv /\ [Next /\ PairsApart']_vars
        => [Abstract!RNext]_<<OpenInvitations, friendships, user_blocks>>
  BY CommitImplements, OnlyCommitWrites DEF tables, OpenInvitations
<1> QED
  BY <1>1, <1>2, ApartInvariant, PTL
     DEF SpecApart, ImplementsRelationship, Abstract!RSpec, Abstract!rvars

===============================================================================
