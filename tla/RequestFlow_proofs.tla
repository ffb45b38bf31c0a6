-------------------------- MODULE RequestFlow_proofs --------------------------
(***************************************************************************)
(* Theorems about RequestFlow, for any users, cards, sessions and bounds.  *)
(***************************************************************************)
EXTENDS RequestFlowApart, TLAPS

-------------------------------------------------------------------------------
(* What a session is doing, by its program counter.                        *)

LEMMA CallKinds ==
  ASSUME TypeOK, NEW s \in Sessions
  PROVE  /\ Writes(s) => call[s] \in Writing
         /\ call[s].pc \in {"create_blocks", "create_direct", "create_mutual"}
              => call[s] \in Creating
         /\ call[s].pc = "delete" => call[s] \in Deleting
<1>1. call[s] \in Calls
  BY DEF TypeOK
<1> QED
  BY <1>1 DEF Calls, Idle, Creating, Writing, Deleting, Writes

\* A step that only moves a session keeps the types.
LEMMA TypeGoto ==
  ASSUME TypeOK, NEW s \in Sessions, NEW c \in Calls, Goto(s, c)
  PROVE  TypeOK'
BY DEF TypeOK, Goto, trust, rows, Requests, Pairs

LEMMA IdleCall == Idle \in Calls
BY DEF Calls

LEMMA AfterType ==
  ASSUME TypeOK, NEW r \in Requests, NEW e \in Events
  PROVE  After(r, e) \in RowStates
BY DEF TypeOK, After, RowStates, Row, Events, Decisions, Referrals

\* The insertion of create_request builds a key of Requests.
LEMMA InsertKey ==
  ASSUME RequestFlowAssumption, TypeOK, NEW u \in Users, NEW c \in Cards, u # Owner[c],
         NEW m \in Mutuals(u, Owner[c]) \cup {NoUser}, NEW n \in 1..MaxRequests
  PROVE  [by |-> u, card |-> c, via |-> m, n |-> n] \in Requests
<1>1. ASSUME m \in Mutuals(u, Owner[c])
      PROVE  m \in Users /\ m # u /\ m # Owner[c]
  <2>1. {u, m} \in Pairs /\ {m, Owner[c]} \in Pairs
    BY <1>1 DEF Mutuals, Friends, TypeOK
  <2> QED
    BY <1>1, <2>1 DEF Mutuals, Pairs
<1>2. Owner[c] \in Users /\ NoUser \notin Users
  BY DEF RequestFlowAssumption
<1> QED
  BY <1>1, <1>2 DEF Requests

LEMMA TypeInsert ==
  ASSUME RequestFlowAssumption, TypeOK, NEW s \in Sessions, call[s] \in Creating,
         NEW m \in Mutuals(call[s].by, Owner[call[s].card]) \cup {NoUser}, Insert(s, m)
  PROVE  TypeOK'
<1>1. PICK n \in 1..MaxRequests :
         Goto(s, Write("insert",
                [by |-> call[s].by, card |-> call[s].card, via |-> m, n |-> n], "created"))
  BY DEF Insert
<1>2. [by |-> call[s].by, card |-> call[s].card, via |-> m, n |-> n] \in Requests
  BY InsertKey DEF Creating
<1>3. "created" \in Events
  BY DEF Events
<1> QED
  BY <1>1, <1>2, <1>3, TypeGoto DEF Calls, Writing, Write

\* Every step of a call keeps the types.
LEMMA TypeCallStep ==
  ASSUME RequestFlowAssumption, TypeOK, NEW s \in Sessions, CallStep(s)
  PROVE  TypeOK'
<1>1. ASSUME NEW u \in Users, NEW c \in Cards, CreateReadCard(s, u, c)
      PROVE  TypeOK'
  <2>1. [pc |-> "create_blocks", by |-> u, card |-> c, level |-> shared[c]] \in Calls
    BY <1>1 DEF CreateReadCard, Calls, Creating
  <2> QED
    BY <1>1, <2>1, TypeGoto DEF CreateReadCard, Begin
<1>2. ASSUME CreateCheckBlocks(s)
      PROVE  TypeOK'
  <2>1. [call[s] EXCEPT !.pc = "create_direct"] \in Calls
    BY <1>2, CallKinds DEF CreateCheckBlocks, Calls, Creating
  <2> QED
    BY <1>2, <2>1, TypeGoto, IdleCall DEF CreateCheckBlocks, Undo
<1>3. ASSUME CreateCheckDirect(s)
      PROVE  TypeOK'
  <2>1. call[s] \in Creating
    BY <1>3, CallKinds DEF CreateCheckDirect
  <2>2. [call[s] EXCEPT !.pc = "create_mutual"] \in Calls
    BY <2>1 DEF Calls, Creating
  <2> QED
    BY <1>3, <2>1, <2>2, TypeGoto, TypeInsert DEF CreateCheckDirect
<1>4. ASSUME CreateFindMutual(s)
      PROVE  TypeOK'
  <2>1. call[s] \in Creating
    BY <1>4, CallKinds DEF CreateFindMutual
  <2> QED
    BY <1>4, <2>1, TypeGoto, TypeInsert, IdleCall DEF CreateFindMutual, Undo
<1>5. ASSUME Writes(s)
      PROVE  Committable(s) \in Calls
  BY <1>5, CallKinds DEF Committable, Calls, Writing
<1>6. ASSUME CreateInsert(s) \/ Update(s) \/ RevealInsert(s) \/ Rollback(s)
      PROVE  TypeOK'
  BY <1>5, <1>6, TypeGoto, IdleCall
     DEF CreateInsert, Update, RevealInsert, Rollback, Undo, Writes
<1>7. ASSUME NEW r \in Requests, NEW e \in Events,
             Begin(s, Write("update", r, e)) \/ Begin(s, Write("reveal", r, e))
      PROVE  TypeOK'
  <2>1. Write("update", r, e) \in Calls /\ Write("reveal", r, e) \in Calls
    BY DEF Write, Calls, Writing
  <2> QED
    BY <1>7, <2>1, TypeGoto DEF Begin
<1>8. ASSUME NEW r \in Requests, NEW e \in Decisions, RespondRead(s, r, e)
      PROVE  TypeOK'
  BY <1>7, <1>8 DEF RespondRead, Events
<1>9. ASSUME NEW r \in Requests, NEW e \in Referrals, ReferralRead(s, r, e)
      PROVE  TypeOK'
  BY <1>7, <1>9 DEF ReferralRead, Events
<1>10. ASSUME NEW r \in Requests, RevealRead(s, r)
       PROVE  TypeOK'
  BY <1>7, <1>10 DEF RevealRead, Events
<1>11. ASSUME NEW c \in Cards, DeleteCard(s, c)
       PROVE  TypeOK'
  <2>1. [pc |-> "delete", card |-> c] \in Calls
    BY DEF Calls, Deleting
  <2> QED
    BY <1>11, <2>1, TypeGoto DEF DeleteCard, Begin
<1>12. ASSUME Commit(s)
       PROVE  TypeOK'
  <2>1. call[s].req \in Requests /\ call[s].event \in Events
    BY <1>12, CallKinds DEF Commit, Writes, Writing
  <2>2. requests' \in [Requests -> RowStates]
    BY <1>12, <2>1, AfterType DEF Commit, TypeOK
  <2>3. request_events' \in [Requests -> Seq(Events)]
    BY <1>12, <2>1 DEF Commit, TypeOK
  <2> QED
    BY <1>12, <2>2, <2>3, IdleCall DEF Commit, TypeOK, trust
<1>13. ASSUME CommitDelete(s)
       PROVE  TypeOK'
  <2>1. call[s].card \in Cards
    BY <1>13, CallKinds DEF CommitDelete, Deleting
  <2>2. GoneRow \in RowStates /\ <<>> \in Seq(Events) /\ "deleted" \in Sharing
    BY DEF GoneRow, Row, RowStates, Sharing
  <2> QED
    BY <1>13, <2>1, <2>2, IdleCall DEF CommitDelete, TypeOK, trust
<1> QED
  BY <1>1, <1>2, <1>3, <1>4, <1>6, <1>8, <1>9, <1>10, <1>11, <1>12, <1>13 DEF CallStep

\* Edits of cards and of the trust graph keep the types.
LEMMA TypeEnvironment ==
  ASSUME TypeOK, CardChange \/ TrustChange
  PROVE  TypeOK'
<1>1. CASE CardChange
  BY <1>1 DEF CardChange, AddCard, EditCard, TypeOK, trust, Levels, Sharing
<1>2. CASE TrustChange
  BY <1>2 DEF TrustChange, Befriend, Unfriend, Block, Unblock, TypeOK, rows
<1> QED
  BY <1>1, <1>2

LEMMA TypeStep ==
  ASSUME RequestFlowAssumption, TypeOK, [Next]_vars
  PROVE  TypeOK'
<1>1. CASE UNCHANGED vars
  BY <1>1 DEF TypeOK, vars, trust, rows
<1> QED
  BY <1>1, TypeCallStep, TypeEnvironment DEF Next

LEMMA TypeInit ==
  ASSUME Init
  PROVE  TypeOK
<1>1. NoRow \in RowStates /\ <<>> \in Seq(Events) /\ "absent" \in Sharing
  BY DEF NoRow, Row, RowStates, Sharing
<1> QED
  BY <1>1, IdleCall DEF Init, TypeOK

\* Tables and calls hold values of their types, whatever calls overlap.
THEOREM TypeCorrect == Spec => []TypeOK
BY TypeInit, TypeStep, RequestFlowAssumption, PTL DEF Spec

-------------------------------------------------------------------------------
(* The inductive invariant.                                                *)

\* A step of one session that writes no table keeps the invariant, if the
\* session has its grounds and takes no lock another one holds.
LEMMA FlowGoto ==
  ASSUME FlowInv, TypeOK', NEW s \in Sessions, NEW c \in Calls, Goto(s, c),
         CallGrounded(s)',
         \A t \in Others(s) : /\ Inserting(s)' /\ Writes(t) => c.req # call[t].req
                              /\ Inserting(t) /\ Writes(s)' => c.req # call[t].req,
         \A t \in Others(s), r \in Requests :
            /\ c.pc = "delete" /\ c.card = r.card => ~Wrote(t, r)
            /\ c.pc = "commit" /\ c.req = r => ~Deletes(t, r.card)
  PROVE  FlowInv'
<1>1. /\ UNCHANGED <<shared, requests, request_events>>
      /\ call' = [call EXCEPT ![s] = c]
      /\ call'[s] = c
      /\ \A t \in Others(s) : call'[t] = call[t]
  BY DEF Goto, FlowInv, TypeOK, Others, rows
<1>2. StatusIsAudited' /\ \A r \in Requests : ~Live(r)' => request_events'[r] = <<>>
  BY <1>1 DEF FlowInv, StatusIsAudited, Live, IsLatest
<1>3. ASSUME NEW t \in Others(s)
      PROVE  CallGrounded(t)' /\ Inserting(t)' = Inserting(t) /\ Writes(t)' = Writes(t)
  <2>1. CallGrounded(t) /\ t \in Sessions
    BY DEF FlowInv, Others
  <2> QED
    BY <1>1, <2>1 DEF CallGrounded, Inserting, Live, Grounds, Logged, Writes
<1>4. \A t \in Sessions : CallGrounded(t)'
  BY <1>3 DEF Others
<1>5. ASSUME NEW t \in Sessions, NEW w \in Sessions, t # w, Inserting(t)', Writes(w)'
      PROVE  call'[t].req # call'[w].req
  BY <1>1, <1>3, <1>5 DEF FlowInv, Others
<1>6. ASSUME NEW t \in Sessions, NEW w \in Sessions, NEW r \in Requests,
             Deletes(t, r.card)', Wrote(w, r)'
      PROVE  FALSE
  <2>1. t # w
    BY <1>6 DEF Deletes, Wrote
  <2>2. CASE t = s
    BY <1>1, <1>6, <2>1, <2>2 DEF Deletes, Wrote, Others
  <2>3. CASE w = s
    BY <1>1, <1>6, <2>1, <2>3 DEF Deletes, Wrote, Others
  <2>4. CASE t # s /\ w # s
    BY <1>1, <1>6, <2>4 DEF Deletes, Wrote, Others, FlowInv
  <2> QED
    BY <2>2, <2>3, <2>4
<1> QED
  BY <1>2, <1>4, <1>5, <1>6 DEF FlowInv

\* A call that neither writes nor deletes needs no grounds and holds no lock.
LEMMA FlowQuiet ==
  ASSUME FlowInv, TypeOK', NEW s \in Sessions, NEW c \in Calls, Goto(s, c),
         c.pc \in {"idle", "create_blocks", "create_direct", "create_mutual"}
  PROVE  FlowInv'
<1>1. call'[s] = c
  BY DEF Goto, FlowInv, TypeOK
<1>2. CallGrounded(s)' /\ ~Inserting(s)' /\ ~Writes(s)'
  BY <1>1 DEF CallGrounded, Inserting, Writes
<1> QED
  BY <1>2, FlowGoto

LEMMA FlowUndo ==
  ASSUME FlowInv, TypeOK', NEW s \in Sessions, Undo(s)
  PROVE  FlowInv'
BY FlowQuiet, IdleCall DEF Undo, Idle

\* The new row's number is nobody else's.
LEMMA FlowInsert ==
  ASSUME RequestFlowAssumption, FlowInv, TypeOK', NEW s \in Sessions,
         call[s] \in Creating,
         NEW m \in Mutuals(call[s].by, Owner[call[s].card]) \cup {NoUser}, Insert(s, m)
  PROVE  FlowInv'
<1>1. PICK n \in 1..MaxRequests :
         /\ Fresh(n)
         /\ Goto(s, Write("insert",
                [by |-> call[s].by, card |-> call[s].card, via |-> m, n |-> n], "created"))
  BY DEF Insert
<1>2. PICK r \in Requests :
         r = [by |-> call[s].by, card |-> call[s].card, via |-> m, n |-> n]
  BY InsertKey DEF Creating, FlowInv
<1>3. PICK c \in Calls : c = Write("insert", r, "created")
  BY DEF FlowInv, Calls, Writing, Write, Events
<1>4. requests[r].status = "none"
  BY <1>1, <1>2 DEF Fresh, Numbers
<1>5. \A t \in Others(s) : Writes(t) => call[t].req # r
  BY <1>1, <1>2 DEF Fresh, Numbers, Others
<1>6. Goto(s, c)
  BY <1>1, <1>2, <1>3
<1>7. call'[s] = c /\ requests' = requests /\ c.pc = "insert" /\ c.req = r /\ c.event = "created"
  BY <1>3, <1>6 DEF Goto, FlowInv, TypeOK, rows, Write
<1>8. CallGrounded(s)'
  BY <1>4, <1>7 DEF CallGrounded, Inserting
<1>9. \A t \in Sessions : Inserting(t) => Writes(t)
  BY DEF Inserting, Writes
<1>10. s \notin Others(s)
  BY DEF Others
<1>11. \A t \in Others(s) : /\ Inserting(s)' /\ Writes(t) => c.req # call[t].req
                            /\ Inserting(t) /\ Writes(s)' => c.req # call[t].req
  BY <1>5, <1>7, <1>9 DEF Others
<1> QED
  BY <1>6, <1>7, <1>8, <1>11, FlowGoto

\* Calls that start on a request of their own have read its grounds.
LEMMA FlowRead ==
  ASSUME FlowInv, TypeOK', NEW s \in Sessions, NEW r \in Requests, NEW e \in Events,
         e # "created", Live(r), Grounds(r, e), NEW pc \in {"update", "reveal"},
         Begin(s, Write(pc, r, e))
  PROVE  FlowInv'
<1>1. PICK c \in Calls : c = Write(pc, r, e)
  BY DEF Calls, Writing, Write
<1>2. /\ Goto(s, c) /\ call'[s] = c /\ UNCHANGED <<requests, request_events>>
      /\ c.pc = pc /\ c.req = r /\ c.event = e
  BY <1>1 DEF Begin, Goto, FlowInv, TypeOK, rows, Write
<1>3. CallGrounded(s)' /\ ~Inserting(s)'
  BY <1>2 DEF CallGrounded, Inserting, Live, Grounds, Logged
<1>4. \A t \in Others(s) : Inserting(t) => call[t].req # r
  BY DEF FlowInv, CallGrounded, Live, Others
<1> QED
  BY <1>2, <1>3, <1>4, FlowGoto

\* Calls that hold their grounds may write, and lock, a row that lives.
LEMMA FlowLock ==
  ASSUME FlowInv, TypeOK', NEW s \in Sessions,
         call[s].pc \in {"insert", "update", "reveal"},
         \A t \in Others(s) : ~Deletes(t, call[s].req.card),
         call[s].pc # "insert" => Live(call[s].req),
         Goto(s, Committable(s))
  PROVE  FlowInv'
<1>1. call[s] \in Writing
  BY CallKinds DEF FlowInv, Writes
<1>2. PICK c \in Calls : c = Committable(s)
  BY <1>1 DEF Committable, Calls, Writing
<1>3. /\ Goto(s, c) /\ call'[s] = c /\ UNCHANGED <<requests, request_events>>
      /\ c.pc = "commit" /\ c.req = call[s].req /\ c.event = call[s].event
  BY <1>1, <1>2 DEF Committable, Goto, FlowInv, TypeOK, rows, Writing
<1>4. CallGrounded(s) /\ s \notin Others(s)
  BY DEF FlowInv, Others
<1>5. CallGrounded(s)'
  BY <1>3, <1>4 DEF CallGrounded, Inserting, Live, Grounds, Logged
<1>6. Inserting(s)' => Inserting(s)
  BY <1>3, <1>4 DEF CallGrounded, Inserting
<1>7. Writes(s)
  BY DEF Writes
<1>8. \A t \in Others(s) : /\ Inserting(s)' /\ Writes(t) => c.req # call[t].req
                           /\ Inserting(t) /\ Writes(s)' => c.req # call[t].req
  BY <1>3, <1>6, <1>7 DEF FlowInv, Others
<1> QED
  BY <1>3, <1>5, <1>8, FlowGoto

\* A deletion starts when nobody has written a request of the card.
LEMMA FlowDelete ==
  ASSUME FlowInv, TypeOK', NEW s \in Sessions, NEW k \in Cards, DeleteCard(s, k)
  PROVE  FlowInv'
<1>1. PICK c \in Calls : c = [pc |-> "delete", card |-> k]
  BY DEF Calls, Deleting
<1>2. Goto(s, c) /\ call'[s] = c /\ c.pc = "delete" /\ c.card = k
  BY <1>1 DEF DeleteCard, Begin, Goto, FlowInv, TypeOK
<1>3. CallGrounded(s)' /\ ~Inserting(s)' /\ ~Writes(s)'
  BY <1>2 DEF CallGrounded, Inserting, Writes
<1>4. \A t \in Others(s), r \in Requests : r.card = k => ~Wrote(t, r)
  BY DEF DeleteCard, OfCard, Others
<1> QED
  BY <1>2, <1>3, <1>4, FlowGoto

\* One more event in a log: it is the latest of its kind, and of no other.
LEMMA LatestAppend ==
  ASSUME NEW log \in Seq(Events), NEW e \in Events, NEW S, NEW v, NEW none,
         IsLatest(log, S, v, none)
  PROVE  /\ e \in S => IsLatest(Append(log, e), S, e, none)
         /\ e \notin S => IsLatest(Append(log, e), S, v, none)
<1>1. /\ Len(Append(log, e)) = Len(log) + 1
      /\ DOMAIN log = 1..Len(log) /\ Len(log) \in Nat
      /\ DOMAIN Append(log, e) = 1..(Len(log) + 1)
      /\ Append(log, e)[Len(log) + 1] = e
      /\ \A i \in 1..Len(log) : Append(log, e)[i] = log[i]
  OBVIOUS
<1>2. ASSUME e \in S
      PROVE  IsLatest(Append(log, e), S, e, none)
  BY <1>1, <1>2 DEF IsLatest
<1>3. ASSUME e \notin S
      PROVE  IsLatest(Append(log, e), S, v, none)
  BY <1>1, <1>3 DEF IsLatest
<1> QED
  BY <1>2, <1>3

\* A commit keeps the log in step with the row, and takes no grounds away.
LEMMA FlowCommit ==
  ASSUME FlowInv, TypeOK', NEW s \in Sessions, Commit(s)
  PROVE  FlowInv'
<1>1. PICK r \in Requests, e \in Events : r = call[s].req /\ e = call[s].event
  BY CallKinds DEF Commit, FlowInv, Writes, Writing
<1>2. /\ call[s].pc = "commit" /\ Writes(s) /\ Wrote(s, r)
      /\ requests' = [requests EXCEPT ![r] = After(r, e)]
      /\ request_events' = [request_events EXCEPT ![r] = Append(@, e)]
      /\ call' = [call EXCEPT ![s] = Idle]
  BY <1>1 DEF Commit, Writes, Wrote
<1>3. /\ requests \in [Requests -> RowStates] /\ request_events \in [Requests -> Seq(Events)]
      /\ call \in [Sessions -> Calls]
  BY DEF FlowInv, TypeOK
<1>4. /\ requests'[r] = After(r, e) /\ request_events'[r] = Append(request_events[r], e)
      /\ \A q \in Requests : q # r => /\ requests'[q] = requests[q]
                                      /\ request_events'[q] = request_events[q]
      /\ call'[s] = Idle
      /\ \A t \in Others(s) : call'[t] = call[t]
  BY <1>2, <1>3 DEF Others
<1>5. /\ e = "created" => requests[r].status = "none"
      /\ e # "created" => Live(r)
  BY <1>1, <1>2 DEF FlowInv, CallGrounded, Inserting
<1>6. requests'[r].status \notin {"none", "deleted"}
  BY <1>3, <1>4, <1>5 DEF After, Row, RowStates, Live, Decisions, Referrals
<1>7. \A q \in Requests : Live(q) => Live(q)'
  BY <1>4, <1>6 DEF Live
<1>8. \A q \in Requests : ~Live(q)' => request_events'[q] = <<>>
  BY <1>4, <1>6 DEF Live, FlowInv
<1>9. \A q \in Requests, x \in Events : q \in Logged(x) => (q \in Logged(x))'
  <2>1. \A i \in DOMAIN request_events[r] : /\ i \in DOMAIN request_events'[r]
                                            /\ request_events'[r][i] = request_events[r][i]
    BY <1>3, <1>4
  <2> QED
    BY <1>4, <2>1 DEF Logged
<1>10. \A q \in Requests, x \in Events : Grounds(q, x) => Grounds(q, x)'
  <2>1. "approved" \in Events /\ "referral_approved" \in Events
    BY DEF Events, Decisions, Referrals
  <2> QED
    BY <1>9, <2>1 DEF Grounds
<1>11. StatusIsAudited'
  <2>1. /\ IsLatest(request_events'[r], Decisions, requests'[r].status, "pending")
        /\ IsLatest(request_events'[r], Referrals, requests'[r].referral,
                    IF r \in Referred THEN "pending" ELSE "not_required")
    <3>1. CASE e = "created"
      <4>1. request_events[r] = <<>>
        BY <1>5, <3>1 DEF FlowInv, Live
      <4>2. Len(request_events'[r]) = 1 /\ request_events'[r][1] = "created"
            /\ DOMAIN request_events'[r] = 1..1
        BY <1>4, <3>1, <4>1
      <4> QED
        BY <1>4, <3>1, <4>2 DEF After, Row, IsLatest, Decisions, Referrals
    <3>2. CASE e # "created"
      <4>1. /\ IsLatest(request_events[r], Decisions, requests[r].status, "pending")
            /\ IsLatest(request_events[r], Referrals, requests[r].referral,
                        IF r \in Referred THEN "pending" ELSE "not_required")
        BY <1>5, <3>2 DEF FlowInv, StatusIsAudited
      <4>2. /\ requests'[r].status = IF e \in Decisions THEN e ELSE requests[r].status
            /\ requests'[r].referral = IF e \in Referrals THEN e ELSE requests[r].referral
        BY <1>3, <1>4, <3>2 DEF After, Row, RowStates, Decisions, Referrals
      <4>3. request_events[r] \in Seq(Events)
        BY <1>3
      <4>4. IsLatest(request_events'[r], Decisions, requests'[r].status, "pending")
        <5>1. CASE e \in Decisions
          BY <1>4, <4>1, <4>2, <4>3, <5>1, LatestAppend
        <5>2. CASE e \notin Decisions
          BY <1>4, <4>1, <4>2, <4>3, <5>2, LatestAppend
        <5> QED
          BY <5>1, <5>2
      <4>5. IsLatest(request_events'[r], Referrals, requests'[r].referral,
                     IF r \in Referred THEN "pending" ELSE "not_required")
        <5>1. CASE e \in Referrals
          BY <1>4, <4>1, <4>2, <4>3, <5>1, LatestAppend
        <5>2. CASE e \notin Referrals
          BY <1>4, <4>1, <4>2, <4>3, <5>2, LatestAppend
        <5> QED
          BY <5>1, <5>2
      <4> QED
        BY <4>4, <4>5
    <3> QED
      BY <3>1, <3>2
  <2> QED
    BY <1>4, <2>1 DEF StatusIsAudited, FlowInv, Live
<1>12. ASSUME NEW t \in Sessions
       PROVE  CallGrounded(t)'
  <2>1. CASE t = s
    BY <1>4, <2>1 DEF CallGrounded, Inserting, Idle
  <2>2. CASE t # s
    <3>1. call'[t] = call[t] /\ CallGrounded(t)
      BY <1>4, <2>2 DEF Others, FlowInv
    <3>2. CASE Writes(t)
      <4>1. PICK q \in Requests, x \in Events : q = call[t].req /\ x = call[t].event
        BY <3>2, CallKinds DEF FlowInv, Writing
      <4>2. Inserting(t) => q # r
        BY <1>1, <1>2, <2>2, <4>1 DEF FlowInv
      <4>3. Inserting(t)' => Inserting(t)
        BY <3>1 DEF Inserting
      <4>4. requests[q].status # "none" => requests'[q].status # "none"
        BY <1>4, <1>6
      <4>5. q = r /\ x # "created" /\ call[t].pc # "commit" /\ requests[q].status # "none" => Live(q)
        BY <1>5
      <4>6. Live(q)' /\ q # r => Live(q)
        BY <1>4 DEF Live
      <4> QED
        BY <1>4, <1>7, <1>10, <3>1, <4>1, <4>2, <4>3, <4>4, <4>5, <4>6
           DEF CallGrounded, Inserting
    <3>3. CASE ~Writes(t)
      BY <3>1, <3>3 DEF CallGrounded, Writes, Inserting
    <3> QED
      BY <3>2, <3>3
  <2> QED
    BY <2>1, <2>2
<1>13. \A t, w \in Sessions : t # w /\ Inserting(t)' /\ Writes(w)' => call'[t].req # call'[w].req
  BY <1>4 DEF Inserting, Writes, Idle, Others, FlowInv
<1>14. \A t, w \in Sessions : \A q \in Requests : ~(Deletes(t, q.card) /\ Wrote(w, q))'
  BY <1>4 DEF Deletes, Wrote, Idle, Others, FlowInv
<1> QED
  BY <1>8, <1>11, <1>12, <1>13, <1>14 DEF FlowInv

\* A deletion leaves the other requests alone, and no live row under a lock.
LEMMA FlowCommitDelete ==
  ASSUME FlowInv, TypeOK', NEW s \in Sessions, CommitDelete(s)
  PROVE  FlowInv'
<1>1. PICK c \in Cards : c = call[s].card /\ Deletes(s, c)
  BY CallKinds DEF CommitDelete, FlowInv, Deleting, Deletes
<1>2. /\ \A q \in Requests : IF q.card = c /\ Live(q)
                             THEN requests'[q] = GoneRow /\ request_events'[q] = <<>>
                             ELSE requests'[q] = requests[q] /\ request_events'[q] = request_events[q]
      /\ call'[s] = Idle
      /\ \A t \in Others(s) : call'[t] = call[t]
  BY <1>1 DEF CommitDelete, OfCard, FlowInv, TypeOK, Others
<1>3. \A q \in Requests : /\ Live(q)' => Live(q) /\ requests'[q] = requests[q]
                                         /\ request_events'[q] = request_events[q]
                          /\ requests[q].status = "none" <=> requests'[q].status = "none"
                          /\ q.card # c /\ Live(q) => Live(q)'
  BY <1>2 DEF Live, GoneRow, Row
<1>4. StatusIsAudited' /\ \A q \in Requests : ~Live(q)' => request_events'[q] = <<>>
  BY <1>2, <1>3 DEF FlowInv, StatusIsAudited, Live
<1>5. \A q \in Requests, x \in Events : Live(q)' /\ Grounds(q, x) => Grounds(q, x)'
  BY <1>3 DEF Grounds, Logged
<1>6. ASSUME NEW t \in Sessions
      PROVE  CallGrounded(t)'
  <2>1. CASE t = s
    BY <1>2, <2>1 DEF CallGrounded, Inserting, Idle
  <2>2. CASE t # s
    <3>1. call'[t] = call[t] /\ CallGrounded(t)
      BY <1>2, <2>2 DEF Others, FlowInv
    <3>2. CASE Writes(t)
      <4>1. PICK q \in Requests, x \in Events : q = call[t].req /\ x = call[t].event
        BY <3>2, CallKinds DEF FlowInv, Writing
      <4>2. call[t].pc = "commit" => q.card # c
        BY <1>1, <4>1 DEF FlowInv, Wrote
      <4> QED
        BY <1>3, <1>5, <3>1, <4>1, <4>2 DEF CallGrounded, Inserting
    <3>3. CASE ~Writes(t)
      BY <3>1, <3>3 DEF CallGrounded, Writes, Inserting
    <3> QED
      BY <3>2, <3>3
  <2> QED
    BY <2>1, <2>2
<1>7. \A t, w \in Sessions : t # w /\ Inserting(t)' /\ Writes(w)' => call'[t].req # call'[w].req
  BY <1>2 DEF Inserting, Writes, Idle, Others, FlowInv
<1>8. \A t, w \in Sessions : \A q \in Requests : ~(Deletes(t, q.card) /\ Wrote(w, q))'
  BY <1>2 DEF Deletes, Wrote, Idle, Others, FlowInv
<1> QED
  BY <1>4, <1>6, <1>7, <1>8 DEF FlowInv

\* Every step of a call keeps the invariant.
LEMMA FlowCallStep ==
  ASSUME RequestFlowAssumption, FlowInv, TypeOK', NEW s \in Sessions, CallStep(s)
  PROVE  FlowInv'
<1>1. ASSUME NEW u \in Users, NEW c \in Cards, CreateReadCard(s, u, c)
      PROVE  FlowInv'
  <2>1. PICK k \in Calls :
           k = [pc |-> "create_blocks", by |-> u, card |-> c, level |-> shared[c]]
    BY <1>1 DEF CreateReadCard, Calls, Creating
  <2> QED
    BY <1>1, <2>1, FlowQuiet DEF CreateReadCard, Begin
<1>2. ASSUME CreateCheckBlocks(s)
      PROVE  FlowInv'
  <2>1. PICK k \in Calls : k = [call[s] EXCEPT !.pc = "create_direct"] /\ k.pc = "create_direct"
    BY <1>2, CallKinds DEF CreateCheckBlocks, Calls, Creating, FlowInv
  <2> QED
    BY <1>2, <2>1, FlowQuiet, FlowUndo DEF CreateCheckBlocks
<1>3. ASSUME CreateCheckDirect(s)
      PROVE  FlowInv'
  <2>1. call[s] \in Creating
    BY <1>3, CallKinds DEF CreateCheckDirect, FlowInv
  <2>2. [call[s] EXCEPT !.pc = "create_mutual"] \in Creating
    BY <2>1 DEF Creating
  <2>3. PICK k \in Calls : k = [call[s] EXCEPT !.pc = "create_mutual"]
    BY <2>2 DEF Calls
  <2>4. k.pc = "create_mutual"
    BY <2>1, <2>3 DEF Creating
  <2> QED
    BY <1>3, <2>1, <2>3, <2>4, FlowQuiet, FlowInsert DEF CreateCheckDirect
<1>4. ASSUME CreateFindMutual(s)
      PROVE  FlowInv'
  <2>1. call[s] \in Creating
    BY <1>4, CallKinds DEF CreateFindMutual, FlowInv
  <2> QED
    BY <1>4, <2>1, FlowInsert, FlowUndo DEF CreateFindMutual
<1>5. ASSUME CreateInsert(s) \/ Update(s) \/ RevealInsert(s)
      PROVE  FlowInv'
  BY <1>5, FlowLock, FlowUndo DEF CreateInsert, Update, RevealInsert
<1>6. ASSUME Rollback(s)
      PROVE  FlowInv'
  BY <1>6, FlowUndo DEF Rollback
<1>7. ASSUME NEW r \in Requests, NEW e \in Decisions, RespondRead(s, r, e)
      PROVE  FlowInv'
  <2>1. Live(r) /\ e \in Events /\ e # "created"
    BY <1>7 DEF RespondRead, Live, Events, Decisions
  <2>2. Grounds(r, e)
    <3>1. r \in Referred => \E i \in DOMAIN request_events[r] :
                               request_events[r][i] = "referral_approved"
      BY <1>7, <2>1 DEF RespondRead, FlowInv, StatusIsAudited, IsLatest
    <3> QED
      BY <3>1 DEF Grounds, Logged, Decisions, Referrals
  <2> QED
    BY <1>7, <2>1, <2>2, FlowRead DEF RespondRead
<1>8. ASSUME NEW r \in Requests, NEW e \in Referrals, ReferralRead(s, r, e)
      PROVE  FlowInv'
  <2>1. e \in Events /\ e # "created" /\ Live(r) /\ Grounds(r, e)
    BY <1>8 DEF ReferralRead, Events, Decisions, Referrals, Grounds
  <2> QED
    BY <1>8, <2>1, FlowRead DEF ReferralRead
<1>9. ASSUME NEW r \in Requests, RevealRead(s, r)
      PROVE  FlowInv'
  <2>1. Live(r) /\ "contact_revealed" \in Events
    BY <1>9 DEF RevealRead, Live, Events
  <2>2. \E i \in DOMAIN request_events[r] : request_events[r][i] = "approved"
    BY <1>9, <2>1 DEF RevealRead, FlowInv, StatusIsAudited, IsLatest
  <2>3. Grounds(r, "contact_revealed")
    BY <2>2 DEF Grounds, Logged, Decisions, Referrals
  <2> QED
    BY <1>9, <2>1, <2>3, FlowRead DEF RevealRead
<1> QED
  BY <1>1, <1>2, <1>3, <1>4, <1>5, <1>6, <1>7, <1>8, <1>9,
     FlowDelete, FlowCommit, FlowCommitDelete DEF CallStep

\* Cards and the trust graph are not part of the audit.
LEMMA FlowStep ==
  ASSUME RequestFlowAssumption, FlowInv, [Next]_vars
  PROVE  FlowInv'
<1>1. TypeOK'
  BY TypeStep DEF FlowInv
<1>2. ASSUME UNCHANGED <<requests, request_events, call>>
      PROVE  FlowInv'
  BY <1>1, <1>2 DEF FlowInv, StatusIsAudited, Live, IsLatest, CallGrounded, Inserting, Writes,
                    Grounds, Logged, Deletes, Wrote
<1>3. CASE UNCHANGED vars
  BY <1>2, <1>3 DEF vars, rows
<1>4. CASE CardChange
  BY <1>2, <1>4 DEF CardChange, AddCard, EditCard
<1>5. CASE TrustChange
  BY <1>2, <1>5 DEF TrustChange, Befriend, Unfriend, Block, Unblock, rows
<1> QED
  BY <1>1, <1>3, <1>4, <1>5, FlowCallStep DEF Next

LEMMA FlowInit ==
  ASSUME RequestFlowAssumption, Init
  PROVE  FlowInv
<1>1. \A r \in Requests : ~Live(r)
  BY DEF Init, NoRow, Row, Live
<1> QED
  BY <1>1, TypeInit DEF Init, FlowInv, StatusIsAudited, CallGrounded, Inserting, Writes, Deletes,
                        Idle, Wrote

THEOREM Grounded == Spec => []FlowInv
BY FlowInit, FlowStep, RequestFlowAssumption, PTL DEF Spec

\* The status of a request is the last decision in its log, and its referral
\* status the last referral, whatever calls overlap.
THEOREM Audited == Spec => []StatusIsAudited
<1>1. FlowInv => StatusIsAudited
  BY DEF FlowInv
<1> QED
  BY <1>1, Grounded, PTL

-------------------------------------------------------------------------------
(* RequestFlow implements Disclosure.                                      *)

LEMMA DisclosureInit ==
  ASSUME Init
  PROVE  Abstract!DInit
BY DEF Init, Abstract!DInit, NoRow, Row, Live, Logged

\* A commit is the step of Disclosure that its event names, or none.
LEMMA DisclosureCommit ==
  ASSUME FlowInv, NEW s \in Sessions, Commit(s)
  PROVE  [Abstract!DNext]_Abstract!dvars
<1>1. PICK r \in Requests, e \in Events : r = call[s].req /\ e = call[s].event
  BY CallKinds DEF Commit, FlowInv, Writes, Writing
<1>2. /\ requests \in [Requests -> RowStates] /\ request_events \in [Requests -> Seq(Events)]
      /\ requests'[r] = After(r, e) /\ request_events'[r] = Append(request_events[r], e)
      /\ \A q \in Requests : q # r => /\ requests'[q] = requests[q]
                                      /\ request_events'[q] = request_events[q]
  BY <1>1 DEF Commit, FlowInv, TypeOK
<1>3. /\ e = "created" => ~Live(r)
      /\ e # "created" => Live(r) /\ Grounds(r, e)
  BY <1>1 DEF FlowInv, CallGrounded, Inserting, Live, Commit
<1>4. requests'[r].status \notin {"none", "deleted"}
  BY <1>2, <1>3 DEF After, Row, RowStates, Live, Decisions, Referrals
<1>5. {q \in Requests : Live(q)}' = {q \in Requests : Live(q)} \cup {r}
  BY <1>2, <1>4 DEF Live
<1>6. \A x : Logged(x)' = IF x = e THEN Logged(x) \cup {r} ELSE Logged(x)
  <2>1. /\ DOMAIN request_events'[r] = 1..(Len(request_events[r]) + 1)
        /\ DOMAIN request_events[r] = 1..Len(request_events[r]) /\ Len(request_events[r]) \in Nat
        /\ request_events'[r][Len(request_events[r]) + 1] = e
        /\ \A i \in 1..Len(request_events[r]) : request_events'[r][i] = request_events[r][i]
    BY <1>2
  <2>2. \A x : r \in Logged(x)' <=> r \in Logged(x) \/ x = e
    BY <2>1 DEF Logged
  <2>3. \A x : \A q \in Requests : q # r => (q \in Logged(x)' <=> q \in Logged(x))
    BY <1>2 DEF Logged
  <2>4. \A x : Logged(x) \subseteq Requests /\ Logged(x)' \subseteq Requests
    BY DEF Logged
  <2> QED
    BY <2>2, <2>3, <2>4
<1>7. CASE e = "created"
  BY <1>3, <1>5, <1>6, <1>7 DEF Abstract!DNext, Abstract!Ask
<1>8. CASE e = "referral_approved"
  BY <1>3, <1>5, <1>6, <1>8 DEF Abstract!DNext, Abstract!Vouch, Grounds, Referrals
<1>9. CASE e = "approved"
  BY <1>3, <1>5, <1>6, <1>9 DEF Abstract!DNext, Abstract!Grant, Grounds, Decisions
<1>10. CASE e = "contact_revealed"
  BY <1>3, <1>5, <1>6, <1>10 DEF Abstract!DNext, Abstract!Disclose, Grounds
<1>11. CASE e \notin {"created", "referral_approved", "approved", "contact_revealed"}
  BY <1>3, <1>5, <1>6, <1>11 DEF Abstract!dvars
<1> QED
  BY <1>7, <1>8, <1>9, <1>10, <1>11

\* Deleting a card withdraws its requests.
LEMMA DisclosureDelete ==
  ASSUME FlowInv, NEW s \in Sessions, CommitDelete(s)
  PROVE  Abstract!DNext
<1>1. PICK c \in Cards : c = call[s].card
  BY CallKinds DEF CommitDelete, FlowInv, Deleting
<1> DEFINE gone == {r \in OfCard(c) : Live(r)}
<1>2. /\ \A q \in Requests : IF q \in gone
                             THEN requests'[q] = GoneRow /\ request_events'[q] = <<>>
                             ELSE requests'[q] = requests[q] /\ request_events'[q] = request_events[q]
      /\ gone \subseteq Requests
  BY <1>1 DEF CommitDelete, OfCard
<1>3. {q \in Requests : Live(q)}' = {q \in Requests : Live(q)} \ gone
  BY <1>2 DEF Live, GoneRow, Row
<1>4. \A x : Logged(x)' = Logged(x) \ gone
  BY <1>2 DEF Logged
<1>5. Abstract!Withdraw(gone)
  BY <1>3, <1>4 DEF Abstract!Withdraw
<1> QED
  BY <1>2, <1>5 DEF Abstract!DNext

LEMMA DisclosureStep ==
  ASSUME FlowInv, [Next]_vars
  PROVE  [Abstract!DNext]_Abstract!dvars
<1>1. ASSUME UNCHANGED <<requests, request_events>>
      PROVE  UNCHANGED Abstract!dvars
  BY <1>1 DEF Abstract!dvars, Live, Logged
<1>2. CASE UNCHANGED vars
  BY <1>1, <1>2 DEF vars, rows
<1>3. CASE CardChange
  BY <1>1, <1>3 DEF CardChange, AddCard, EditCard
<1>4. CASE TrustChange
  BY <1>1, <1>4 DEF TrustChange, Befriend, Unfriend, Block, Unblock, rows
<1>5. ASSUME NEW s \in Sessions, CallStep(s), ~Commit(s), ~CommitDelete(s)
      PROVE  UNCHANGED <<requests, request_events>>
  BY <1>5 DEF CallStep, CreateReadCard, CreateCheckBlocks, CreateCheckDirect, CreateFindMutual,
              Insert, CreateInsert, RespondRead, ReferralRead, Update, RevealRead, RevealInsert,
              DeleteCard, Rollback, Begin, Undo, Goto, rows
<1> QED
  BY <1>1, <1>2, <1>3, <1>4, <1>5, DisclosureCommit, DisclosureDelete DEF Next

\* Whatever calls overlap, contacts are disclosed as Disclosure promises.
THEOREM Discloses == Spec => ImplementsDisclosure
BY DisclosureInit, DisclosureStep, Grounded, PTL DEF Spec, ImplementsDisclosure, Abstract!DSpec

-------------------------------------------------------------------------------
(* As long as calls have not disturbed each other.                         *)

\* What a create has found is not touched while it runs.
LEMMA CreateKept ==
  ASSUME StandsStill, NEW t \in Sessions, CreateStands(t), call'[t] = call[t]
  PROVE  CreateStands(t)'
<1>1. CASE InCreate(t)
  BY <1>1 DEF StandsStill, CreateStands, Inserting, WithinReach, Unblocked, Mutuals, Friends
<1>2. CASE ~InCreate(t)
  BY <1>2 DEF CreateStands, InCreate, Inserting
<1> QED
  BY <1>1, <1>2

\* A step that only moves a session keeps the invariant if it stands for the
\* session's next program point.
LEMMA WatchGoto ==
  ASSUME TypeOK, \A t \in Sessions : CreateStands(t) /\ DecisionStands(t),
         NEW s \in Sessions, NEW c \in Calls, Goto(s, c),
         c.pc \in {"create_blocks", "create_direct", "create_mutual"} => shared[c.card] = c.level,
         c.pc \in {"create_direct", "create_mutual"} => Unblocked(c.by, c.card),
         c.pc = "insert" \/ (c.pc = "commit" /\ c.event = "created") => WithinReach(c.req),
         c.pc \in {"insert", "update", "reveal", "commit"} /\ c.event \in Decisions =>
           requests[c.req].status \in {"pending", "deleted"}
  PROVE  \A t \in Sessions : CreateStands(t)' /\ DecisionStands(t)'
<1>1. call'[s] = c /\ \A t \in Sessions \ {s} : call'[t] = call[t]
  BY DEF Goto, TypeOK
<1>2. UNCHANGED <<friends, blocked, shared, requests>>
  BY DEF Goto, trust, rows
<1>3. \A r : WithinReach(r)' = WithinReach(r)
  BY <1>2 DEF WithinReach, Unblocked, Mutuals, Friends
<1>4. \A u, k : Unblocked(u, k)' = Unblocked(u, k)
  BY <1>2 DEF Unblocked
<1> QED
  BY <1>1, <1>2, <1>3, <1>4 DEF CreateStands, DecisionStands, Inserting, Writes

\* The INSERT of create_request is within reach if its checks were.
LEMMA WatchInsert ==
  ASSUME RequestFlowAssumption, TypeOK, \A t \in Sessions : CreateStands(t) /\ DecisionStands(t),
         NEW s \in Sessions, call[s] \in Creating, call[s].pc \in {"create_direct", "create_mutual"},
         NEW m \in Mutuals(call[s].by, Owner[call[s].card]) \cup {NoUser}, Insert(s, m),
         IF m = NoUser THEN Friends(call[s].by, Owner[call[s].card]) ELSE call[s].level = "network"
  PROVE  \A t \in Sessions : CreateStands(t)' /\ DecisionStands(t)'
<1>1. PICK n \in 1..MaxRequests :
         Goto(s, Write("insert",
                [by |-> call[s].by, card |-> call[s].card, via |-> m, n |-> n], "created"))
  BY DEF Insert
<1>2. PICK r : r = [by |-> call[s].by, card |-> call[s].card, via |-> m, n |-> n]
  OBVIOUS
<1>3. r \in Requests /\ r.by = call[s].by /\ r.card = call[s].card /\ r.via = m
  BY <1>2, InsertKey DEF Creating
<1>4. shared[r.card] = call[s].level /\ Unblocked(r.by, r.card) /\ call[s].level \in {"friends", "network"}
  BY <1>3 DEF CreateStands, Creating
<1>5. WithinReach(r)
  BY <1>3, <1>4 DEF WithinReach, Referred
<1>6. Write("insert", r, "created") \in Calls
  BY <1>3 DEF Calls, Writing, Write, Events
<1>7. Goto(s, Write("insert", r, "created"))
  BY <1>1, <1>2
<1> QED
  BY <1>5, <1>6, <1>7, WatchGoto DEF Write, Decisions

\* Every step of a call keeps the invariant, as long as calls stay apart.
LEMMA WatchCallStep ==
  ASSUME RequestFlowAssumption, FlowInv, Apart, StandsStill,
         \A t \in Sessions : CreateStands(t) /\ DecisionStands(t),
         NEW s \in Sessions, CallStep(s)
  PROVE  \A t \in Sessions : CreateStands(t)' /\ DecisionStands(t)'
<1>0. TypeOK
  BY DEF FlowInv
<1>1. ASSUME Undo(s)
      PROVE  \A t \in Sessions : CreateStands(t)' /\ DecisionStands(t)'
  BY <1>0, <1>1, IdleCall, WatchGoto DEF Undo, Idle
<1>2. ASSUME NEW u \in Users, NEW c \in Cards, CreateReadCard(s, u, c)
      PROVE  \A t \in Sessions : CreateStands(t)' /\ DecisionStands(t)'
  <2>1. [pc |-> "create_blocks", by |-> u, card |-> c, level |-> shared[c]] \in Calls
    BY <1>2 DEF CreateReadCard, Calls, Creating
  <2> QED
    BY <1>0, <1>2, <2>1, WatchGoto DEF CreateReadCard, Begin
<1>3. ASSUME CreateCheckBlocks(s), ~Undo(s)
      PROVE  \A t \in Sessions : CreateStands(t)' /\ DecisionStands(t)'
  <2>1. call[s] \in Creating /\ call[s].pc = "create_blocks" /\ Unblocked(call[s].by, call[s].card)
    BY <1>0, <1>3, CallKinds DEF CreateCheckBlocks, Unblocked
  <2>2. PICK k : k = [call[s] EXCEPT !.pc = "create_direct"]
    OBVIOUS
  <2>3. /\ k \in Calls /\ k.pc = "create_direct" /\ k.by = call[s].by
        /\ k.card = call[s].card /\ k.level = call[s].level
    BY <2>1, <2>2 DEF Calls, Creating
  <2>4. Goto(s, k) /\ shared[k.card] = k.level
    BY <1>3, <2>1, <2>2, <2>3 DEF CreateCheckBlocks, CreateStands
  <2> QED
    BY <1>0, <2>1, <2>3, <2>4, WatchGoto
<1>4. ASSUME CreateCheckDirect(s)
      PROVE  \A t \in Sessions : CreateStands(t)' /\ DecisionStands(t)'
  <2>1. call[s] \in Creating /\ call[s].pc = "create_direct"
    BY <1>0, <1>4, CallKinds DEF CreateCheckDirect
  <2>2. CASE Friends(call[s].by, Owner[call[s].card])
    BY <1>0, <1>4, <2>1, <2>2, WatchInsert DEF CreateCheckDirect
  <2>3. CASE ~Friends(call[s].by, Owner[call[s].card])
    <3>1. PICK k : k = [call[s] EXCEPT !.pc = "create_mutual"]
      OBVIOUS
    <3>2. /\ k \in Calls /\ k.pc = "create_mutual" /\ k.by = call[s].by
          /\ k.card = call[s].card /\ k.level = call[s].level
      BY <2>1, <3>1 DEF Calls, Creating
    <3>3. Goto(s, k) /\ shared[k.card] = k.level /\ Unblocked(k.by, k.card)
      BY <1>4, <2>1, <2>3, <3>1, <3>2 DEF CreateCheckDirect, CreateStands
    <3> QED
      BY <1>0, <3>2, <3>3, WatchGoto
  <2> QED
    BY <2>2, <2>3
<1>5. ASSUME CreateFindMutual(s), ~Undo(s)
      PROVE  \A t \in Sessions : CreateStands(t)' /\ DecisionStands(t)'
  <2>1. call[s] \in Creating /\ call[s].pc = "create_mutual"
    BY <1>0, <1>5, CallKinds DEF CreateFindMutual
  <2>2. PICK m \in Mutuals(call[s].by, Owner[call[s].card]) : call[s].level = "network" /\ Insert(s, m)
    BY <1>5 DEF CreateFindMutual
  <2>3. m # NoUser
    BY <2>2 DEF Mutuals, RequestFlowAssumption
  <2> QED
    BY <1>0, <2>1, <2>2, <2>3, WatchInsert
<1>6. ASSUME CreateInsert(s) \/ Update(s) \/ RevealInsert(s), ~Undo(s)
      PROVE  \A t \in Sessions : CreateStands(t)' /\ DecisionStands(t)'
  <2>1. call[s] \in Writing /\ call[s].pc \in {"insert", "update", "reveal"} /\ Goto(s, Committable(s))
    BY <1>0, <1>6, CallKinds DEF CreateInsert, Update, RevealInsert, Writes
  <2>2. PICK k : k = Committable(s)
    OBVIOUS
  <2>3. k \in Calls /\ k.pc = "commit" /\ k.req = call[s].req /\ k.event = call[s].event
    BY <2>1, <2>2 DEF Calls, Writing, Committable
  <2>4. k.event = "created" => WithinReach(k.req)
    BY <2>1, <2>3 DEF CreateStands, Inserting, FlowInv, CallGrounded
  <2>5. k.event \in Decisions => requests[k.req].status \in {"pending", "deleted"}
    BY <2>1, <2>3 DEF DecisionStands, Writes
  <2> QED
    BY <1>0, <2>1, <2>2, <2>3, <2>4, <2>5, WatchGoto
<1>7. ASSUME NEW r \in Requests, NEW e \in Events, e # "created",
             e \in Decisions => requests[r].status = "pending",
             Begin(s, Write("update", r, e)) \/ Begin(s, Write("reveal", r, e))
      PROVE  \A t \in Sessions : CreateStands(t)' /\ DecisionStands(t)'
  <2>1. Write("update", r, e) \in Calls /\ Write("reveal", r, e) \in Calls
    BY DEF Write, Calls, Writing
  <2> QED
    BY <1>0, <1>7, <2>1, WatchGoto DEF Begin, Write
<1>8. ASSUME NEW r \in Requests, NEW e \in Decisions, RespondRead(s, r, e)
      PROVE  \A t \in Sessions : CreateStands(t)' /\ DecisionStands(t)'
  BY <1>7, <1>8 DEF RespondRead, Events, Decisions
<1>9. ASSUME NEW r \in Requests, NEW e \in Referrals, ReferralRead(s, r, e)
      PROVE  \A t \in Sessions : CreateStands(t)' /\ DecisionStands(t)'
  BY <1>7, <1>9 DEF ReferralRead, Events, Referrals, Decisions
<1>10. ASSUME NEW r \in Requests, RevealRead(s, r)
       PROVE  \A t \in Sessions : CreateStands(t)' /\ DecisionStands(t)'
  BY <1>7, <1>10 DEF RevealRead, Events, Decisions
<1>11. ASSUME NEW c \in Cards, DeleteCard(s, c)
       PROVE  \A t \in Sessions : CreateStands(t)' /\ DecisionStands(t)'
  <2>1. [pc |-> "delete", card |-> c] \in Calls
    BY DEF Calls, Deleting
  <2> QED
    BY <1>0, <1>11, <2>1, WatchGoto DEF DeleteCard, Begin
<1>12. ASSUME Commit(s) \/ CommitDelete(s)
       PROVE  \A t \in Sessions : CreateStands(t)' /\ DecisionStands(t)'
  <2>1. call'[s] = Idle /\ \A t \in Sessions \ {s} : call'[t] = call[t]
    BY <1>0, <1>12 DEF Commit, CommitDelete, TypeOK
  <2>2. CreateStands(s)' /\ DecisionStands(s)'
    BY <2>1 DEF CreateStands, DecisionStands, Inserting, Writes, Idle
  <2>3. ASSUME NEW t \in Sessions \ {s}
        PROVE  CreateStands(t)' /\ DecisionStands(t)'
    <3>1. CreateStands(t)'
      BY <2>1, <2>3, CreateKept
    <3>2. ASSUME Writes(t)
          PROVE  requests'[call[t].req].status \in {requests[call[t].req].status, "deleted"}
      <4>1. call[t].req \in Requests
        BY <1>0, <3>2, CallKinds DEF Writing
      <4>2. CASE Commit(s)
        BY <1>0, <2>3, <3>2, <4>1, <4>2 DEF Commit, TypeOK, Apart, Writes
      <4>3. CASE CommitDelete(s)
        BY <4>1, <4>3 DEF CommitDelete, GoneRow, Row
      <4> QED
        BY <1>12, <4>2, <4>3
    <3>3. DecisionStands(t)'
      BY <2>1, <2>3, <3>2 DEF DecisionStands, Writes
    <3> QED
      BY <3>1, <3>3
  <2> QED
    BY <2>2, <2>3
<1> QED
  BY <1>1, <1>2, <1>3, <1>4, <1>5, <1>6, <1>8, <1>9, <1>10, <1>11, <1>12 DEF CallStep, Rollback

\* The cards and the trust graph change only while no request is being created.
LEMMA WatchStep ==
  ASSUME RequestFlowAssumption, FlowInv, WatchInv, [Next /\ Watched]_<<vars, disturbed>>
  PROVE  WatchInv'
<1>1. CASE UNCHANGED <<vars, disturbed>>
  BY <1>1 DEF vars, trust, rows, WatchInv, Apart, InCreate, Writes, CreateStands, DecisionStands,
              Inserting, WithinReach, Unblocked, Mutuals, Friends
<1>2. ASSUME Next, Watched, ~disturbed'
      PROVE  Apart' /\ \A t \in Sessions : CreateStands(t)' /\ DecisionStands(t)'
  <2>1. ~disturbed /\ Apart' /\ StandsStill
    BY <1>2 DEF Watched
  <2>2. Apart /\ \A t \in Sessions : CreateStands(t) /\ DecisionStands(t)
    BY <2>1 DEF WatchInv
  <2>3. ASSUME NEW s \in Sessions, CallStep(s)
        PROVE  \A t \in Sessions : CreateStands(t)' /\ DecisionStands(t)'
    BY <2>1, <2>2, <2>3, WatchCallStep
  <2>4. ASSUME UNCHANGED <<requests, call>>
        PROVE  \A t \in Sessions : CreateStands(t)' /\ DecisionStands(t)'
    <3>1. \A t \in Sessions : CreateStands(t)'
      BY <2>1, <2>2, <2>4, CreateKept
    <3>2. \A t \in Sessions : DecisionStands(t)'
      BY <2>2, <2>4 DEF DecisionStands, Writes
    <3> QED
      BY <3>1, <3>2
  <2>5. CASE CardChange
    BY <2>1, <2>4, <2>5 DEF CardChange, AddCard, EditCard
  <2>6. CASE TrustChange
    BY <2>1, <2>4, <2>6 DEF TrustChange, Befriend, Unfriend, Block, Unblock, rows
  <2> QED
    BY <1>2, <2>1, <2>3, <2>5, <2>6 DEF Next
<1> QED
  BY <1>1, <1>2 DEF WatchInv

LEMMA WatchInit ==
  ASSUME RequestFlowAssumption, Init
  PROVE  WatchInv
BY DEF Init, WatchInv, Apart, InCreate, Writes, CreateStands, DecisionStands, Inserting, Idle

\* What both theorems rest on.
LEMMA WatchInvariance == SpecWatched => [](FlowInv /\ WatchInv)
<1>1. ASSUME FlowInv, [Next /\ Watched]_<<vars, disturbed>>
      PROVE  FlowInv'
  BY <1>1, FlowStep, RequestFlowAssumption DEF vars
<1> QED
  BY <1>1, FlowInit, WatchInit, WatchStep, RequestFlowAssumption, PTL DEF SpecWatched

\* Only a commit gives a request another status than "deleted".
LEMMA StatusStep ==
  ASSUME RequestFlowAssumption, FlowInv, Next, NEW r \in Requests,
         requests'[r].status \notin {requests[r].status, "deleted"}
  PROVE  \E s \in Sessions :
           /\ call[s].pc = "commit" /\ call[s].req = r
           /\ requests'[r] = After(r, call[s].event)
           /\ Inserting(s) \/ (call[s].event \in Decisions /\ requests'[r].status = call[s].event)
<1>1. PICK s \in Sessions : CallStep(s)
  BY DEF Next, CardChange, AddCard, EditCard, TrustChange, Befriend, Unfriend, Block, Unblock, rows
<1>2. Commit(s)
  <2>1. CASE CommitDelete(s)
    BY <2>1 DEF CommitDelete, GoneRow, Row
  <2> QED
    BY <1>1, <2>1 DEF CallStep, CreateReadCard, CreateCheckBlocks, CreateCheckDirect,
         CreateFindMutual, CreateInsert, RespondRead, ReferralRead, Update, RevealRead, RevealInsert,
         DeleteCard, Rollback, Insert, Begin, Undo, Goto, rows
<1>3. /\ call[s].pc = "commit" /\ call[s].req = r /\ call[s].event \in Events
      /\ requests'[r] = After(r, call[s].event)
  <2>1. call[s] \in Writing
    BY <1>2, CallKinds DEF Commit, FlowInv, Writes
  <2> QED
    BY <1>2, <2>1 DEF Commit, FlowInv, TypeOK, Writing
<1>4. Inserting(s) \/ (call[s].event \in Decisions /\ requests'[r].status = call[s].event)
  BY <1>3 DEF After, Events, Row, Decisions, Referrals, Inserting
<1> QED
  BY <1>3, <1>4

\* A decision is final as long as no two calls have been on one request.
THEOREM DecidesOnce == SpecWatched => DecidedOnce
<1>1. ASSUME FlowInv, WatchInv, [Next /\ Watched]_<<vars, disturbed>>
      PROVE  [~disturbed' => KeepsDecisions]_vars
  <2>1. SUFFICES ASSUME Next, ~disturbed', ~disturbed, NEW r \in Requests,
                        requests[r].status \in Decisions,
                        requests'[r].status \notin {requests[r].status, "deleted"}
                 PROVE  FALSE
    BY <1>1 DEF KeepsDecisions, Watched, vars
  <2>2. PICK s \in Sessions :
          /\ call[s].pc = "commit" /\ call[s].req = r
          /\ Inserting(s) \/ call[s].event \in Decisions
    BY <1>1, <2>1, StatusStep, RequestFlowAssumption
  <2>3. ~Inserting(s)
    BY <1>1, <2>1, <2>2 DEF FlowInv, CallGrounded, Decisions
  <2> QED
    BY <1>1, <2>1, <2>2, <2>3 DEF WatchInv, DecisionStands, Writes, Decisions
<1> QED
  BY <1>1, WatchInvariance, PTL DEF SpecWatched, DecidedOnce

\* A request comes into being only across a friendship or through a mutual
\* friend, and never across a block, as long as the cards and the trust graph
\* have stood still during every create.
THEOREM CreatesInReach == SpecWatched => CreatedWithinReach
<1>1. ASSUME FlowInv, WatchInv, [Next /\ Watched]_<<vars, disturbed>>
      PROVE  [~disturbed' => CreatesWithinReach]_vars
  <2>1. SUFFICES ASSUME Next, ~disturbed', ~disturbed, NEW r \in Requests,
                        ~Live(r), requests'[r].status = "pending"
                 PROVE  WithinReach(r)
    BY <1>1 DEF CreatesWithinReach, Watched, vars
  <2>2. PICK s \in Sessions :
          /\ call[s].pc = "commit" /\ call[s].req = r
          /\ Inserting(s) \/ (requests'[r].status = call[s].event /\ call[s].event \in Decisions)
    BY <1>1, <2>1, StatusStep, RequestFlowAssumption DEF Live
  <2>3. Inserting(s)
    BY <2>1, <2>2 DEF Decisions
  <2> QED
    BY <1>1, <2>1, <2>2, <2>3 DEF WatchInv, CreateStands
<1> QED
  BY <1>1, WatchInvariance, PTL DEF SpecWatched, CreatedWithinReach
===============================================================================
