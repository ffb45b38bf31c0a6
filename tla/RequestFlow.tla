------------------------------ MODULE RequestFlow ------------------------------
(***************************************************************************)
(* Requests for a card: resources, requests and request_events, and the    *)
(* calls create_request, respond_to_request, respond_to_referral and       *)
(* reveal_contact, next to the owner's edits and deletion of the card and  *)
(* to the changes of the trust graph that create_request reads.            *)
(*                                                                         *)
(* As in TrustGraph a call is one READ COMMITTED transaction. Each writes  *)
(* one row and its event, so the uncommitted write of a session is the     *)
(* event its call carries; it becomes visible at Commit.                   *)
(***************************************************************************)
EXTENDS Naturals, Sequences, FiniteSets

CONSTANTS
  Users,
  NoUser,       \* "intermediary_id is null"
  Cards,        \* rows ever inserted into resources
  Owner,        \* owner_id of each card
  Sessions,     \* database connections serving calls
  MaxRequests,  \* bound: rows ever inserted into requests
  MaxEvents,    \* bound: events per request
  RateLimit     \* requests per hour and requester (20 in the code)

ASSUME RequestFlowAssumption ==
  /\ NoUser \notin Users
  /\ Owner \in [Cards -> Users]
  /\ MaxRequests \in Nat \ {0}
  /\ MaxEvents \in Nat
  /\ RateLimit \in Nat

VARIABLES
  friends,         \* unordered pairs of friends
  blocked,         \* unordered pairs with a block in either direction
  shared,          \* per card: who may ask for it
  requests,        \* committed status and referral_status of every possible row
  request_events,  \* committed events of every possible row, in commit order
  call             \* per session: the call in progress

trust == <<friends, blocked>>
rows == <<shared, requests, request_events>>
vars == <<trust, rows, call>>

-------------------------------------------------------------------------------

Pairs == {{p[1], p[2]} : p \in {q \in Users \X Users : q[1] # q[2]}}
Friends(u, v) == {u, v} \in friends
Mutuals(u, v) == {m \in Users : Friends(u, m) /\ Friends(m, v)}

\* "hidden" is a card nobody may ask for: visibility_depth 0, or request_enabled
\* off, or a status other than active. "friends" is depth 1, "network" 2 or 3.
Levels == {"hidden", "friends", "network"}
Sharing == Levels \cup {"absent", "deleted"}

\* requester, resource, intermediary and number are fixed at the INSERT: the key.
Requests ==
  {r \in [by : Users, card : Cards, via : Users \cup {NoUser}, n : 1..MaxRequests] :
     r.by # Owner[r.card] /\ r.via \notin {r.by, Owner[r.card]}}
Referred == {r \in Requests : r.via # NoUser}
OfCard(c) == {r \in Requests : r.card = c}

Decisions == {"approved", "declined", "ignored"}
Referrals == {"referral_approved", "referral_declined", "referral_ignored"}
Events == {"created", "contact_revealed"} \cup Decisions \cup Referrals
Row(status, referral) == [status |-> status, referral |-> referral]
RowStates == [status : Decisions \cup {"none", "pending", "deleted"},
              referral : Referrals \cup {"not_required", "pending"}]
NoRow == Row("none", "not_required")
GoneRow == Row("deleted", "not_required")
Live(r) == requests[r].status \notin {"none", "deleted"}

\* A row after the statement that goes with event e; the referral status keeps
\* the name of its event. A new row waits for its intermediary, if it has one.
After(r, e) ==
  CASE e = "created" -> Row("pending", IF r \in Referred THEN "pending" ELSE "not_required")
    [] e \in Decisions -> Row(e, requests[r].referral)
    [] e \in Referrals -> Row(requests[r].status, e)
    [] OTHER -> requests[r]

Idle == [pc |-> "idle"]
Creating ==
  {c \in [pc : {"create_blocks", "create_direct", "create_mutual"},
          by : Users, card : Cards, level : {"friends", "network"}] :
     c.by # Owner[c.card]}
Writing == [pc : {"insert", "update", "reveal", "commit"}, req : Requests, event : Events]
Deleting == [pc : {"delete"}, card : Cards]
Calls == {Idle} \cup Creating \cup Writing \cup Deleting

Busy(s) == call[s].pc # "idle"
Writes(s) == call[s].pc \in {"insert", "update", "reveal", "commit"}

\* What the sessions hold until they commit.
Deletes(t, c) == call[t].pc = "delete" /\ call[t].card = c
Wrote(t, r) == call[t].pc = "commit" /\ call[t].req = r
Updated(t, r) == Wrote(t, r) /\ call[t].event \in Decisions \cup Referrals
Others(s) == Sessions \ {s}

-------------------------------------------------------------------------------
(* Steps of a call.                                                        *)

Goto(s, c) == call' = [call EXCEPT ![s] = c] /\ UNCHANGED <<trust, rows>>
Begin(s, c) == ~Busy(s) /\ Goto(s, c)
Undo(s) == Goto(s, Idle)          \* an exception ends the transaction

Write(pc, r, e) == [pc |-> pc, req |-> r, event |-> e]
Committable(s) == [call[s] EXCEPT !.pc = "commit"]

\* Bound on the events of a request, the ones under way included.
Room(r) ==
  Len(request_events[r]) + Cardinality({t \in Sessions : Writes(t) /\ call[t].req = r})
    < MaxEvents

CreateReadCard(s, u, c) ==
  /\ Owner[c] # u
  /\ shared[c] \in {"friends", "network"}
  /\ Begin(s, [pc |-> "create_blocks", by |-> u, card |-> c, level |-> shared[c]])

\* Mutant: the blocks are not looked at.
CreateCheckBlocks_Unchecked(s) ==
  /\ call[s].pc = "create_blocks"
  /\ Goto(s, [call[s] EXCEPT !.pc = "create_direct"])

CreateCheckBlocks(s) ==
  /\ call[s].pc = "create_blocks"
  /\ IF {call[s].by, Owner[call[s].card]} \in blocked
     THEN Undo(s)
     ELSE Goto(s, [call[s] EXCEPT !.pc = "create_direct"])

\* The next number that no row and no INSERT under way has.
Numbers ==
  {r.n : r \in {q \in Requests : requests[q].status # "none"}} \cup
  {call[t].req.n : t \in {x \in Sessions : Writes(x)}}
Fresh(n) == n \in (1..MaxRequests) \ Numbers /\ 1..(n - 1) \subseteq Numbers

Insert(s, m) ==
  \E n \in 1..MaxRequests :
     /\ Fresh(n)
     /\ Goto(s, Write("insert",
                      [by |-> call[s].by, card |-> call[s].card, via |-> m, n |-> n],
                      "created"))

CreateCheckDirect(s) ==
  /\ call[s].pc = "create_direct"
  /\ IF Friends(call[s].by, Owner[call[s].card])
     THEN Insert(s, NoUser)
     ELSE Goto(s, [call[s] EXCEPT !.pc = "create_mutual"])

\* Any mutual friend (limit 1); the card's depth is the one read at first.
CreateFindMutual(s) ==
  LET m == Mutuals(call[s].by, Owner[call[s].card])
  IN  /\ call[s].pc = "create_mutual"
      /\ IF m = {} \/ call[s].level # "network"
         THEN Undo(s)
         ELSE \E i \in m : Insert(s, i)

SentBy(u) == {r \in Requests : r.by = u /\ Live(r)}

\* The hourly count, then the INSERT of the row and of its event. The clock is
\* abstracted: with RateLimit rows it may go either way. The foreign key waits
\* for a deletion under way, and fails when the card is gone.
CreateInsert(s) ==
  LET r == call[s].req
  IN  /\ call[s].pc = "insert"
      /\ ~\E t \in Others(s) : Deletes(t, r.card)
      /\ \/ IF shared[r.card] = "deleted" THEN Undo(s) ELSE Goto(s, Committable(s))
         \/ Cardinality(SentBy(r.by)) >= RateLimit /\ Undo(s)

\* Mutant: the request_not_pending check is missing.
RespondRead_AnyStatus(s, r, e) ==
  /\ Live(r) /\ Room(r)
  /\ r \in Referred => requests[r].referral = "referral_approved"
  /\ Begin(s, Write("update", r, e))

\* Mutant: the owner need not wait for the referral.
RespondRead_NoReferral(s, r, e) ==
  /\ requests[r].status = "pending" /\ Room(r)
  /\ Begin(s, Write("update", r, e))

RespondRead(s, r, e) ==
  /\ requests[r].status = "pending" /\ Room(r)
  /\ r \in Referred => requests[r].referral = "referral_approved"
  /\ Begin(s, Write("update", r, e))

ReferralRead(s, r, e) ==          \* whatever the status of the request
  /\ Live(r) /\ Room(r)
  /\ r \in Referred
  /\ Begin(s, Write("update", r, e))

\* UPDATE ... WHERE id, and the INSERT of the event: nothing is checked again.
\* A row deleted in between fails the foreign key of the event.
Update(s) ==
  LET r == call[s].req
  IN  /\ call[s].pc = "update"
      /\ ~\E t \in Others(s) : Updated(t, r) \/ Deletes(t, r.card)
      /\ IF Live(r) THEN Goto(s, Committable(s)) ELSE Undo(s)

RevealRead(s, r) ==               \* by the owner or the requester
  /\ requests[r].status = "approved" /\ Room(r)
  /\ Begin(s, Write("reveal", r, "contact_revealed"))

RevealInsert(s) ==                \* its key share lock only minds a deletion
  LET r == call[s].req
  IN  /\ call[s].pc = "reveal"
      /\ ~\E t \in Others(s) : Deletes(t, r.card)
      /\ IF Live(r) THEN Goto(s, Committable(s)) ELSE Undo(s)

\* DELETE of the card cascades to its requests and to their events.
DeleteCard(s, c) ==
  /\ shared[c] \in Levels
  /\ ~\E t \in Sessions : Deletes(t, c)
  /\ ~\E t \in Sessions, r \in OfCard(c) : Wrote(t, r)
  /\ Begin(s, [pc |-> "delete", card |-> c])

Rollback(s) == Busy(s) /\ Undo(s)

\* Mutant: an answer is committed without its event.
Commit_NoEvent(s) ==
  LET r == call[s].req
      e == call[s].event
  IN  /\ call[s].pc = "commit"
      /\ requests' = [requests EXCEPT ![r] = After(r, e)]
      /\ request_events' = [request_events EXCEPT ![r] = IF e \in Decisions THEN @ ELSE Append(@, e)]
      /\ call' = [call EXCEPT ![s] = Idle]
      /\ UNCHANGED <<trust, shared>>

Commit(s) ==
  LET r == call[s].req
      e == call[s].event
  IN  /\ call[s].pc = "commit"
      /\ requests' = [requests EXCEPT ![r] = After(r, e)]
      /\ request_events' = [request_events EXCEPT ![r] = Append(@, e)]
      /\ call' = [call EXCEPT ![s] = Idle]
      /\ UNCHANGED <<trust, shared>>

\* Mutant: the requests of the card survive with a status of their own.
CommitDelete_Orphan(s) ==
  LET c == call[s].card
      gone == {r \in OfCard(c) : Live(r)}
  IN  /\ call[s].pc = "delete"
      /\ shared' = [shared EXCEPT ![c] = "deleted"]
      /\ requests' = [r \in Requests |-> IF r \in gone THEN Row("orphan", "pending") ELSE requests[r]]
      /\ request_events' = [r \in Requests |-> IF r \in gone THEN <<>> ELSE request_events[r]]
      /\ call' = [call EXCEPT ![s] = Idle]
      /\ UNCHANGED trust

CommitDelete(s) ==
  LET c == call[s].card
      gone == {r \in OfCard(c) : Live(r)}
  IN  /\ call[s].pc = "delete"
      /\ shared' = [shared EXCEPT ![c] = "deleted"]
      /\ requests' = [r \in Requests |-> IF r \in gone THEN GoneRow ELSE requests[r]]
      /\ request_events' = [r \in Requests |-> IF r \in gone THEN <<>> ELSE request_events[r]]
      /\ call' = [call EXCEPT ![s] = Idle]
      /\ UNCHANGED trust

-------------------------------------------------------------------------------
(* Calls of one statement, and the trust graph (TrustGraph has its steps). *)

AddCard(c, level) ==
  /\ shared[c] = "absent"
  /\ shared' = [shared EXCEPT ![c] = level]
  /\ UNCHANGED <<trust, requests, request_events, call>>

EditCard(c, level) ==
  /\ shared[c] \in Levels \ {level}
  /\ ~\E t \in Sessions : Deletes(t, c)
  /\ shared' = [shared EXCEPT ![c] = level]
  /\ UNCHANGED <<trust, requests, request_events, call>>

Befriend(p) ==
  /\ p \notin blocked /\ p \notin friends
  /\ friends' = friends \cup {p}
  /\ UNCHANGED <<blocked, rows, call>>

Unfriend(p) ==
  /\ p \in friends
  /\ friends' = friends \ {p}
  /\ UNCHANGED <<blocked, rows, call>>

Block(p) ==
  /\ p \notin blocked
  /\ blocked' = blocked \cup {p}
  /\ friends' = friends \ {p}
  /\ UNCHANGED <<rows, call>>

Unblock(p) ==
  /\ p \in blocked
  /\ blocked' = blocked \ {p}
  /\ UNCHANGED <<friends, rows, call>>

-------------------------------------------------------------------------------

Init ==
  /\ friends = {}
  /\ blocked = {}
  /\ shared = [c \in Cards |-> "absent"]
  /\ requests = [r \in Requests |-> NoRow]
  /\ request_events = [r \in Requests |-> <<>>]
  /\ call = [s \in Sessions |-> Idle]

CallStep(s) ==
  \/ \E u \in Users, c \in Cards : CreateReadCard(s, u, c)
  \/ CreateCheckBlocks(s)
  \/ CreateCheckDirect(s)
  \/ CreateFindMutual(s)
  \/ CreateInsert(s)
  \/ \E r \in Requests, e \in Decisions : RespondRead(s, r, e)
  \/ \E r \in Requests, e \in Referrals : ReferralRead(s, r, e)
  \/ Update(s)
  \/ \E r \in Requests : RevealRead(s, r)
  \/ RevealInsert(s)
  \/ \E c \in Cards : DeleteCard(s, c)
  \/ Commit(s)
  \/ CommitDelete(s)
  \/ Rollback(s)

CardChange == \E c \in Cards, level \in Levels : AddCard(c, level) \/ EditCard(c, level)
TrustChange == \E p \in Pairs : Befriend(p) \/ Unfriend(p) \/ Block(p) \/ Unblock(p)

Next ==
  \/ \E s \in Sessions : CallStep(s)
  \/ CardChange
  \/ TrustChange

Spec == Init /\ [][Next]_vars

-------------------------------------------------------------------------------
(* Calls that do not overlap where they could disturb each other: one call *)
(* per request, and the cards and the trust graph stand still while a      *)
(* request is being created.                                               *)

InCreate(s) ==
  \/ call[s].pc \in {"create_blocks", "create_direct", "create_mutual", "insert"}
  \/ call[s].pc = "commit" /\ call[s].event = "created"

Apart ==
  \A s, t \in Sessions : s # t =>
    /\ Writes(s) /\ Writes(t) => call[s].req # call[t].req
    /\ InCreate(s) => call[t].pc # "delete"

StandsStill == (\E s \in Sessions : InCreate(s)) => UNCHANGED <<friends, blocked, shared>>

-------------------------------------------------------------------------------
(* Properties.                                                             *)

\* Tables and calls hold values of their types.
TypeOK ==
  /\ friends \subseteq Pairs
  /\ blocked \subseteq Pairs
  /\ shared \in [Cards -> Sharing]
  /\ requests \in [Requests -> RowStates]
  /\ request_events \in [Requests -> Seq(Events)]
  /\ call \in [Sessions -> Calls]

\* value is the last of S in the log; no element of S gives none.
IsLatest(log, S, value, none) ==
  \/ value = none /\ \A i \in DOMAIN log : log[i] \notin S
  \/ \E i \in DOMAIN log :
        /\ log[i] = value /\ value \in S
        /\ \A j \in DOMAIN log : j > i => log[j] \notin S

\* The audit log accounts for every row: its status is the last decision in the
\* log and its referral status the last referral, whatever calls overlap (every
\* function writes the event in the transaction that changes the row).
StatusIsAudited ==
  \A r \in Requests : Live(r) =>
    /\ IsLatest(request_events[r], Decisions, requests[r].status, "pending")
    /\ IsLatest(request_events[r], Referrals, requests[r].referral,
                IF r \in Referred THEN "pending" ELSE "not_required")

\* A decision is final: respond_to_request leaves pending once.
KeepsDecisions ==
  \A r \in Requests : requests[r].status \in Decisions =>
    requests'[r].status \in {requests[r].status, "deleted"}

\* Where a request may be made: across a friendship, or through a mutual friend
\* to a card shared beyond friends, and never across a block.
Unblocked(u, c) == {u, Owner[c]} \notin blocked
WithinReach(r) ==
  /\ Unblocked(r.by, r.card)
  /\ IF r \in Referred
     THEN r.via \in Mutuals(r.by, Owner[r.card]) /\ shared[r.card] = "network"
     ELSE Friends(r.by, Owner[r.card]) /\ shared[r.card] \in {"friends", "network"}

\* A request comes into being only within reach.
CreatesWithinReach ==
  \A r \in Requests : ~Live(r) /\ requests'[r].status = "pending" => WithinReach(r)

Logged(e) == {r \in Requests : \E i \in DOMAIN request_events[r] : request_events[r][i] = e}

Abstract == INSTANCE Disclosure WITH
  asked <- {r \in Requests : Live(r)}, vouched <- Logged("referral_approved"),
  granted <- Logged("approved"), disclosed <- Logged("contact_revealed")

\* Whatever calls overlap, the log shows a contact revealed only after an
\* approval, and an approval only after the referral it needs.
ImplementsDisclosure == Abstract!DSpec

-------------------------------------------------------------------------------
(* The inductive invariant behind StatusIsAudited and ImplementsDisclosure. *)

Inserting(s) ==
  call[s].pc = "insert" \/ (call[s].pc = "commit" /\ call[s].event = "created")

\* What the log shows before event e of request r may be written.
Grounds(r, e) ==
  /\ e \in Decisions /\ r \in Referred => r \in Logged("referral_approved")
  /\ e \in Referrals => r \in Referred
  /\ e = "contact_revealed" => r \in Logged("approved")

\* A call holds its grounds from the read to the commit, as long as its row lives.
CallGrounded(s) ==
  LET r == call[s].req
      e == call[s].event
  IN  /\ Inserting(s) => e = "created" /\ requests[r].status = "none"
      /\ call[s].pc \in {"update", "reveal"} =>
            /\ e # "created" /\ requests[r].status # "none"
            /\ Live(r) => Grounds(r, e)
      /\ call[s].pc = "commit" /\ e # "created" => Live(r) /\ Grounds(r, e)

FlowInv ==
  /\ TypeOK
  /\ StatusIsAudited
  /\ \A r \in Requests : ~Live(r) => request_events[r] = <<>>
  /\ \A s \in Sessions : CallGrounded(s)
  /\ \A s, t \in Sessions : s # t /\ Inserting(s) /\ Writes(t) => call[s].req # call[t].req
  /\ \A s, t \in Sessions : \A r \in Requests :
       ~(Deletes(s, r.card) /\ Wrote(t, r))
===============================================================================
