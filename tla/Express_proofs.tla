---------------------------- MODULE Express_proofs ----------------------------
(***************************************************************************)
(* What holds of the Express server for any users, rows and calls in       *)
(* flight: a pair has one active connection, and contacts are revealed by  *)
(* consent, and what is asked for is what is found. Each rests on what a   *)
(* call in flight may rely on. And what its limiter lets through.          *)
(***************************************************************************)
EXTENDS Express, RateLimit, FiniteSetTheorems, SequenceTheorems, TLAPS

ConnRows == [from : Users, to : Users, status : Active \cup {"removed"}, keyed : BOOLEAN]
ReqRows == [requester : Users, owner : Users, intermediary : Users \cup {NoUser},
            status : Decisions, referral : Decisions \cup {"not_required"}]
CallRows ==
  {Idle}
  \cup [pc : {"send"}, from : Users, to : Users]
  \cup [pc : {"change"}, conn : Nat, status : {"accepted", "blocked", "removed"}, seen : {"pending", "accepted"}]
  \cup [pc : {"connection"}, from : Users, owner : Users, shared : Visibilities]
  \cup [pc : {"friends"}, from : Users, owner : Users, shared : Visibilities, connected : BOOLEAN]
  \cup [pc : {"candidates"}, from : Users, owner : Users, shared : Visibilities, connected : BOOLEAN,
        left : SUBSET Users]
  \cup [pc : {"store"}, from : Users, owner : Users, via : Users \cup {NoUser}]
  \cup [pc : {"answer", "refer"}, req : Nat, decision : Decisions]
  \cup [pc : {"reveal"}, req : Nat]

TypeOK ==
  /\ conns \in Seq(ConnRows) /\ reqs \in Seq(ReqRows)
  /\ cards \in [Users -> CardRows] /\ calls \in [Slots -> CallRows]
  /\ \A s \in Slots :
       /\ calls[s].pc = "change" => calls[s].conn \in DOMAIN conns
       /\ calls[s].pc \in {"answer", "refer", "reveal"} => calls[s].req \in DOMAIN reqs

\* The key of a pair is on one row; as long as no status was written over
\* another, an active row has it, so that a call may change the row it read.
KeyInv ==
  /\ \A c, d \in DOMAIN conns : conns[c].keyed /\ conns[d].keyed /\ IsPair(c, conns[d].from, conns[d].to) => c = d
  /\ ~crossed => \A c \in DOMAIN conns : conns[c].status \in Active => conns[c].keyed

\* What a row says was answered has been consented to, and an answer on its way
\* rests on the intermediary's.
ConsentInv ==
  /\ \A r \in DOMAIN reqs :
       /\ reqs[r].status = "approved" => r \in consented
       /\ reqs[r].referral = "approved" => r \in vouched
  /\ \A s \in Slots :
       /\ calls[s].pc = "answer" => (reqs[calls[s].req].intermediary # NoUser => calls[s].req \in vouched)
       /\ calls[s].pc = "reveal" => calls[s].req \in consented

\* What a create that is alone on the server has read still stands: the card, the
\* connection, and the friends it has yet to try, or the one it has found.
Offered(call) ==
  cards[call.owner].active /\ cards[call.owner].request_enabled /\ cards[call.owner].visibility # "private"
Grounded(call) ==
  /\ call.pc \in {"connection", "friends", "candidates", "store"} => Offered(call)
  /\ call.pc \in {"connection", "friends", "candidates"} => call.shared = cards[call.owner].visibility
  /\ call.pc \in {"friends", "candidates"} =>
       /\ Status(call.from, call.owner) # "accepted"
       /\ call.connected => Status(call.from, call.owner) = "pending"
  /\ call.pc = "candidates" => call.left \subseteq Friends(call.from) \ {call.owner}
  /\ call.pc = "store" =>
       IF call.via = NoUser THEN Status(call.from, call.owner) \in {"accepted", "pending"}
       ELSE /\ Status(call.from, call.owner) # "accepted" /\ cards[call.owner].visibility = "network"
            /\ call.via \in Friends(call.from) \ {call.owner} /\ Status(call.via, call.owner) = "accepted"

\* Nobody is connected to themselves.
Irreflexive ==
  /\ \A c \in DOMAIN conns : conns[c].from # conns[c].to
  /\ \A s \in Slots : calls[s].pc = "send" => calls[s].from # calls[s].to

\* The call that is alone has no other beside it, and relies on what it has read.
AloneStands ==
  \A s \in alone : s \in Slots /\ Grounded(calls[s]) /\ (calls[s] # Idle => \A t \in Slots \ {s} : calls[t] = Idle)

AskInv == Irreflexive /\ AloneStands

-------------------------------------------------------------------------------
\* A table after an insert, and after an update.
LEMMA Inserted ==
  ASSUME NEW S, NEW q \in Seq(S), NEW x \in S
  PROVE  /\ Append(q, x) \in Seq(S)
         /\ DOMAIN Append(q, x) = DOMAIN q \cup {Len(q) + 1} /\ Len(q) + 1 \notin DOMAIN q
         /\ Append(q, x)[Len(q) + 1] = x /\ \A i \in DOMAIN q : Append(q, x)[i] = q[i]
<1>1. /\ Len(q) \in Nat /\ DOMAIN q = 1..Len(q)
  BY LenProperties
<1>2. /\ Append(q, x) \in Seq(S) /\ Len(Append(q, x)) = Len(q) + 1
      /\ \A i \in 1..Len(q) : Append(q, x)[i] = q[i]
      /\ Append(q, x)[Len(q) + 1] = x
  BY AppendProperties
<1>3. DOMAIN Append(q, x) = 1..(Len(q) + 1)
  BY <1>2, LenProperties
<1> QED
  BY <1>1, <1>2, <1>3

LEMMA Updated ==
  ASSUME NEW S, NEW q \in Seq(S), NEW i \in DOMAIN q, NEW x \in S
  PROVE  /\ i \in Nat /\ q[i] \in S /\ [q EXCEPT ![i] = x] \in Seq(S)
         /\ DOMAIN [q EXCEPT ![i] = x] = DOMAIN q
         /\ \A j \in DOMAIN q : [q EXCEPT ![i] = x][j] = IF j = i THEN x ELSE q[j]
<1>1. Len(q) \in Nat /\ DOMAIN q = 1..Len(q)
  BY LenProperties
<1>2. [q EXCEPT ![i] = x] \in Seq(S)
  BY <1>1, ExceptSeq
<1> QED
  BY <1>1, <1>2, ElementOfSeq

LEMMA RowOf ==
  ASSUME NEW S, NEW q \in Seq(S), NEW i \in DOMAIN q
  PROVE  i \in Nat /\ q[i] \in S
BY LenProperties, ElementOfSeq

\* The rows that are written keep the type of their table.
LEMMA ConnWritten ==
  ASSUME TypeOK, NEW c \in DOMAIN conns, NEW status \in {"accepted", "blocked", "removed"}
  PROVE  /\ Written(conns[c], status) \in ConnRows
         /\ Written(conns[c], status).from = conns[c].from /\ Written(conns[c], status).to = conns[c].to
         /\ Written(conns[c], status).status = status
         /\ Written(conns[c], status).keyed <=> conns[c].keyed /\ status # "removed"
<1>1. conns[c] \in ConnRows
  BY RowOf DEF TypeOK
<1>2. PICK row \in ConnRows : row = conns[c]
  BY <1>1
<1>3. [row EXCEPT !.status = status] \in ConnRows
  BY DEF ConnRows, Active
<1> QED
  BY <1>2, <1>3 DEF Written, ConnRows, Active

LEMMA InitTypes == Init => TypeOK
<1> SUFFICES ASSUME Init PROVE TypeOK
  OBVIOUS
<1>1. conns \in Seq(ConnRows) /\ reqs \in Seq(ReqRows)
  BY EmptySeq DEF Init
<1>2. Idle \in CallRows /\ Idle.pc = "idle"
  BY DEF CallRows, Idle
<1> QED
  BY <1>1, <1>2 DEF Init, TypeOK

\* A step that moves a call and at most adds rows keeps the types.
LEMMA CallStep ==
  ASSUME TypeOK, NEW s \in Slots, NEW call \in CallRows, calls' = [calls EXCEPT ![s] = call],
         conns' \in Seq(ConnRows), reqs' \in Seq(ReqRows), cards' \in [Users -> CardRows],
         DOMAIN conns \subseteq DOMAIN conns', DOMAIN reqs \subseteq DOMAIN reqs',
         call.pc = "change" => call.conn \in DOMAIN conns,
         call.pc \in {"answer", "refer", "reveal"} => call.req \in DOMAIN reqs
  PROVE  TypeOK'
<1>1. calls' \in [Slots -> CallRows] /\ calls'[s] = call /\ \A t \in Slots \ {s} : calls'[t] = calls[t]
  BY DEF TypeOK
<1> QED
  BY <1>1 DEF TypeOK

\* The same, of a step that leaves the tables alone.
LEMMA OnlyCall ==
  ASSUME TypeOK, NEW s \in Slots, NEW call \in CallRows, calls' = [calls EXCEPT ![s] = call],
         UNCHANGED <<conns, reqs, cards>>,
         call.pc = "change" => call.conn \in DOMAIN conns,
         call.pc \in {"answer", "refer", "reveal"} => call.req \in DOMAIN reqs
  PROVE  TypeOK'
BY CallStep DEF TypeOK

\* What a call is doing, by its program counter.
LEMMA CallKinds ==
  ASSUME TypeOK, NEW s \in Slots
  PROVE  /\ calls[s] \in CallRows
         /\ calls[s].pc = "send" => calls[s].from \in Users /\ calls[s].to \in Users
         /\ calls[s].pc = "change" =>
              /\ calls[s].status \in {"accepted", "blocked", "removed"} /\ calls[s].seen \in {"pending", "accepted"}
         /\ calls[s].pc \in {"connection", "friends", "candidates"} =>
              calls[s].from \in Users /\ calls[s].owner \in Users /\ calls[s].shared \in Visibilities
         /\ calls[s].pc \in {"friends", "candidates"} => calls[s].connected \in BOOLEAN
         /\ calls[s].pc = "candidates" => calls[s].left \subseteq Users
         /\ calls[s].pc = "store" =>
              calls[s].from \in Users /\ calls[s].owner \in Users /\ calls[s].via \in Users \cup {NoUser}
         /\ calls[s].pc \in {"answer", "refer"} => calls[s].decision \in Decisions
<1>1. calls[s] \in CallRows
  BY DEF TypeOK
<1> QED
  BY <1>1 DEF CallRows, Idle

\* The steps of a connection's calls.
LEMMA ConnectionTypes == \A s \in Slots : TypeOK /\ ConnectionCall(s) => TypeOK'
<1> SUFFICES ASSUME TypeOK, NEW s \in Slots, ConnectionCall(s) PROVE TypeOK'
  OBVIOUS
<1>0. Idle \in CallRows /\ Idle.pc = "idle"
  BY DEF CallRows, Idle
<1>1. ASSUME NEW u \in Users, NEW v \in Users, SendFind(s, u, v) PROVE TypeOK'
  <2>1. PICK call \in CallRows : call = [pc |-> "send", from |-> u, to |-> v]
    BY DEF CallRows
  <2> QED
    BY <1>1, <2>1, OnlyCall DEF SendFind, Begin
<1>2. ASSUME SendCreate(s) PROVE TypeOK'
  <2>1. [from |-> calls[s].from, to |-> calls[s].to, status |-> "pending", keyed |-> TRUE] \in ConnRows
    BY <1>2, CallKinds DEF SendCreate, ConnRows, Active
  <2>2. conns' \in Seq(ConnRows) /\ DOMAIN conns \subseteq DOMAIN conns'
    <3>1. conns \in Seq(ConnRows)
      BY DEF TypeOK
    <3>2. PICK row \in ConnRows :
            row = [from |-> calls[s].from, to |-> calls[s].to, status |-> "pending", keyed |-> TRUE]
      BY <2>1
    <3>3. UNCHANGED conns \/ conns' = Append(conns, row)
      BY <1>2, <3>2 DEF SendCreate
    <3> QED
      BY <3>1, <3>3, Inserted
  <2> QED
    BY <1>0, <1>2, <2>2, CallStep DEF SendCreate, End, Step, TypeOK
<1>3. ASSUME NEW u \in Users, NEW c \in DOMAIN conns,
             NEW status \in {"accepted", "blocked", "removed"}, ChangeRead(s, u, c, status)
      PROVE  TypeOK'
  <2>1. conns[c].status \in {"pending", "accepted"} /\ c \in Nat
    <3>1. conns[c] \in ConnRows /\ c \in Nat
      BY RowOf DEF TypeOK
    <3> QED
      BY <1>3, <3>1 DEF ChangeRead, Allowed, ConnRows, Active
  <2>2. PICK call \in CallRows : call = [pc |-> "change", conn |-> c, status |-> status, seen |-> conns[c].status]
    BY <2>1 DEF CallRows
  <2> QED
    BY <1>3, <2>2, OnlyCall DEF ChangeRead, Begin
<1>4. ASSUME ChangeWrite(s) PROVE TypeOK'
  <2>1. calls[s].conn \in DOMAIN conns /\ calls[s].status \in {"accepted", "blocked", "removed"}
    BY <1>4, CallKinds DEF ChangeWrite, TypeOK
  <2>2. PICK row \in ConnRows : row = Written(conns[calls[s].conn], calls[s].status)
    BY <2>1, ConnWritten
  <2>3. conns' = [conns EXCEPT ![calls[s].conn] = row]
    BY <1>4, <2>2 DEF ChangeWrite
  <2>4. conns' \in Seq(ConnRows) /\ DOMAIN conns' = DOMAIN conns
    BY <2>1, <2>3, Updated DEF TypeOK
  <2> QED
    BY <1>0, <1>4, <2>4, CallStep DEF ChangeWrite, End, Step, TypeOK
<1> QED
  BY <1>1, <1>2, <1>3, <1>4 DEF ConnectionCall

\* The steps of a request's calls.
LEMMA RequestTypes == \A s \in Slots : TypeOK /\ RequestCall(s) => TypeOK'
<1> SUFFICES ASSUME TypeOK, NEW s \in Slots, RequestCall(s) PROVE TypeOK'
  OBVIOUS
<1>0. Idle \in CallRows /\ Idle.pc = "idle"
  BY DEF CallRows, Idle
<1> DEFINE call == calls[s]
<1>1. ASSUME NEW u \in Users, NEW v \in Users, CreateRead(s, u, v) PROVE TypeOK'
  <2>1. cards[v].visibility \in Visibilities
    BY DEF TypeOK, CardRows
  <2>2. PICK c \in CallRows :
          c = [pc |-> "connection", from |-> u, owner |-> v, shared |-> cards[v].visibility]
    BY <2>1 DEF CallRows
  <2> QED
    BY <1>1, <2>2, OnlyCall DEF CreateRead, Begin
<1>2. ASSUME NEW via \in Users \cup {NoUser}, call.from \in Users, call.owner \in Users,
             Step(s, Asks(call, via)), UNCHANGED <<conns, reqs, cards>>
      PROVE  TypeOK'
  <2>1. PICK c \in CallRows : c = Asks(call, via)
    BY <1>2 DEF CallRows, Asks
  <2> QED
    BY <1>2, <2>1, OnlyCall DEF Step, Asks
<1>3. ASSUME End(s), UNCHANGED <<conns, reqs, cards>> PROVE TypeOK'
  BY <1>0, <1>3, OnlyCall DEF End, Step
<1>4. ASSUME CreateConnection(s) PROVE TypeOK'
  <2>1. call.from \in Users /\ call.owner \in Users /\ call.shared \in Visibilities
    BY <1>4, CallKinds DEF CreateConnection
  <2>2. PICK status : status = Status(call.from, call.owner)
    OBVIOUS
  <2>3. (status = "pending") \in BOOLEAN
    OBVIOUS
  <2>4. PICK c \in CallRows :
          c = [pc |-> "friends", from |-> call.from, owner |-> call.owner,
               shared |-> call.shared, connected |-> status = "pending"]
    BY <2>1, <2>3 DEF CallRows
  <2>5. CASE status = "blocked"
    BY <1>3, <1>4, <2>2, <2>5 DEF CreateConnection
  <2>6. CASE status = "accepted"
    BY <1>2, <1>4, <2>1, <2>2, <2>6 DEF CreateConnection
  <2>7. CASE status \notin {"blocked", "accepted"}
    BY <1>4, <2>2, <2>4, <2>7, OnlyCall DEF CreateConnection, Step
  <2> QED
    BY <2>5, <2>6, <2>7
<1>5. ASSUME CreateFriends(s) PROVE TypeOK'
  <2>1. /\ call.from \in Users /\ call.owner \in Users /\ call.shared \in Visibilities
        /\ call.connected \in BOOLEAN
    BY <1>5, CallKinds DEF CreateFriends
  <2>2. Friends(call.from) \ {call.owner} \in SUBSET Users
    BY DEF Friends
  <2>3. PICK c \in CallRows :
          c = [pc |-> "candidates", from |-> call.from, owner |-> call.owner, shared |-> call.shared,
               connected |-> call.connected, left |-> Friends(call.from) \ {call.owner}]
    BY <2>1, <2>2 DEF CallRows
  <2> QED
    BY <1>5, <2>3, OnlyCall DEF CreateFriends, Step
<1>6. ASSUME CreateCandidate(s) PROVE TypeOK'
  <2>1. /\ call \in CallRows /\ call.pc = "candidates"
        /\ call.from \in Users /\ call.owner \in Users /\ call.left \subseteq Users
    BY <1>6, CallKinds DEF CreateCandidate
  <2>2. ASSUME NEW f \in call.left, Step(s, [call EXCEPT !.left = @ \ {f}]) PROVE TypeOK'
    <3>1. PICK c \in CallRows : c = call
      BY <2>1
    <3>2. [c EXCEPT !.left = @ \ {f}] \in CallRows /\ [c EXCEPT !.left = @ \ {f}].pc = "candidates"
      BY <2>1, <3>1 DEF CallRows, Idle
    <3> QED
      BY <1>6, <2>2, <3>1, <3>2, OnlyCall DEF CreateCandidate, Step
  <2> QED
    BY <1>2, <1>3, <1>6, <2>1, <2>2 DEF CreateCandidate
<1>7. ASSUME CreateStore(s) PROVE TypeOK'
  <2>1. [requester |-> call.from, owner |-> call.owner, intermediary |-> call.via,
         status |-> "pending", referral |-> "not_required"] \in ReqRows
    BY <1>7, CallKinds DEF CreateStore, ReqRows, Decisions
  <2>2. reqs' \in Seq(ReqRows) /\ DOMAIN reqs \subseteq DOMAIN reqs'
    BY <1>7, <2>1, Inserted DEF CreateStore, TypeOK
  <2> QED
    BY <1>0, <1>7, <2>2, CallStep DEF CreateStore, End, Step, TypeOK
<1>8. ASSUME NEW u \in Users, NEW r \in DOMAIN reqs, NEW d \in Decisions,
             AnswerRead(s, u, r, d) \/ ReferralRead(s, u, r, d)
      PROVE  TypeOK'
  <2>1. r \in Nat
    BY RowOf DEF TypeOK
  <2>2. PICK c \in CallRows : c = [pc |-> "answer", req |-> r, decision |-> d]
    BY <2>1 DEF CallRows
  <2>3. PICK q \in CallRows : q = [pc |-> "refer", req |-> r, decision |-> d]
    BY <2>1 DEF CallRows
  <2> QED
    BY <1>8, <2>2, <2>3, OnlyCall DEF AnswerRead, ReferralRead, Begin
<1>9. ASSUME NEW u \in Users, NEW r \in DOMAIN reqs, RevealRead(s, u, r) PROVE TypeOK'
  <2>1. PICK c \in CallRows : c = [pc |-> "reveal", req |-> r]
    BY RowOf DEF CallRows, TypeOK
  <2> QED
    BY <1>9, <2>1, OnlyCall DEF RevealRead, Begin
<1>10. ASSUME AnswerWrite(s) \/ ReferralWrite(s) PROVE TypeOK'
  <2>1. call.req \in DOMAIN reqs /\ call.decision \in Decisions
    BY <1>10, CallKinds DEF AnswerWrite, ReferralWrite, TypeOK
  <2>2. PICK row \in ReqRows : row = reqs[call.req]
    BY <2>1, RowOf DEF TypeOK
  <2>3. [row EXCEPT !.status = call.decision] \in ReqRows /\ [row EXCEPT !.referral = call.decision] \in ReqRows
    BY <2>1 DEF ReqRows
  <2>4. \/ reqs' = [reqs EXCEPT ![call.req] = [row EXCEPT !.status = call.decision]]
        \/ reqs' = [reqs EXCEPT ![call.req] = [row EXCEPT !.referral = call.decision]]
    BY <1>10, <2>2 DEF AnswerWrite, ReferralWrite
  <2>5. reqs' \in Seq(ReqRows) /\ DOMAIN reqs' = DOMAIN reqs
    <3>1. PICK x \in ReqRows : reqs' = [reqs EXCEPT ![call.req] = x]
      BY <2>3, <2>4
    <3> QED
      BY <2>1, <3>1, Updated DEF TypeOK
  <2> QED
    BY <1>0, <1>10, <2>5, CallStep DEF AnswerWrite, ReferralWrite, End, Step, TypeOK
<1>11. ASSUME RevealAnswer(s) PROVE TypeOK'
  BY <1>3, <1>11 DEF RevealAnswer
<1> QED
  BY <1>1, <1>4, <1>5, <1>6, <1>7, <1>8, <1>9, <1>10, <1>11 DEF RequestCall

LEMMA TypeStep == TypeOK /\ [Next]_expressVars => TypeOK'
<1> SUFFICES ASSUME TypeOK, [Next]_expressVars PROVE TypeOK'
  OBVIOUS
<1>1. ASSUME NEW u \in Users, NEW row \in CardRows, CardWrite(u, row) PROVE TypeOK'
  BY <1>1 DEF CardWrite, TypeOK
<1>2. CASE UNCHANGED expressVars
  BY <1>2 DEF expressVars, TypeOK
<1> QED
  BY <1>1, <1>2, ConnectionTypes, RequestTypes DEF Next

\* Tables and calls keep their types.
THEOREM TypeCorrect == Spec => []TypeOK
BY InitTypes, TypeStep, PTL DEF Spec

-------------------------------------------------------------------------------
(* One active connection of a pair.                                        *)

LEMMA KeyStep == TypeOK /\ KeyInv /\ [Next]_expressVars => KeyInv'
<1> SUFFICES ASSUME TypeOK, KeyInv, [Next]_expressVars PROVE KeyInv'
  OBVIOUS
<1>0. CASE UNCHANGED <<conns, crossed>>
  BY <1>0 DEF KeyInv, IsPair
<1>1. ASSUME NEW s \in Slots, SendCreate(s), conns' # conns PROVE KeyInv'
  <2> DEFINE u == calls[s].from
             v == calls[s].to
             new == Len(conns) + 1
  <2>1. ~KeyTaken(u, v) /\ UNCHANGED crossed
    BY <1>1 DEF SendCreate, history
  <2>2. PICK row \in ConnRows : row = [from |-> u, to |-> v, status |-> "pending", keyed |-> TRUE]
    BY <1>1, CallKinds DEF SendCreate, ConnRows, Active
  <2>3. conns' = Append(conns, row)
    BY <1>1, <2>2 DEF SendCreate
  <2>4. /\ DOMAIN conns' = DOMAIN conns \cup {new} /\ new \notin DOMAIN conns
        /\ conns'[new] = row /\ \A c \in DOMAIN conns : conns'[c] = conns[c]
    BY <2>3, Inserted DEF TypeOK
  <2>5. \A c \in DOMAIN conns : conns[c].keyed => ~IsPair(c, u, v)
    BY <2>1 DEF KeyTaken
  <2>6. \A c \in DOMAIN conns : conns'[c].keyed => {conns'[c].from, conns'[c].to} # {u, v}
    BY <2>4, <2>5 DEF IsPair
  <2> HIDE DEF u, v, new
  <2>7. row.keyed /\ row.from = u /\ row.to = v
    BY <2>2
  <2>8. ASSUME NEW c \in DOMAIN conns', NEW d \in DOMAIN conns', conns'[c].keyed, conns'[d].keyed,
               {conns'[c].from, conns'[c].to} = {conns'[d].from, conns'[d].to}
        PROVE  c = d
    <3>1. CASE c \in DOMAIN conns /\ d \in DOMAIN conns
      BY <2>4, <2>8, <3>1 DEF KeyInv, IsPair
    <3>2. CASE c = new \/ d = new
      BY <2>4, <2>6, <2>7, <2>8, <3>2
    <3> QED
      BY <2>4, <3>1, <3>2
  <2>9. ~crossed' => \A c \in DOMAIN conns' : conns'[c].status \in Active => conns'[c].keyed
    BY <2>1, <2>4, <2>7 DEF KeyInv
  <2> QED
    BY <2>8, <2>9 DEF KeyInv, IsPair
<1>2. ASSUME NEW s \in Slots, ChangeWrite(s) PROVE KeyInv'
  <2> DEFINE c == calls[s].conn
             row == Written(conns[c], calls[s].status)
  <2>1. /\ c \in DOMAIN conns /\ calls[s].status \in {"accepted", "blocked", "removed"}
        /\ calls[s].seen \in {"pending", "accepted"}
    BY <1>2, CallKinds DEF ChangeWrite, TypeOK
  <2>2. /\ row \in ConnRows /\ row.from = conns[c].from /\ row.to = conns[c].to
        /\ row.status = calls[s].status
        /\ row.keyed <=> conns[c].keyed /\ calls[s].status # "removed"
    BY <2>1, ConnWritten
  <2>3. conns' = [conns EXCEPT ![c] = row]
    BY <1>2 DEF ChangeWrite
  <2> HIDE DEF c, row
  <2>4. /\ DOMAIN conns' = DOMAIN conns
        /\ \A d \in DOMAIN conns : conns'[d] = IF d = c THEN row ELSE conns[d]
    <3>1. conns \in Seq(ConnRows)
      BY DEF TypeOK
    <3> QED
      BY <2>1, <2>2, <2>3, <3>1, Updated
  <2>5. \A d \in DOMAIN conns : /\ conns'[d].from = conns[d].from /\ conns'[d].to = conns[d].to
                                /\ conns'[d].keyed => conns[d].keyed
    BY <2>2, <2>4
  <2>6. ~crossed' => ~crossed /\ conns[c].status \in Active
    BY <1>2, <2>1 DEF ChangeWrite, Active, c
  <2>7. ~crossed' => \A d \in DOMAIN conns' : conns'[d].status \in Active => conns'[d].keyed
    BY <2>2, <2>4, <2>6 DEF KeyInv, Active
  <2> QED
    BY <2>4, <2>5, <2>7 DEF KeyInv, IsPair
<1>3. ASSUME NEW s \in Slots, ConnectionCall(s) PROVE KeyInv'
  <2>1. \/ (SendCreate(s) /\ UNCHANGED crossed)
        \/ ChangeWrite(s)
        \/ UNCHANGED <<conns, crossed>>
    BY <1>3 DEF ConnectionCall, SendFind, ChangeRead, SendCreate, history
  <2> QED
    BY <1>0, <1>1, <1>2, <2>1
<1>4. ASSUME NEW s \in Slots, RequestCall(s) PROVE UNCHANGED <<conns, crossed>>
  BY <1>4 DEF RequestCall, CreateRead, CreateConnection, CreateFriends, CreateCandidate, CreateStore,
     AnswerRead, AnswerWrite, ReferralRead, ReferralWrite, RevealRead, RevealAnswer, history
<1> QED
  BY <1>0, <1>3, <1>4 DEF Next, CardWrite, expressVars, history

LEMMA KeyInit == Init => KeyInv
BY DEF Init, KeyInv, Idle

LEMMA KeysKeepApart == KeyInv => OneActivePerPair
BY DEF KeyInv, OneActivePerPair

\* However the calls of any users overlap, as long as none writes a status over
\* another than it read, no pair has two active connections.
THEOREM OneActive == Spec => []OneActivePerPair
<1>1. Spec => [](TypeOK /\ KeyInv)
  BY InitTypes, TypeStep, KeyInit, KeyStep, PTL DEF Spec
<1> QED
  BY <1>1, KeysKeepApart, PTL

-------------------------------------------------------------------------------
(* Consent.                                                                *)

LEMMA ConsentStep ==
  TypeOK /\ ConsentInv /\ RevealedByConsent /\ [Next]_expressVars => ConsentInv' /\ RevealedByConsent'
<1> SUFFICES ASSUME TypeOK, ConsentInv, RevealedByConsent, [Next]_expressVars
             PROVE  ConsentInv' /\ RevealedByConsent'
  OBVIOUS
<1> DEFINE Untouched == UNCHANGED <<reqs, consented, vouched, revealed>>
<1>0. ASSUME NEW s \in Slots, NEW c, c.pc \notin {"answer", "reveal"}, calls' = [calls EXCEPT ![s] = c], Untouched
      PROVE  ConsentInv' /\ RevealedByConsent'
  BY <1>0 DEF ConsentInv, RevealedByConsent, TypeOK
<1>1. ASSUME NEW s \in Slots, CreateStore(s) PROVE ConsentInv' /\ RevealedByConsent'
  <2>1. PICK row \in ReqRows :
          row = [requester |-> calls[s].from, owner |-> calls[s].owner, intermediary |-> calls[s].via,
                 status |-> "pending", referral |-> "not_required"]
    BY <1>1, CallKinds DEF CreateStore, ReqRows, Decisions
  <2>2. reqs' = Append(reqs, row) /\ calls' = [calls EXCEPT ![s] = Idle]
        /\ UNCHANGED <<consented, vouched, revealed>>
    BY <1>1, <2>1 DEF CreateStore, End, Step, history
  <2>3. /\ DOMAIN reqs' = DOMAIN reqs \cup {Len(reqs) + 1} /\ Len(reqs) + 1 \notin DOMAIN reqs
        /\ reqs'[Len(reqs) + 1] = row /\ \A r \in DOMAIN reqs : reqs'[r] = reqs[r]
    BY <2>2, Inserted DEF TypeOK
  <2>4. row.status # "approved" /\ row.referral # "approved" /\ Idle.pc = "idle"
    BY <2>1 DEF Idle
  <2>5. /\ calls'[s] = Idle /\ \A t \in Slots \ {s} : calls'[t] = calls[t]
    BY <2>2 DEF TypeOK
  <2>6. \A r \in DOMAIN reqs' : /\ reqs'[r].status = "approved" => r \in consented'
                                /\ reqs'[r].referral = "approved" => r \in vouched'
    BY <2>2, <2>3, <2>4 DEF ConsentInv
  <2>7. \A t \in Slots : calls'[t].pc \in {"answer", "reveal"} =>
          t # s /\ calls'[t] = calls[t] /\ calls[t].req \in DOMAIN reqs
    BY <2>4, <2>5 DEF TypeOK
  <2> QED
    BY <2>2, <2>3, <2>6, <2>7 DEF ConsentInv, RevealedByConsent
<1>2. ASSUME NEW s \in Slots, AnswerWrite(s) \/ ReferralWrite(s) PROVE ConsentInv' /\ RevealedByConsent'
  <2> DEFINE q == calls[s].req
             decision == calls[s].decision
  <2>1. q \in DOMAIN reqs
    BY <1>2 DEF AnswerWrite, ReferralWrite, TypeOK
  <2>2. PICK row \in ReqRows : row = reqs[q]
    BY <2>1, RowOf DEF TypeOK
  <2>3. PICK x : /\ x = IF AnswerWrite(s) THEN [row EXCEPT !.status = decision] ELSE [row EXCEPT !.referral = decision]
    OBVIOUS
  <2>4. reqs' = [reqs EXCEPT ![q] = x]
    BY <1>2, <2>2, <2>3 DEF AnswerWrite, ReferralWrite
  <2>5. /\ DOMAIN reqs' = DOMAIN reqs /\ \A r \in DOMAIN reqs : reqs'[r] = IF r = q THEN x ELSE reqs[r]
    BY <2>1, <2>4 DEF TypeOK
  <2>6. /\ x.intermediary = row.intermediary
        /\ AnswerWrite(s) => x.status = decision /\ x.referral = row.referral
        /\ ~AnswerWrite(s) => x.referral = decision /\ x.status = row.status
    BY <2>3 DEF ReqRows
  <2>7. /\ consented \subseteq consented' /\ vouched \subseteq vouched' /\ UNCHANGED revealed
        /\ AnswerWrite(s) /\ decision = "approved" => q \in consented'
        /\ ~AnswerWrite(s) /\ decision = "approved" => q \in vouched'
    BY <1>2, <2>2 DEF AnswerWrite, ReferralWrite, ConsentInv
  <2>8. calls' = [calls EXCEPT ![s] = Idle]
    BY <1>2 DEF AnswerWrite, ReferralWrite, End, Step
  <2>9. Idle.pc = "idle" /\ calls'[s] = Idle /\ \A t \in Slots \ {s} : calls'[t] = calls[t]
    BY <2>8 DEF TypeOK, Idle
  <2> HIDE DEF q, decision
  <2>10. \A r \in DOMAIN reqs' : /\ reqs'[r].status = "approved" => r \in consented'
                                 /\ reqs'[r].referral = "approved" => r \in vouched'
                                 /\ reqs'[r].intermediary = reqs[r].intermediary
    BY <2>2, <2>5, <2>6, <2>7 DEF ConsentInv
  <2>11. \A t \in Slots : calls'[t].pc \in {"answer", "reveal"} =>
           t # s /\ calls'[t] = calls[t] /\ calls[t].req \in DOMAIN reqs
    BY <2>9 DEF TypeOK
  <2> QED
    BY <2>5, <2>7, <2>10, <2>11 DEF ConsentInv, RevealedByConsent
<1>3. ASSUME NEW s \in Slots, NEW u \in Users, NEW r \in DOMAIN reqs, NEW d \in Decisions,
             AnswerRead(s, u, r, d)
      PROVE  ConsentInv' /\ RevealedByConsent'
  <2>1. PICK c : c = [pc |-> "answer", req |-> r, decision |-> d]
    OBVIOUS
  <2>2. calls' = [calls EXCEPT ![s] = c] /\ Untouched /\ c.pc = "answer" /\ c.req = r
    BY <1>3, <2>1 DEF AnswerRead, Begin, history
  <2>3. reqs[r].intermediary # NoUser => r \in vouched
    BY <1>3 DEF AnswerRead, Answerable, ConsentInv
  <2>4. calls'[s] = c /\ \A t \in Slots \ {s} : calls'[t] = calls[t]
    BY <2>2 DEF TypeOK
  <2> QED
    BY <2>2, <2>3, <2>4 DEF ConsentInv, RevealedByConsent
<1>4. ASSUME NEW s \in Slots, NEW u \in Users, NEW r \in DOMAIN reqs, RevealRead(s, u, r)
      PROVE  ConsentInv' /\ RevealedByConsent'
  <2>1. PICK c : c = [pc |-> "reveal", req |-> r]
    OBVIOUS
  <2>2. calls' = [calls EXCEPT ![s] = c] /\ Untouched /\ c.pc = "reveal" /\ c.req = r /\ r \in consented
    BY <1>4, <2>1 DEF RevealRead, Begin, history, ConsentInv
  <2>3. calls'[s] = c /\ \A t \in Slots \ {s} : calls'[t] = calls[t]
    BY <2>2 DEF TypeOK
  <2> QED
    BY <2>2, <2>3 DEF ConsentInv, RevealedByConsent
<1>5. ASSUME NEW s \in Slots, RevealAnswer(s) PROVE ConsentInv' /\ RevealedByConsent'
  <2>1. /\ calls[s].req \in consented /\ revealed' = revealed \cup {calls[s].req}
        /\ calls' = [calls EXCEPT ![s] = Idle] /\ UNCHANGED <<reqs, consented, vouched>>
    BY <1>5 DEF RevealAnswer, End, Step, ConsentInv
  <2>2. Idle.pc = "idle" /\ calls'[s] = Idle /\ \A t \in Slots \ {s} : calls'[t] = calls[t]
    BY <2>1 DEF TypeOK, Idle
  <2> QED
    BY <2>1, <2>2 DEF ConsentInv, RevealedByConsent
<1>6. ASSUME NEW s \in Slots, RequestCall(s) PROVE ConsentInv' /\ RevealedByConsent'
  <2>0. Idle.pc = "idle"
    BY DEF Idle
  <2>1. ASSUME NEW u \in Users, NEW v \in Users, CreateRead(s, u, v) PROVE ConsentInv' /\ RevealedByConsent'
    BY <1>0, <2>1 DEF CreateRead, Begin, history
  <2>2. ASSUME CreateConnection(s) PROVE ConsentInv' /\ RevealedByConsent'
    BY <1>0, <2>0, <2>2 DEF CreateConnection, Step, End, Asks, history
  <2>3. ASSUME CreateFriends(s) PROVE ConsentInv' /\ RevealedByConsent'
    BY <1>0, <2>3 DEF CreateFriends, Step, history
  <2>4. ASSUME CreateCandidate(s) PROVE ConsentInv' /\ RevealedByConsent'
    <3>1. \/ End(s) \/ \E via : Step(s, Asks(calls[s], via))
          \/ \E f : Step(s, [calls[s] EXCEPT !.left = @ \ {f}])
      BY <2>4 DEF CreateCandidate
    <3>2. ASSUME NEW f PROVE [calls[s] EXCEPT !.left = @ \ {f}].pc = "candidates"
      <4>1. calls[s] \in CallRows /\ calls[s].pc = "candidates"
        BY <2>4, CallKinds DEF CreateCandidate
      <4> QED
        BY <4>1 DEF CallRows, Idle
    <3> QED
      BY <1>0, <2>0, <2>4, <3>1, <3>2 DEF CreateCandidate, Step, End, Asks, history
  <2>5. ASSUME NEW u \in Users, NEW r \in DOMAIN reqs, NEW d \in Decisions, ReferralRead(s, u, r, d)
        PROVE  ConsentInv' /\ RevealedByConsent'
    BY <1>0, <2>5 DEF ReferralRead, Begin, history
  <2> QED
    BY <1>1, <1>2, <1>3, <1>4, <1>5, <1>6, <2>1, <2>2, <2>3, <2>4, <2>5 DEF RequestCall
<1>7. ASSUME NEW s \in Slots, ConnectionCall(s) PROVE ConsentInv' /\ RevealedByConsent'
  <2>1. Untouched /\ \E c : c.pc \notin {"answer", "reveal"} /\ calls' = [calls EXCEPT ![s] = c]
    BY <1>7 DEF ConnectionCall, SendFind, SendCreate, ChangeRead, ChangeWrite, Begin, End, Step, Idle, history
  <2> QED
    BY <1>0, <2>1
<1>8. CASE UNCHANGED <<calls, reqs, consented, vouched, revealed>>
  BY <1>8 DEF ConsentInv, RevealedByConsent
<1> QED
  BY <1>6, <1>7, <1>8 DEF Next, CardWrite, expressVars, history

LEMMA ConsentInit == Init => ConsentInv /\ RevealedByConsent
BY DEF Init, ConsentInv, RevealedByConsent, Idle

\* Whatever calls overlap, a contact is revealed only for a request that was
\* granted after the intermediary had vouched for it.
THEOREM Consented == Spec => []RevealedByConsent
BY InitTypes, TypeStep, ConsentInit, ConsentStep, PTL DEF Spec

-------------------------------------------------------------------------------
(* What a create alone on the server goes by.                              *)

\* The connections decide a status, and who is a friend.
LEMMA StatusKept ==
  ASSUME UNCHANGED conns
  PROVE  \A u, v : Status(u, v)' = Status(u, v) /\ Friends(u)' = Friends(u)
BY DEF Status, ActiveBetween, IsPair, Friends

\* A call that ends takes nothing from one that is alone.
LEMMA AskEnd ==
  ASSUME TypeOK, AskInv, NEW s \in Slots, calls[s] # Idle, End(s)
  PROVE  AloneStands'
<1>1. /\ calls'[s] = Idle /\ alone' = alone
      /\ \A t \in Slots \ {s} : calls'[t] = calls[t]
  BY DEF End, Step, TypeOK
<1>2. \A t \in alone : t \in Slots /\ (calls'[t] = Idle)
  BY <1>1 DEF AskInv, AloneStands
<1>3. Idle.pc = "idle"
  BY DEF Idle
<1> QED
  BY <1>1, <1>2, <1>3 DEF Grounded, AloneStands

\* A call that begins is alone if no other is in flight.
LEMMA AskBegin ==
  ASSUME TypeOK, NEW s \in Slots, NEW call, Begin(s, call), UNCHANGED <<conns, cards>>, Grounded(call)
  PROVE  AloneStands'
<1>1. calls'[s] = call /\ \A t \in Slots \ {s} : calls'[t] = calls[t]
  BY DEF Begin, TypeOK
<1>2. ASSUME NEW t \in alone' PROVE t = s /\ \A r \in Slots \ {s} : calls[r] = Idle
  BY <1>2 DEF Begin
<1>3. Grounded(calls[s])'
  BY <1>1, StatusKept DEF Grounded, Offered
<1> QED
  BY <1>1, <1>2, <1>3 DEF AloneStands

\* A call that goes on keeps what it has read, and what others have.
LEMMA AskGoesOn ==
  ASSUME TypeOK, AskInv, NEW s \in Slots, calls[s] # Idle, NEW call, Step(s, call), UNCHANGED <<conns, cards>>,
         s \in alone => Grounded(call)
  PROVE  AloneStands'
<1>1. calls'[s] = call /\ alone' = alone /\ \A t \in Slots \ {s} : calls'[t] = calls[t]
  BY DEF Step, TypeOK
<1>2. ASSUME NEW t \in alone' PROVE t \in Slots /\ (t = s \/ calls'[t] = Idle) /\ (t = s => \A r \in Slots \ {s} : calls'[r] = Idle)
  BY <1>1, <1>2 DEF AskInv, AloneStands
<1>3. Idle.pc = "idle"
  BY DEF Idle
<1>4. \A t \in alone' : Grounded(calls'[t])
  BY <1>1, <1>2, <1>3 DEF AskInv, AloneStands, Grounded
<1>5. \A t \in alone' : Grounded(calls[t])'
  BY <1>4, StatusKept DEF Grounded, Offered
<1> QED
  BY <1>2, <1>5 DEF AloneStands

\* The steps of a create.
LEMMA AskCreates ==
  ASSUME TypeOK, AskInv, NEW s \in Slots,
         CreateConnection(s) \/ CreateFriends(s) \/ CreateCandidate(s)
  PROVE  AloneStands'
<1> DEFINE call == calls[s]
           asked == Status(call.from, call.owner)
<1>1. calls[s] # Idle /\ UNCHANGED <<conns, cards>>
  BY DEF CreateConnection, CreateFriends, CreateCandidate, Idle
<1>2. s \in alone => Grounded(call)
  BY DEF AskInv, AloneStands
<1>0. CASE End(s)
  BY <1>0, <1>1, AskEnd
<1>3. CASE CreateConnection(s)
  <2>1. CASE asked = "accepted"
    <3>1. Step(s, Asks(call, NoUser))
      BY <1>3, <2>1 DEF CreateConnection
    <3>2. s \in alone => Grounded(Asks(call, NoUser))
      BY <1>2, <1>3, <2>1 DEF CreateConnection, Grounded, Offered, Asks
    <3> QED
      BY <1>1, <3>1, <3>2, AskGoesOn
  <2>2. CASE asked \notin {"accepted", "blocked"}
    <3> DEFINE next == [pc |-> "friends", from |-> call.from, owner |-> call.owner,
                        shared |-> call.shared, connected |-> asked = "pending"]
    <3>1. Step(s, next)
      BY <1>3, <2>2 DEF CreateConnection
    <3>2. s \in alone => Grounded(next)
      BY <1>2, <1>3, <2>2 DEF CreateConnection, Grounded, Offered
    <3> HIDE DEF next
    <3> QED
      BY <1>1, <3>1, <3>2, AskGoesOn
  <2>3. asked = "blocked" => End(s)
    BY <1>3 DEF CreateConnection
  <2> QED
    BY <1>0, <2>1, <2>2, <2>3
<1>4. CASE CreateFriends(s)
  <2> DEFINE next == [pc |-> "candidates", from |-> call.from, owner |-> call.owner, shared |-> call.shared,
                      connected |-> call.connected, left |-> Friends(call.from) \ {call.owner}]
  <2>1. Step(s, next)
    BY <1>4 DEF CreateFriends
  <2>2. s \in alone => Grounded(next)
    BY <1>2, <1>4 DEF CreateFriends, Grounded, Offered
  <2> HIDE DEF next
  <2> QED
    BY <1>1, <2>1, <2>2, AskGoesOn
<1>5. CASE CreateCandidate(s)
  <2>1. call.pc = "candidates"
    BY <1>5 DEF CreateCandidate
  <2>2. ASSUME NEW f \in call.left, Status(f, call.owner) # "accepted", Step(s, [call EXCEPT !.left = @ \ {f}])
        PROVE  s \in alone => Grounded([call EXCEPT !.left = @ \ {f}])
    <3>1. PICK c \in CallRows : c = call
      BY DEF TypeOK
    <3>2. PICK d : d = [c EXCEPT !.left = @ \ {f}]
      OBVIOUS
    <3>3. /\ d.pc = "candidates" /\ d.from = c.from /\ d.owner = c.owner /\ d.shared = c.shared
          /\ d.connected = c.connected /\ d.left \subseteq c.left
      BY <2>1, <3>1, <3>2 DEF CallRows, Idle
    <3>4. s \in alone => Grounded(d)
      BY <1>2, <2>1, <3>1, <3>3 DEF Grounded, Offered
    <3> QED
      BY <3>1, <3>2, <3>4
  <2>3. ASSUME NEW f \in call.left, Status(f, call.owner) = "accepted", call.shared = "network"
        PROVE  s \in alone => Grounded(Asks(call, f))
    <3>1. call.left \subseteq Users
      BY <2>1, CallKinds
    <3>2. f # NoUser
      BY <3>1, ExpressAssumption
    <3> QED
      BY <1>2, <2>1, <2>3, <3>2 DEF Grounded, Offered, Asks
  <2>4. ASSUME call.connected PROVE s \in alone => Grounded(Asks(call, NoUser))
    BY <1>2, <2>1, <2>4 DEF Grounded, Offered, Asks
  <2>5. \/ \E f \in call.left :
              \/ Status(f, call.owner) # "accepted" /\ Step(s, [call EXCEPT !.left = @ \ {f}])
              \/ Status(f, call.owner) = "accepted" /\ call.shared = "network" /\ Step(s, Asks(call, f))
        \/ call.connected /\ Step(s, Asks(call, NoUser))
        \/ End(s)
    BY <1>5 DEF CreateCandidate
  <2>6. ASSUME NEW f \in call.left, Status(f, call.owner) # "accepted", Step(s, [call EXCEPT !.left = @ \ {f}])
        PROVE  AloneStands'
    <3>1. PICK d : d = [call EXCEPT !.left = @ \ {f}]
      OBVIOUS
    <3> QED
      BY <1>1, <2>2, <2>6, <3>1, AskGoesOn
  <2>7. ASSUME NEW f, Step(s, Asks(call, f)), s \in alone => Grounded(Asks(call, f))
        PROVE  AloneStands'
    BY <1>1, <2>7, AskGoesOn
  <2> QED
    BY <1>0, <2>3, <2>4, <2>5, <2>6, <2>7
<1> QED
  BY <1>3, <1>4, <1>5

LEMMA IrreflexiveStep ==
  ASSUME TypeOK, Irreflexive, [Next]_expressVars
  PROVE  Irreflexive'
<1>1. CASE UNCHANGED conns /\ \A s \in Slots : calls'[s].pc = "send" => calls'[s] = calls[s]
  BY <1>1 DEF Irreflexive
<1>2. ASSUME NEW s \in Slots, NEW call, calls' = [calls EXCEPT ![s] = call], UNCHANGED conns,
             call.pc = "send" => call.from # call.to
      PROVE  Irreflexive'
  BY <1>2 DEF Irreflexive, TypeOK
<1>3. ASSUME NEW s \in Slots, ConnectionCall(s) PROVE Irreflexive'
  <2>0. Idle.pc # "send"
    BY DEF Idle
  <2>1. ASSUME NEW u \in Users, NEW v \in Users, SendFind(s, u, v) PROVE Irreflexive'
    BY <1>2, <2>1 DEF SendFind, Begin
  <2>2. ASSUME NEW u \in Users, NEW c \in DOMAIN conns, NEW status, ChangeRead(s, u, c, status) PROVE Irreflexive'
    BY <1>2, <2>2 DEF ChangeRead, Begin
  <2>3. ASSUME SendCreate(s) PROVE Irreflexive'
    <3>1. PICK row \in ConnRows :
            row = [from |-> calls[s].from, to |-> calls[s].to, status |-> "pending", keyed |-> TRUE]
      BY <2>3, CallKinds DEF SendCreate, ConnRows, Active
    <3>2. row.from # row.to
      BY <2>3, <3>1 DEF SendCreate, Irreflexive
    <3>3. UNCHANGED conns \/ conns' = Append(conns, row)
      BY <2>3, <3>1 DEF SendCreate
    <3>4. \A c \in DOMAIN conns' : conns'[c].from # conns'[c].to
      BY <3>2, <3>3, Inserted DEF TypeOK, Irreflexive
    <3> QED
      BY <2>0, <2>3, <3>4 DEF SendCreate, End, Step, Irreflexive, TypeOK
  <2>4. ASSUME ChangeWrite(s) PROVE Irreflexive'
    <3>1. calls[s].conn \in DOMAIN conns /\ calls[s].status \in {"accepted", "blocked", "removed"}
      BY <2>4, CallKinds DEF ChangeWrite, TypeOK
    <3>2. PICK row \in ConnRows : row = Written(conns[calls[s].conn], calls[s].status)
      BY <3>1, ConnWritten
    <3>3. conns' = [conns EXCEPT ![calls[s].conn] = row]
      BY <2>4, <3>2 DEF ChangeWrite
    <3>4. row.from = conns[calls[s].conn].from /\ row.to = conns[calls[s].conn].to
      BY <3>1, <3>2, ConnWritten
    <3>5. \A c \in DOMAIN conns' : conns'[c].from # conns'[c].to
      BY <3>1, <3>3, <3>4, Updated DEF TypeOK, Irreflexive
    <3> QED
      BY <2>0, <2>4, <3>5 DEF ChangeWrite, End, Step, Irreflexive, TypeOK
  <2> QED
    BY <1>3, <2>1, <2>2, <2>3, <2>4 DEF ConnectionCall
<1>4. ASSUME NEW s \in Slots, RequestCall(s) PROVE Irreflexive'
  <2> DEFINE moved(call) == calls' = [calls EXCEPT ![s] = call] /\ call.pc # "send"
  <2>1. UNCHANGED conns /\ \E call : moved(call)
    <3>1. ASSUME NEW u \in Users, NEW v \in Users, CreateRead(s, u, v) PROVE UNCHANGED conns /\ \E call : moved(call)
      <4>1. moved([pc |-> "connection", from |-> u, owner |-> v, shared |-> cards[v].visibility])
        BY <3>1 DEF CreateRead, Begin
      <4> HIDE DEF moved
      <4> QED
        BY <3>1, <4>1 DEF CreateRead
    <3>2. CASE CreateConnection(s)
      BY <3>2 DEF CreateConnection, Step, End, Idle, Asks
    <3>3. CASE CreateFriends(s)
      <4>1. moved([pc |-> "candidates", from |-> calls[s].from, owner |-> calls[s].owner, shared |-> calls[s].shared,
                   connected |-> calls[s].connected, left |-> Friends(calls[s].from) \ {calls[s].owner}])
        BY <3>3 DEF CreateFriends, Step
      <4> HIDE DEF moved
      <4> QED
        BY <3>3, <4>1 DEF CreateFriends
    <3>4. CASE CreateCandidate(s)
      <4>1. calls[s].pc = "candidates" /\ calls[s] \in CallRows
        BY <3>4 DEF CreateCandidate, TypeOK
      <4>2. \A f : [calls[s] EXCEPT !.left = @ \ {f}].pc = "candidates"
        BY <4>1 DEF CallRows, Idle
      <4> QED
        BY <3>4, <4>2 DEF CreateCandidate, Step, End, Idle, Asks
    <3>5. CASE CreateStore(s) \/ AnswerWrite(s) \/ ReferralWrite(s) \/ RevealAnswer(s)
      BY <3>5 DEF CreateStore, AnswerWrite, ReferralWrite, RevealAnswer, End, Step, Idle
    <3>6. ASSUME NEW u \in Users, NEW r \in DOMAIN reqs, NEW d,
                 AnswerRead(s, u, r, d) \/ ReferralRead(s, u, r, d) \/ RevealRead(s, u, r)
          PROVE  UNCHANGED conns /\ \E call : moved(call)
      <4>1. \/ moved([pc |-> "answer", req |-> r, decision |-> d])
            \/ moved([pc |-> "refer", req |-> r, decision |-> d])
            \/ moved([pc |-> "reveal", req |-> r])
        BY <3>6 DEF AnswerRead, ReferralRead, RevealRead, Begin
      <4> HIDE DEF moved
      <4> QED
        BY <3>6, <4>1 DEF AnswerRead, ReferralRead, RevealRead
    <3> QED
      BY <1>4, <3>1, <3>2, <3>3, <3>4, <3>5, <3>6 DEF RequestCall
  <2> QED
    BY <1>2, <2>1
<1> QED
  BY <1>1, <1>3, <1>4 DEF Next, CardWrite, expressVars

LEMMA AskStep == TypeOK /\ AskInv /\ [Next]_expressVars => AskInv'
<1> SUFFICES ASSUME TypeOK, AskInv, [Next]_expressVars PROVE AskInv'
  OBVIOUS
<1>1. Irreflexive'
  BY IrreflexiveStep DEF AskInv, AloneStands
<1>2. ASSUME UNCHANGED expressVars PROVE AloneStands'
  BY <1>2, StatusKept DEF AskInv, AloneStands, expressVars, Grounded, Offered
<1>3. ASSUME NEW s \in Slots, ConnectionCall(s) PROVE AloneStands'
  <2>1. ASSUME NEW u \in Users, NEW v \in Users, SendFind(s, u, v) PROVE AloneStands'
    <3>1. Grounded([pc |-> "send", from |-> u, to |-> v])
      BY DEF Grounded
    <3> QED
      BY <2>1, <3>1, AskBegin DEF SendFind
  <2>2. ASSUME NEW u \in Users, NEW c \in DOMAIN conns, NEW status, ChangeRead(s, u, c, status) PROVE AloneStands'
    <3>1. Grounded([pc |-> "change", conn |-> c, status |-> status, seen |-> conns[c].status])
      BY DEF Grounded
    <3> QED
      BY <2>2, <3>1, AskBegin DEF ChangeRead
  <2>3. ASSUME SendCreate(s) \/ ChangeWrite(s) PROVE AloneStands'
    <3>1. calls[s] # Idle /\ End(s)
      BY <2>3 DEF SendCreate, ChangeWrite, Idle
    <3> QED
      BY <3>1, AskEnd
  <2> QED
    BY <1>3, <2>1, <2>2, <2>3 DEF ConnectionCall
<1>4. ASSUME NEW s \in Slots, RequestCall(s) PROVE AloneStands'
  <2>1. ASSUME NEW u \in Users, NEW v \in Users, CreateRead(s, u, v) PROVE AloneStands'
    <3>1. Grounded([pc |-> "connection", from |-> u, owner |-> v, shared |-> cards[v].visibility])
      BY <2>1 DEF CreateRead, Grounded, Offered
    <3> QED
      BY <2>1, <3>1, AskBegin DEF CreateRead
  <2>2. ASSUME CreateConnection(s) \/ CreateFriends(s) \/ CreateCandidate(s) PROVE AloneStands'
    BY <2>2, AskCreates
  <2>3. ASSUME CreateStore(s) \/ AnswerWrite(s) \/ ReferralWrite(s) \/ RevealAnswer(s) PROVE AloneStands'
    <3>1. calls[s] # Idle /\ End(s)
      BY <2>3 DEF CreateStore, AnswerWrite, ReferralWrite, RevealAnswer, Idle
    <3> QED
      BY <3>1, AskEnd
  <2>4. ASSUME NEW u \in Users, NEW r \in DOMAIN reqs, NEW d,
               AnswerRead(s, u, r, d) \/ ReferralRead(s, u, r, d) \/ RevealRead(s, u, r)
        PROVE  AloneStands'
    <3>1. /\ Grounded([pc |-> "answer", req |-> r, decision |-> d])
          /\ Grounded([pc |-> "refer", req |-> r, decision |-> d])
          /\ Grounded([pc |-> "reveal", req |-> r])
      BY DEF Grounded
    <3>2. \E call : Grounded(call) /\ Begin(s, call) /\ UNCHANGED <<conns, cards>>
      BY <2>4, <3>1 DEF AnswerRead, ReferralRead, RevealRead
    <3> QED
      BY <3>2, AskBegin
  <2> QED
    BY <1>4, <2>1, <2>2, <2>3, <2>4 DEF RequestCall
<1>5. ASSUME NEW u \in Users, NEW row \in CardRows, CardWrite(u, row) PROVE AloneStands'
  BY <1>5 DEF CardWrite, AloneStands
<1>6. AloneStands'
  BY <1>2, <1>3, <1>4, <1>5 DEF Next
<1> QED
  BY <1>1, <1>6 DEF AskInv, AloneStands

LEMMA AskStart == Init => AskInv
BY DEF Init, AskInv, Irreflexive, Idle, AloneStands

-------------------------------------------------------------------------------
\* Two people are friends exactly if the status between them is accepted.
LEMMA StatusOfFriends ==
  ASSUME TypeOK, OneActivePerPair, ~crossed, NEW u \in Users, NEW v \in Users
  PROVE  (v \in Friends(u) <=> Status(u, v) = "accepted") /\ Status(u, v) = Status(v, u)
<1> DEFINE found == ActiveBetween(u, v)
<1>1. \A c, d \in found : c = d
  BY DEF ActiveBetween, IsPair, OneActivePerPair
<1>2. \A c \in found : c \in Nat
  BY RowOf DEF ActiveBetween, TypeOK
<1>3. ActiveBetween(v, u) = found
  BY DEF ActiveBetween, IsPair
<1>4. ASSUME NEW c \in found PROVE Status(u, v) = conns[c].status /\ found = {c}
  BY <1>1, <1>2, <1>4 DEF Status
<1>5. ASSUME NEW c \in DOMAIN conns, IsPair(c, u, v), conns[c].status = "accepted" PROVE c \in found
  BY <1>5 DEF ActiveBetween, Active
<1>6. found = {} => Status(u, v) = "none"
  BY DEF Status
<1>7. Status(u, v) = Status(v, u)
  BY <1>3 DEF Status
<1>8. v \in Friends(u) => Status(u, v) = "accepted"
  BY <1>4, <1>5 DEF Friends
<1>9. Status(u, v) = "accepted" => v \in Friends(u)
  <2>1. CASE found = {}
    BY <1>6, <2>1
  <2>2. ASSUME NEW c \in found, Status(u, v) = "accepted" PROVE v \in Friends(u)
    BY <1>4, <2>2 DEF Friends, ActiveBetween
  <2> QED
    BY <2>1, <2>2
<1> QED
  BY <1>7, <1>8, <1>9

\* What a create alone on the server is about to store is what the search, the
\* graph and the card itself show.
LEMMA StoredAsFound ==
  ASSUME TypeOK, OneActivePerPair, ~crossed, Irreflexive, NEW call, Grounded(call), call.pc = "store",
         call.from \in Users, call.owner \in Users, call.from # call.owner,
         call.via = NoUser => Status(call.from, call.owner) = "accepted"
  PROVE  LET found == {m \in Found(call.from, 2) : m.user = call.owner}
             nodes == {n \in Nodes(call.from, 2) : n.user = call.owner}
         IN  /\ found = {[user |-> call.owner, depth |-> IF call.via = NoUser THEN 1 ELSE 2,
                          requestable |-> call.via = NoUser]}
             /\ \E n \in nodes : n.cards = 1 /\ \A m \in found : m.depth = n.depth
             /\ CanView(call.from, call.owner) <=> call.via = NoUser
             /\ call.via # NoUser => {call.via, call.owner} \in Edges(call.from, 2)
<1> DEFINE u == call.from
           v == call.owner
           depth == Depths(u, 2)
           first == Friends(u) \ {u}
           d == IF call.via = NoUser THEN 1 ELSE 2
           found == {m \in Found(u, 2) : m.user = v}
           match == [user |-> v, depth |-> d, requestable |-> call.via = NoUser]
           node == [user |-> v, depth |-> d, cards |-> 1]
<1>1. /\ cards[v].active /\ cards[v].request_enabled /\ cards[v].visibility # "private"
      /\ call.via # NoUser => cards[v].visibility = "network"
  BY DEF Grounded, Offered
<1>2. call.via = NoUser <=> v \in Friends(u)
  BY StatusOfFriends DEF Grounded
<1>3. ASSUME call.via # NoUser
      PROVE  call.via \in first /\ v \in Friends(call.via) /\ v \notin first /\ call.via \in Users
  <2>1. call.via \in Friends(u) /\ call.via \in Users
    BY <1>3 DEF Grounded, Friends
  <2>2. call.via # u
    BY <2>1 DEF Friends, Irreflexive, IsPair
  <2>3. v \in Friends(call.via)
    BY <1>3, <2>1, StatusOfFriends DEF Grounded
  <2> QED
    BY <1>2, <1>3, <2>1, <2>2, <2>3
<1>4. v \in DOMAIN depth /\ depth[v] = d
  <2>1. \A w : w \in DOMAIN depth <=>
               w \in first \/ (w \in Users \ (first \cup {u}) /\ \E f \in first : w \in Friends(f))
    BY DEF Depths
  <2>2. \A w \in DOMAIN depth : depth[w] = IF w \in first THEN 1 ELSE 2
    BY DEF Depths
  <2>3. CASE call.via = NoUser
    BY <1>2, <2>1, <2>2, <2>3
  <2>4. CASE call.via # NoUser
    BY <1>3, <2>1, <2>2, <2>4
  <2> QED
    BY <2>3, <2>4
<1>5. Found(u, 2) = {[user |-> w, depth |-> depth[w], requestable |-> cards[w].request_enabled /\ depth[w] = 1] :
                       w \in {x \in DOMAIN depth : /\ cards[x].active /\ cards[x].visibility # "private"
                                                   /\ depth[x] = 2 => cards[x].visibility = "network"}}
  BY DEF Found
<1>6. (cards[v].request_enabled /\ depth[v] = 1) = (call.via = NoUser)
  BY <1>1, <1>4
<1>7. match \in found
  <2>1. v \in {x \in DOMAIN depth : /\ cards[x].active /\ cards[x].visibility # "private"
                                    /\ depth[x] = 2 => cards[x].visibility = "network"}
    BY <1>1, <1>4
  <2>2. match = [user |-> v, depth |-> depth[v], requestable |-> cards[v].request_enabled /\ depth[v] = 1]
    BY <1>4, <1>6
  <2>3. match \in Found(u, 2)
    BY <1>5, <2>1, <2>2
  <2> QED
    BY <2>3
<1>8. ASSUME NEW m \in found PROVE m = match
  <2>1. PICK w \in DOMAIN depth :
          m = [user |-> w, depth |-> depth[w], requestable |-> cards[w].request_enabled /\ depth[w] = 1]
    BY <1>5, <1>8
  <2>2. w = v
    BY <1>8, <2>1
  <2> QED
    BY <1>4, <1>6, <2>1, <2>2
<1>9. found = {match}
  BY <1>7, <1>8
<1>10. node \in Nodes(u, 2)
  BY <1>1, <1>4 DEF Nodes
<1>11. CanView(u, v) <=> call.via = NoUser
  BY <1>1, <1>2, StatusOfFriends DEF CanView
<1>12. ASSUME call.via # NoUser PROVE {call.via, v} \in Edges(u, 2)
  <2>1. call.via \in DOMAIN depth
    BY <1>3, <1>12 DEF Depths
  <2> QED
    BY <1>3, <1>4, <1>12, <2>1 DEF Edges
<1>13. \E n \in {m \in Nodes(u, 2) : m.user = v} : n.cards = 1 /\ \A m \in found : m.depth = n.depth
  <2>1. node \in {m \in Nodes(u, 2) : m.user = v} /\ node.cards = 1 /\ node.depth = match.depth
    BY <1>10
  <2> QED
    BY <1>9, <2>1
<1> QED
  BY <1>9, <1>11, <1>12, <1>13

\* Where the two are not friends nothing that is found can be asked for directly.
LEMMA NotRequestable ==
  ASSUME TypeOK, OneActivePerPair, ~crossed, NEW u \in Users, NEW v \in Users, Status(u, v) # "accepted",
         NEW m \in Found(u, 2), m.user = v
  PROVE  ~m.requestable
<1>1. v \notin Friends(u)
  BY StatusOfFriends
<1>2. PICK w \in DOMAIN Depths(u, 2) :
        m = [user |-> w, depth |-> Depths(u, 2)[w], requestable |-> cards[w].request_enabled /\ Depths(u, 2)[w] = 1]
  BY DEF Found
<1>3. Depths(u, 2)[w] = 2
  <2>0. w = v
    BY <1>2
  <2>1. \A x \in DOMAIN Depths(u, 2) : Depths(u, 2)[x] = IF x \in Friends(u) \ {u} THEN 1 ELSE 2
    BY DEF Depths
  <2> QED
    BY <1>1, <2>0, <2>1
<1>4. w = v /\ (m.requestable <=> cards[w].request_enabled /\ Depths(u, 2)[w] = 1)
  BY <1>2
<1> QED
  BY <1>3, <1>4

\* A create ends at the connection only if that is blocked.
LEMMA EndsConnection ==
  ASSUME TypeOK, Next, NEW s \in Slots, calls[s].pc = "connection", calls'[s] = Idle
  PROVE  Status(calls[s].from, calls[s].owner) # "accepted"
<1>0. calls[s] # Idle /\ calls'[s] # calls[s]
  BY DEF Idle
<1>1. ASSUME NEW t \in Slots, NEW call, calls' = [calls EXCEPT ![t] = call] PROVE t = s
  BY <1>0, <1>1 DEF TypeOK
<1>2. ASSUME NEW t \in Slots, ConnectionCall(t) PROVE FALSE
  <2>1. \E call : calls' = [calls EXCEPT ![t] = call]
    BY <1>2 DEF ConnectionCall, SendFind, ChangeRead, SendCreate, ChangeWrite, Begin, End, Step
  <2>2. t = s
    BY <1>1, <2>1
  <2> QED
    BY <1>0, <1>2, <2>2 DEF ConnectionCall, SendFind, ChangeRead, SendCreate, ChangeWrite, Begin
<1>3. ASSUME NEW t \in Slots, RequestCall(t) PROVE CreateConnection(s)
  <2>1. \E call : calls' = [calls EXCEPT ![t] = call]
    BY <1>3 DEF RequestCall, CreateRead, CreateConnection, CreateFriends, CreateCandidate, CreateStore,
       AnswerRead, AnswerWrite, ReferralRead, ReferralWrite, RevealRead, RevealAnswer, Begin, End, Step
  <2>2. t = s
    BY <1>1, <2>1
  <2> QED
    BY <1>0, <1>3, <2>2 DEF RequestCall, CreateRead, CreateFriends, CreateCandidate, CreateStore,
       AnswerRead, AnswerWrite, ReferralRead, ReferralWrite, RevealRead, RevealAnswer, Begin
<1>4. CreateConnection(s)
  BY <1>0, <1>2, <1>3 DEF Next, CardWrite
<1>5. ASSUME Status(calls[s].from, calls[s].owner) = "accepted" PROVE FALSE
  <2>1. calls'[s] = Asks(calls[s], NoUser)
    BY <1>4, <1>5 DEF CreateConnection, Step, TypeOK
  <2> QED
    BY <2>1 DEF Asks, Idle
<1> QED
  BY <1>5

\* What a create that is alone on the server lets through is what the search and
\* the graph show, and nothing that they offer is refused.
THEOREM AsksAsFound == Spec => AskedAsFound
<1>1. TypeOK /\ KeyInv /\ AskInv /\ [Next]_expressVars =>
        [\A s \in alone : calls[s] # Idle /\ ~crossed /\ calls'[s] = Idle => EndsAsFound(calls[s])]_expressVars
  <2> SUFFICES ASSUME TypeOK, KeyInv, AskInv, Next, NEW s \in alone, calls[s] # Idle, ~crossed, calls'[s] = Idle
               PROVE  EndsAsFound(calls[s])
    BY DEF expressVars
  <2> DEFINE call == calls[s]
  <2>1. OneActivePerPair /\ s \in Slots /\ Irreflexive /\ Grounded(call)
    BY KeysKeepApart DEF AskInv, AloneStands
  <2>2. CASE call.pc = "store"
    <3>1. call.from \in Users /\ call.owner \in Users
      BY <2>1, <2>2, CallKinds
    <3>2. call.via = NoUser => Status(call.from, call.owner) \in {"accepted", "pending"}
      BY <2>1, <2>2 DEF Grounded
    <3>3. ASSUME call.from # call.owner, call.via = NoUser => Status(call.from, call.owner) = "accepted"
          PROVE  EndsAsFound(call)
      BY <2>1, <2>2, <3>1, <3>3, StoredAsFound DEF EndsAsFound
    <3> QED
      BY <2>2, <3>2, <3>3 DEF EndsAsFound
  <2>3. CASE call.pc \in {"connection", "candidates"}
    <3>1. call.from \in Users /\ call.owner \in Users
      BY <2>1, <2>3, CallKinds
    <3>2. Status(call.from, call.owner) # "accepted"
      <4>1. CASE call.pc = "candidates"
        BY <2>1, <4>1 DEF Grounded
      <4>2. CASE call.pc = "connection"
        BY <2>1, <4>2, EndsConnection
      <4> QED
        BY <2>3, <4>1, <4>2
    <3> QED
      BY <2>1, <2>3, <3>1, <3>2, NotRequestable DEF EndsAsFound
  <2>4. CASE call.pc \notin {"store", "connection", "candidates"}
    BY <2>4 DEF EndsAsFound
  <2> QED
    BY <2>2, <2>3, <2>4
<1>2. Init => TypeOK /\ KeyInv /\ AskInv
  BY InitTypes, KeyInit, AskStart
<1>3. TypeOK /\ KeyInv /\ AskInv /\ [Next]_expressVars => (TypeOK /\ KeyInv /\ AskInv)'
  BY TypeStep, KeyStep, AskStep
<1> QED
  BY <1>1, <1>2, <1>3, PTL DEF Spec, AskedAsFound

-------------------------------------------------------------------------------
(* The limiter.                                                            *)

LEMMA Fewer ==
  ASSUME NEW S, IsFiniteSet(S), NEW T, T \subseteq S
  PROVE  IsFiniteSet(T) /\ Cardinality(T) \in Nat /\ Cardinality(S) \in Nat /\ Cardinality(T) <= Cardinality(S)
BY FS_Subset, FS_CardinalityType

LEMMA FewerParts ==
  ASSUME NEW S, IsFiniteSet(S), NEW A, NEW B, A \subseteq S, B \subseteq S, S \subseteq A \cup B
  PROVE  Cardinality(S) <= Cardinality(A) + Cardinality(B)
<1>1. IsFiniteSet(A) /\ IsFiniteSet(B) /\ IsFiniteSet(A \cap B)
  BY FS_Subset
<1>2. S = A \cup B
  OBVIOUS
<1>3. Cardinality(A \cup B) = Cardinality(A) + Cardinality(B) - Cardinality(A \cap B)
  BY <1>1, FS_Union
<1>4. {Cardinality(A), Cardinality(B), Cardinality(A \cap B)} \subseteq Nat
  BY <1>1, FS_CardinalityType
<1> QED
  BY <1>2, <1>3, <1>4

\* Entries that have expired are dropped, and what is left of the rest counts.
LEMMA KeptCounts ==
  ASSUME RateAssumption, RateInv, NEW ip \in Ips
  PROVE  /\ Kept[ip] \in [count : Nat, resetAt : Nat] /\ Counts(Kept[ip], passed[ip])
         /\ Kept[ip].count # 0 => Kept[ip].resetAt > now
<1> DEFINE entry == requestsByIp[ip]
<1>1. entry \in [count : Nat, resetAt : Nat] /\ now \in Nat /\ Counts(entry, passed[ip])
      /\ passed[ip] \subseteq Nat \X Nat /\ IsFiniteSet(passed[ip]) /\ Window \in Nat /\ MaxRequests \in Nat
  BY DEF RateInv, RateAssumption
<1>2. CASE entry.resetAt > now
  BY <1>1, <1>2 DEF Kept
<1>3. CASE entry.resetAt <= now /\ entry.count = 0
  <2>1. Kept[ip] = NoEntry
    BY <1>3 DEF Kept
  <2> QED
    BY <1>1, <1>3, <2>1 DEF Counts, NoEntry
<1>4. CASE entry.resetAt <= now /\ entry.count # 0
  <2>1. Kept[ip] = NoEntry
    BY <1>4 DEF Kept
  <2>2. \A c \in passed[ip] : c[1] < now
    BY <1>1, <1>4 DEF Counts
  <2>3. {c \in passed[ip] : c[1] + Window > now} \subseteq {c \in passed[ip] : c[1] + Window >= entry.resetAt}
    BY <1>1, <1>4
  <2>4. IsFiniteSet({c \in passed[ip] : c[1] + Window >= entry.resetAt})
    BY <1>1, Fewer
  <2>5. Cardinality({c \in passed[ip] : c[1] + Window > now}) <= MaxRequests
    BY <1>1, <1>4, <2>3, <2>4, Fewer DEF Counts
  <2> QED
    BY <2>1, <2>2, <2>5 DEF Counts, NoEntry
<1> QED
  BY <1>1, <1>2, <1>3, <1>4

\* What the window before the entry's and the entry's together hold.
LEMMA CountsTwice ==
  ASSUME RateAssumption, now \in Nat, NEW served \in SUBSET (Nat \X Nat), IsFiniteSet(served),
         NEW entry \in [count : Nat, resetAt : Nat], entry.count # 0, Counts(entry, served), entry.resetAt > now,
         NEW time \in Nat, now < time + Window
  PROVE  Cardinality({c \in served : c[1] >= time /\ c[1] < time + Window}) <= 2 * MaxRequests
<1> DEFINE S == {c \in served : c[1] >= time /\ c[1] < time + Window}
           A == {c \in served : c[1] + Window >= entry.resetAt}
           B == {c \in served : c[1] + Window < entry.resetAt /\ c[1] + 2 * Window > entry.resetAt}
<1>1. /\ {MaxRequests, Window} \subseteq Nat
      /\ entry.resetAt <= now + Window /\ Cardinality(A) <= MaxRequests /\ Cardinality(B) <= MaxRequests
  BY DEF Counts, RateAssumption
<1>2. \A c \in served : c[1] \in Nat
  OBVIOUS
<1>3. S \subseteq A \cup B
  BY <1>1, <1>2
<1>4. IsFiniteSet(S) /\ IsFiniteSet(A \cap S) /\ IsFiniteSet(B \cap S) /\ IsFiniteSet(A) /\ IsFiniteSet(B)
  BY Fewer
<1>5. /\ Cardinality(A \cap S) <= Cardinality(A) /\ Cardinality(B \cap S) <= Cardinality(B)
      /\ {Cardinality(S), Cardinality(A), Cardinality(B), Cardinality(A \cap S), Cardinality(B \cap S)} \subseteq Nat
  <2>1. A \cap S \subseteq A /\ B \cap S \subseteq B /\ S \subseteq S
    OBVIOUS
  <2> HIDE DEF A, B, S
  <2> QED
    BY <1>4, <2>1, Fewer
<1>6. Cardinality(S) <= Cardinality(A \cap S) + Cardinality(B \cap S)
  <2> HIDE DEF A, B, S
  <2>1. A \cap S \subseteq S /\ B \cap S \subseteq S /\ S \subseteq (A \cap S) \cup (B \cap S)
    BY <1>3
  <2> QED
    BY <1>4, <2>1, FewerParts
<1> HIDE DEF A, B, S
<1>7. Cardinality(S) <= 2 * MaxRequests
  BY <1>1, <1>5, <1>6
<1> QED
  BY <1>7 DEF S

LEMMA InTime ==
  ASSUME NEW served, served \subseteq Nat \X Nat, Numbered(served)
  PROVE  \A c \in served : c[1] \in Nat /\ c[1] <= now
<1>1. \A c \in served : c[1] \in Nat
  OBVIOUS
<1>2. \A c \in served : c[1] <= now
  BY DEF Numbered
<1> QED
  BY <1>1, <1>2

LEMMA RateTick ==
  ASSUME RateAssumption, RateInv, Tick
  PROVE  RateInv'
<1>1. /\ now' = now + 1 /\ refused' = {} /\ UNCHANGED <<requestsByIp, passed>> /\ now \in Nat
      /\ {MaxRequests, Window} \subseteq Nat
  BY DEF Tick, RateInv, RateAssumption
<1>2. ASSUME NEW ip \in Ips
      PROVE  Numbered(passed[ip])' /\ Counts(requestsByIp[ip], passed[ip])'
             /\ \A time \in 0..now' : Cardinality(Since(ip, time)') <= 2 * MaxRequests
  <2>1. /\ passed[ip] \subseteq Nat \X Nat /\ IsFiniteSet(passed[ip]) /\ requestsByIp[ip] \in [count : Nat, resetAt : Nat]
        /\ Numbered(passed[ip]) /\ Counts(requestsByIp[ip], passed[ip])
    BY DEF RateInv
  <2>2. Numbered(passed[ip])'
    BY <1>1, <2>1 DEF Numbered
  <2>3. ASSUME requestsByIp[ip].count = 0
        PROVE  Counts(requestsByIp[ip], passed[ip])'
    <3>1. \A c \in passed[ip] : c[1] < now'
      BY <1>1, <2>1, <2>3 DEF Counts
    <3>2. {c \in passed[ip] : c[1] + Window > now'} \subseteq {c \in passed[ip] : c[1] + Window > now}
      BY <1>1, <2>1
    <3>3. IsFiniteSet({c \in passed[ip] : c[1] + Window > now})
      BY <2>1, Fewer
    <3>4. Cardinality({c \in passed[ip] : c[1] + Window > now'}) <= MaxRequests
      BY <1>1, <2>1, <2>3, <3>2, <3>3, Fewer DEF Counts
    <3> QED
      BY <1>1, <2>3, <3>1, <3>4 DEF Counts
  <2>4. ASSUME requestsByIp[ip].count # 0
        PROVE  Counts(requestsByIp[ip], passed[ip])'
    BY <1>1, <2>1, <2>4 DEF Counts
  <2>5. ASSUME NEW time \in 0..now'
        PROVE  Cardinality(Since(ip, time)') <= 2 * MaxRequests
    <3>1. CASE time = now'
      <4>0. \A c \in passed[ip] : c[1] \in Nat /\ c[1] <= now
        BY <2>1, InTime
      <4>1. \A c \in passed[ip] : ~(c[1] >= time)
        BY <1>1, <3>1, <4>0
      <4>2. Since(ip, time)' = {}
        BY <1>1, <4>1 DEF Since
      <4> QED
        BY <1>1, <4>2, FS_EmptySet
    <3>2. CASE time \in 0..now
      <4>1. Since(ip, time)' = Since(ip, time)
        BY <1>1 DEF Since
      <4> QED
        BY <3>2, <4>1 DEF RateInv, LimitHolds
    <3> QED
      BY <1>1, <3>1, <3>2
  <2> QED
    BY <2>2, <2>3, <2>4, <2>5
<1>3. LimitHolds'
  BY <1>1, <1>2 DEF LimitHolds
<1> QED
  BY <1>1, <1>2, <1>3 DEF RateInv

\* A call let through adds itself, under a number that is new.
LEMMA Passed ==
  ASSUME NEW served, served \subseteq Nat \X Nat, IsFiniteSet(served), Numbered(served), now \in Nat
  PROVE  LET new == <<now, Cardinality({c \in served : c[1] = now})>>
         IN  /\ new \in Nat \X Nat /\ new \notin served
             /\ served \cup {new} \subseteq Nat \X Nat /\ IsFiniteSet(served \cup {new}) /\ Numbered(served \cup {new})
<1> DEFINE n == Cardinality({c \in served : c[1] = now})
           new == <<now, n>>
           more == served \cup {new}
<1>1. IsFiniteSet({c \in served : c[1] = now}) /\ n \in Nat
  BY Fewer, FS_CardinalityType
<1>2. new \notin served
  <2>1. new \in served => n < n
    BY DEF Numbered
  <2> QED
    BY <1>1, <2>1
<1>3. IsFiniteSet(more)
  BY FS_AddElement
<1>4. ASSUME NEW c \in more
      PROVE  c[1] <= now /\ c[2] < Cardinality({d \in more : d[1] = c[1]})
  <2>1. CASE c[1] = now
    <3>1. {d \in more : d[1] = now} = {d \in served : d[1] = now} \cup {new}
      OBVIOUS
    <3>2. new \notin {d \in served : d[1] = now}
      BY <1>2
    <3>3. Cardinality({d \in more : d[1] = now}) = n + 1
      BY <1>1, <3>1, <3>2, FS_AddElement
    <3>4. c[2] <= n /\ c[2] \in Nat
      BY <1>1, <2>1 DEF Numbered
    <3> QED
      BY <1>1, <2>1, <3>3, <3>4
  <2>2. CASE c[1] # now
    <3>1. c \in served
      BY <2>2
    <3>2. {d \in more : d[1] = c[1]} = {d \in served : d[1] = c[1]}
      BY <2>2
    <3> QED
      BY <3>1, <3>2 DEF Numbered
  <2> QED
    BY <2>1, <2>2
<1>5. Numbered(more)
  BY <1>4 DEF Numbered
<1> QED
  BY <1>1, <1>2, <1>3, <1>5

\* The entry counts the call that is let through.
LEMMA PassedCounts ==
  ASSUME RateAssumption, now \in Nat, NEW served, served \subseteq Nat \X Nat, IsFiniteSet(served), Numbered(served),
         NEW entry \in [count : Nat, resetAt : Nat], Counts(entry, served), entry.count # 0 => entry.resetAt > now,
         entry.count < MaxRequests, NEW n \in Nat, <<now, n>> \notin served
  PROVE  /\ Counted(entry) \in [count : Nat, resetAt : Nat] /\ Counted(entry).count = entry.count + 1
         /\ Counted(entry).resetAt > now /\ Counts(Counted(entry), served \cup {<<now, n>>})
<1> DEFINE new == <<now, n>>
           more == served \cup {new}
           old == {c \in served : c[1] + Window >= Counted(entry).resetAt}
           A == {c \in more : c[1] + Window >= Counted(entry).resetAt}
           B == {c \in more : c[1] + Window < Counted(entry).resetAt /\ c[1] + 2 * Window > Counted(entry).resetAt}
<1>1. {MaxRequests, Window} \subseteq Nat /\ Window > 0 /\ MaxRequests > 0
  BY DEF RateAssumption
<1>2. /\ Counted(entry) \in [count : Nat, resetAt : Nat] /\ Counted(entry).count = entry.count + 1
      /\ Counted(entry).resetAt > now /\ Counted(entry).resetAt <= now + Window /\ Window <= Counted(entry).resetAt
      /\ Counted(entry).resetAt = IF entry.count = 0 THEN now + Window ELSE entry.resetAt
  BY <1>1 DEF Counted, Counts
<1>3. \A c \in more : c[1] \in Nat /\ c[1] < Counted(entry).resetAt
  <2>1. \A c \in served : c[1] \in Nat /\ c[1] <= now
    BY InTime
  <2> QED
    BY <1>1, <1>2, <2>1
<1>4. A = old \cup {new} /\ new \notin old
  BY <1>1, <1>2
<1>5. Cardinality(old) = entry.count /\ IsFiniteSet(old)
  <2>1. CASE entry.count = 0
    <3>1. \A c \in served : c[1] \in Nat /\ c[1] < now
      BY <2>1 DEF Counts
    <3>2. old = {}
      BY <1>1, <1>2, <2>1, <3>1
    <3> QED
      BY <2>1, <3>2, FS_EmptySet
  <2>2. CASE entry.count # 0
    BY <1>2, <2>2, Fewer DEF Counts
  <2> QED
    BY <2>1, <2>2
<1>6. Cardinality(A) = entry.count + 1
  <2> HIDE DEF A, old
  <2> QED
    BY <1>4, <1>5, FS_AddElement
<1>7. Cardinality(B) <= MaxRequests
  <2>1. CASE entry.count = 0
    <3>1. B \subseteq {c \in served : c[1] + Window > now}
      BY <1>1, <1>2, <1>3, <2>1
    <3>2. Cardinality({c \in served : c[1] + Window > now}) <= MaxRequests /\ IsFiniteSet({c \in served : c[1] + Window > now})
      BY <2>1, Fewer DEF Counts
    <3> HIDE DEF B
    <3> QED
      BY <1>1, <3>1, <3>2, Fewer
  <2>2. CASE entry.count # 0
    <3>1. B = {c \in served : c[1] + Window < entry.resetAt /\ c[1] + 2 * Window > entry.resetAt}
      BY <1>1, <1>2, <1>3, <2>2
    <3> QED
      BY <2>2, <3>1 DEF Counts
  <2> QED
    BY <2>1, <2>2
<1> HIDE DEF A, B, old
<1>8. Counts(Counted(entry), more)
  BY <1>1, <1>2, <1>3, <1>6, <1>7 DEF Counts, A, B
<1> QED
  BY <1>2, <1>8

LEMMA RateCall ==
  ASSUME RateAssumption, RateInv, NEW ip \in Ips, Call(ip)
  PROVE  RateInv'
<1> DEFINE entry == Kept[ip]
           served == passed[ip]
           new == <<now, Cardinality({c \in served : c[1] = now})>>
<1>1. /\ now \in Nat /\ now' = now /\ {MaxRequests, Window} \subseteq Nat /\ Window > 0 /\ refused \subseteq Ips
      /\ DOMAIN passed = Ips
      /\ served \subseteq Nat \X Nat /\ IsFiniteSet(served) /\ Numbered(served)
      /\ entry \in [count : Nat, resetAt : Nat] /\ Counts(entry, served)
      /\ entry.count # 0 => entry.resetAt > now
  BY KeptCounts DEF Call, RateInv, RateAssumption
<1>2. /\ requestsByIp' = [q \in Ips |-> IF q = ip THEN Counted(entry) ELSE Kept[q]]
      /\ requestsByIp'[ip] = Counted(entry)
  BY DEF Call, Kept
<1>3. Counted(entry) = entry <=> entry.count >= MaxRequests /\ entry.count # 0
  BY <1>1 DEF Counted, RateAssumption
<1>4. ASSUME NEW q \in Ips, q # ip
      PROVE  /\ requestsByIp'[q] \in [count : Nat, resetAt : Nat] /\ Counts(requestsByIp'[q], passed[q])
             /\ passed[q] \subseteq Nat \X Nat /\ IsFiniteSet(passed[q]) /\ Numbered(passed[q])
             /\ \A time \in 0..now : Cardinality(Since(q, time)) <= 2 * MaxRequests
             /\ q \in refused => Cardinality({c \in passed[q] : c[1] + Window > now}) >= MaxRequests
  BY <1>2, <1>4, KeptCounts DEF RateInv, LimitHolds
<1>5. CASE entry.count >= MaxRequests /\ entry.count # 0
  <2>1. passed' = passed /\ refused' = refused \cup {ip}
    BY <1>2, <1>3, <1>5 DEF Call
  <2>2. Cardinality({c \in served : c[1] + Window > now}) >= MaxRequests
    <3>1. {c \in served : c[1] + Window >= entry.resetAt} \subseteq {c \in served : c[1] + Window > now}
      BY <1>1, <1>5
    <3>2. IsFiniteSet({c \in served : c[1] + Window > now})
      BY <1>1, Fewer
    <3>3. Cardinality({c \in served : c[1] + Window >= entry.resetAt}) = entry.count
      BY <1>1, <1>5 DEF Counts
    <3> QED
      BY <1>1, <1>5, <3>1, <3>2, <3>3, Fewer
  <2>3. \A q \in Ips : /\ requestsByIp'[q] \in [count : Nat, resetAt : Nat] /\ Counts(requestsByIp'[q], passed[q])
                       /\ passed[q] \subseteq Nat \X Nat /\ IsFiniteSet(passed[q]) /\ Numbered(passed[q])
    BY <1>1, <1>2, <1>3, <1>4, <1>5
  <2>4. LimitHolds'
    <3>1. \A q \in Ips, time \in 0..now : Cardinality(Since(q, time)) <= 2 * MaxRequests
      BY DEF RateInv, LimitHolds
    <3>2. \A q \in refused' : Cardinality({c \in passed[q] : c[1] + Window > now}) >= MaxRequests
      BY <1>1, <1>4, <2>1, <2>2
    <3> QED
      BY <1>1, <2>1, <3>1, <3>2 DEF LimitHolds, Since
  <2> QED
    BY <1>1, <1>2, <2>1, <2>3, <2>4 DEF RateInv, Counts, Numbered
<1>6. CASE entry.count < MaxRequests
  <2>1. refused' = refused /\ passed' = [q \in Ips |-> IF q = ip THEN served \cup {new} ELSE passed[q]]
    BY <1>1, <1>2, <1>3, <1>6 DEF Call, RateAssumption
  <2>2. /\ new \in Nat \X Nat /\ new \notin served
        /\ served \cup {new} \subseteq Nat \X Nat /\ IsFiniteSet(served \cup {new}) /\ Numbered(served \cup {new})
    BY <1>1, Passed
  <2>3. /\ Counted(entry) \in [count : Nat, resetAt : Nat] /\ Counted(entry).count = entry.count + 1
        /\ Counted(entry).resetAt > now /\ Counts(Counted(entry), served \cup {new})
    BY <1>1, <1>6, <2>2, PassedCounts
  <2>4. \A time \in 0..now : Cardinality({c \in served \cup {new} : c[1] >= time /\ c[1] < time + Window}) <= 2 * MaxRequests
    <3>1. ASSUME NEW time \in 0..now
          PROVE  Cardinality({c \in served \cup {new} : c[1] >= time /\ c[1] < time + Window}) <= 2 * MaxRequests
      <4>1. CASE now < time + Window
        <5>1. PICK more, count : more = served \cup {new} /\ count = Counted(entry)
          OBVIOUS
        <5>2. /\ more \in SUBSET (Nat \X Nat) /\ IsFiniteSet(more) /\ count \in [count : Nat, resetAt : Nat]
              /\ count.count # 0 /\ count.resetAt > now /\ Counts(count, more)
          BY <1>1, <2>2, <2>3, <5>1
        <5>3. Cardinality({c \in more : c[1] >= time /\ c[1] < time + Window}) <= 2 * MaxRequests
          BY <1>1, <4>1, <5>2, CountsTwice
        <5> QED
          BY <5>1, <5>3
      <4>2. CASE ~(now < time + Window)
        <5>1. {c \in served \cup {new} : c[1] >= time /\ c[1] < time + Window} = Since(ip, time)
          BY <1>1, <4>2 DEF Since
        <5> QED
          BY <5>1 DEF RateInv, LimitHolds
      <4> QED
        BY <4>1, <4>2
    <3> QED
      BY <3>1
  <2>5. ip \in refused => Cardinality({c \in served \cup {new} : c[1] + Window > now}) >= MaxRequests
    <3>1. {c \in served : c[1] + Window > now} \subseteq {c \in served \cup {new} : c[1] + Window > now}
      OBVIOUS
    <3>2. IsFiniteSet({c \in served \cup {new} : c[1] + Window > now})
      BY <2>2, Fewer
    <3>3. ip \in refused => Cardinality({c \in served : c[1] + Window > now}) >= MaxRequests
      BY DEF RateInv, LimitHolds
    <3>4. PICK few, many : /\ few = {c \in served : c[1] + Window > now}
                           /\ many = {c \in served \cup {new} : c[1] + Window > now}
      OBVIOUS
    <3>5. few \subseteq many /\ IsFiniteSet(many) /\ (ip \in refused => Cardinality(few) >= MaxRequests)
      BY <3>1, <3>2, <3>3, <3>4
    <3>6. Cardinality(few) \in Nat /\ Cardinality(many) \in Nat /\ Cardinality(few) <= Cardinality(many)
      BY <3>5, Fewer
    <3>7. ip \in refused => Cardinality(many) >= MaxRequests
      BY <1>1, <3>5, <3>6
    <3> QED
      BY <3>4, <3>7
  <2>6. \A q \in Ips : /\ requestsByIp'[q] \in [count : Nat, resetAt : Nat] /\ Counts(requestsByIp'[q], passed'[q])
                       /\ passed'[q] \subseteq Nat \X Nat /\ IsFiniteSet(passed'[q]) /\ Numbered(passed'[q])
    BY <1>2, <1>4, <2>1, <2>2, <2>3
  <2>7. LimitHolds'
    <3>1. \A q \in Ips, time \in 0..now : Cardinality(Since(q, time)') <= 2 * MaxRequests
      BY <1>1, <1>4, <2>1, <2>4 DEF Since
    <3>2. \A q \in refused' : Cardinality({c \in passed'[q] : c[1] + Window > now}) >= MaxRequests
      BY <1>1, <1>4, <2>1, <2>5
    <3> QED
      BY <1>1, <3>1, <3>2 DEF LimitHolds
  <2>8. \A q \in Ips : Numbered(passed[q])' /\ Counts(requestsByIp[q], passed[q])'
    BY <1>1, <2>6 DEF Counts, Numbered
  <2>9. requestsByIp' \in [Ips -> [count : Nat, resetAt : Nat]] /\ DOMAIN passed' = Ips
    BY <1>2, <2>1, <2>6
  <2> QED
    BY <1>1, <2>1, <2>6, <2>7, <2>8, <2>9 DEF RateInv
<1> QED
  BY <1>1, <1>5, <1>6 DEF RateAssumption

LEMMA RateStart ==
  ASSUME RateAssumption, RateInit
  PROVE  RateInv
<1>1. /\ now = 0 /\ refused = {} /\ \A ip \in Ips : passed[ip] = {} /\ requestsByIp[ip] = [count |-> 0, resetAt |-> 0]
      /\ requestsByIp \in [Ips -> [count : Nat, resetAt : Nat]] /\ DOMAIN passed = Ips
  BY DEF RateInit, NoEntry
<1>2. ASSUME NEW ip \in Ips
      PROVE  Numbered(passed[ip]) /\ Counts(requestsByIp[ip], passed[ip]) /\ IsFiniteSet(passed[ip])
             /\ \A time : Cardinality(Since(ip, time)) <= 2 * MaxRequests
  <2>1. /\ {c \in passed[ip] : c[1] + Window > now} = {}
        /\ \A time : Since(ip, time) = {}
    BY <1>1 DEF Since
  <2>2. Cardinality({c \in passed[ip] : c[1] + Window > now}) <= MaxRequests
    BY <2>1, FS_EmptySet DEF RateAssumption
  <2>3. Numbered(passed[ip]) /\ Counts(requestsByIp[ip], passed[ip]) /\ IsFiniteSet(passed[ip])
    BY <1>1, <2>2, FS_EmptySet DEF Numbered, Counts
  <2>4. \A time : Cardinality(Since(ip, time)) <= 2 * MaxRequests
    <3>1. 0 <= 2 * MaxRequests
      BY DEF RateAssumption
    <3> QED
      BY <2>1, <3>1, FS_EmptySet
  <2> QED
    BY <2>3, <2>4
<1> QED
  BY <1>1, <1>2 DEF RateInv, LimitHolds

\* With any number of addresses and any limit, no stretch as long as the window
\* lets more than twice the limit of one address through, and an address that is
\* refused has had all of it (createRateLimitMiddleware).
THEOREM LimitKept == RateSpec => []LimitHolds
<1>1. RateInit => RateInv
  BY RateStart, RateAssumption
<1>2. RateInv /\ [RateNext]_rateVars => RateInv'
  <2> SUFFICES ASSUME RateInv, [RateNext]_rateVars PROVE RateInv'
    OBVIOUS
  <2>1. CASE UNCHANGED rateVars
    BY <2>1 DEF rateVars, RateInv, Counts, Numbered, LimitHolds, Since
  <2> QED
    BY <2>1, RateTick, RateCall, RateAssumption DEF RateNext
<1>3. RateInv => LimitHolds
  BY DEF RateInv
<1> QED
  BY <1>1, <1>2, <1>3, PTL DEF RateSpec
===============================================================================
