-------------------------------- MODULE Express --------------------------------
(***************************************************************************)
(* The Express server: friend connections, cards, card requests, and the   *)
(* network it finds cards in. A handler awaits between what it reads and   *)
(* what it writes, without a transaction: each action here runs from one   *)
(* await to the next. Every user exists and is active; a call refused by   *)
(* what it reads first changes nothing and is not a step.                  *)
(***************************************************************************)
EXTENDS Naturals, Sequences

CONSTANTS
  Users, Slots,     \* accounts; calls the server handles at once
  NoUser,           \* a null id
  MaxConns, MaxReqs, MaxEdits  \* bounds: rows of either table, changes of cards

ASSUME ExpressAssumption == NoUser \notin Users /\ {MaxConns, MaxReqs, MaxEdits} \subseteq Nat

VARIABLES
  conns,      \* Connection, in order of created_at; keyed: active_pair_key is set
  reqs,       \* Request
  cards,      \* the card of each user
  calls,      \* calls in flight
  edits,
  alone,      \* history: the call that has met no other, if any
  crossed,    \* history: a status was written over one that was not read
  consented,  \* history: requests the owner granted, and who had to vouch for had vouched
  vouched, revealed  \* history: requests vouched for; requests whose contact was revealed

history == <<crossed, consented, vouched, revealed>>
expressVars == <<conns, reqs, cards, calls, edits, alone, history>>

Idle == [pc |-> "idle"]
Active == {"pending", "accepted", "blocked"}   \* ACTIVE_CONNECTION_STATUSES
Decisions == {"pending", "approved", "declined", "ignored"}
Visibilities == {"private", "friends", "network"}
CardRows == [visibility : Visibilities, request_enabled : BOOLEAN, active : BOOLEAN]

IsPair(c, u, v) == {conns[c].from, conns[c].to} = {u, v}
ActiveBetween(u, v) == {c \in DOMAIN conns : IsPair(c, u, v) /\ conns[c].status \in Active}

\* findActiveBetweenUsers: the status of the newest.
Status(u, v) ==
  LET found == ActiveBetween(u, v)
  IN  IF found = {} THEN "none" ELSE conns[CHOOSE c \in found : \A d \in found : d <= c].status
\* listByUser(u, "accepted")
Friends(u) == {v \in Users : \E c \in DOMAIN conns : conns[c].status = "accepted" /\ IsPair(c, u, v)}

\* A call alone on the server sees one state throughout.
Begin(s, call) ==
  /\ calls[s] = Idle
  /\ calls' = [calls EXCEPT ![s] = call]
  /\ alone' = (IF \A t \in Slots : calls[t] = Idle THEN {s} ELSE {})
Step(s, call) == calls' = [calls EXCEPT ![s] = call] /\ UNCHANGED alone
End(s) == Step(s, Idle)

-------------------------------------------------------------------------------
(* Connections.                                                            *)

\* sendRequest up to findActiveBetweenUsers.
SendFind(s, u, v) ==
  /\ u # v /\ ActiveBetween(u, v) = {}
  /\ Begin(s, [pc |-> "send", from |-> u, to |-> v])
  /\ UNCHANGED <<conns, reqs, cards, edits, history>>

\* Mutant: the insert without the key.
KeyTaken_Never(u, v) == FALSE

\* The unique key of the pair: a violation is answered 409.
KeyTaken(u, v) == \E c \in DOMAIN conns : conns[c].keyed /\ IsPair(c, u, v)

SendCreate(s) ==
  /\ calls[s].pc = "send" /\ End(s)
  /\ LET u == calls[s].from  v == calls[s].to
     IN  \/ KeyTaken(u, v) /\ UNCHANGED conns
         \/ /\ ~KeyTaken(u, v) /\ Len(conns) < MaxConns
            /\ conns' = Append(conns, [from |-> u, to |-> v, status |-> "pending", keyed |-> TRUE])
  /\ UNCHANGED <<reqs, cards, edits, history>>

\* accept, block and remove: what they ask of the row they read.
Allowed(u, c, status) ==
  IF status = "accepted" THEN conns[c].to = u /\ conns[c].status = "pending"
  ELSE u \in {conns[c].from, conns[c].to} /\ conns[c].status \notin {"blocked", "removed"}

ChangeRead(s, u, c, status) ==
  /\ Allowed(u, c, status)
  /\ Begin(s, [pc |-> "change", conn |-> c, status |-> status, seen |-> conns[c].status])
  /\ UNCHANGED <<conns, reqs, cards, edits, history>>

\* updateStatus, whatever the row holds by now.
Written(row, status) == [row EXCEPT !.status = status, !.keyed = @ /\ status # "removed"]

ChangeWrite(s) ==
  /\ calls[s].pc = "change" /\ End(s)
  /\ conns' = [conns EXCEPT ![calls[s].conn] = Written(@, calls[s].status)]
  /\ crossed' = (crossed \/ conns[calls[s].conn].status # calls[s].seen)
  /\ UNCHANGED <<reqs, cards, edits, consented, vouched, revealed>>

-------------------------------------------------------------------------------
(* Cards and the network.                                                  *)

\* The owner's create, update and delete: the row read only says whose it is.
CardWrite(u, row) ==
  /\ edits < MaxEdits /\ edits' = edits + 1
  /\ cards' = [cards EXCEPT ![u] = row] /\ cards[u] # row
  /\ alone' = {} /\ UNCHANGED <<conns, reqs, calls, history>>

\* findReachableUsers and walk, to a depth of one or two.
Depths(u, deep) ==
  LET first == Friends(u) \ {u}
      second == {v \in Users \ (first \cup {u}) : \E f \in first : v \in Friends(f)}
  IN  [v \in first \cup (IF deep = 2 THEN second ELSE {}) |-> IF v \in first THEN 1 ELSE 2]

\* findNetworkMatchesForCard; every card here is of the item that is asked for.
Found(u, deep) ==
  LET depth == Depths(u, deep)
  IN  {[user |-> v, depth |-> depth[v], requestable |-> cards[v].request_enabled /\ depth[v] = 1] :
         v \in {v \in DOMAIN depth : /\ cards[v].active /\ cards[v].visibility # "private"
                                     /\ depth[v] = 2 => cards[v].visibility = "network"}}

\* The nodes of graph other than the caller, and its edges.
Nodes(u, deep) ==
  LET depth == Depths(u, deep)
  IN  {[user |-> v, depth |-> depth[v],
        cards |-> IF cards[v].active /\ cards[v].visibility # "private" THEN 1 ELSE 0] : v \in DOMAIN depth}
Edges(u, deep) ==
  LET seen == DOMAIN Depths(u, deep) \cup {u}
  IN  {e \in {{v, w} : v \in seen, w \in seen} : \E v, w \in e : w \in Friends(v)}

\* getById
CanView(u, owner) ==
  u = owner \/ (cards[owner].visibility # "private" /\ Status(u, owner) = "accepted")

-------------------------------------------------------------------------------
(* Requests.                                                               *)

\* create: the card, then the connection, then the friends one by one.
CreateRead(s, u, owner) ==
  /\ cards[owner].active /\ cards[owner].request_enabled /\ cards[owner].visibility # "private"
  /\ Begin(s, [pc |-> "connection", from |-> u, owner |-> owner, shared |-> cards[owner].visibility])
  /\ UNCHANGED <<conns, reqs, cards, edits, history>>

Asks(call, via) == [pc |-> "store", from |-> call.from, owner |-> call.owner, via |-> via]

\* Mutant: a blocked connection is taken as none.
CreateConnection_Blocked(s) ==
  /\ calls[s].pc = "connection"
  /\ LET call == calls[s]
         status == Status(call.from, call.owner)
     IN  IF status = "accepted" THEN Step(s, Asks(call, NoUser))
         ELSE Step(s, [pc |-> "friends", from |-> call.from, owner |-> call.owner, shared |-> call.shared,
                       connected |-> status # "none"])
  /\ UNCHANGED <<conns, reqs, cards, edits, history>>

CreateConnection(s) ==
  /\ calls[s].pc = "connection"
  /\ LET call == calls[s]
         status == Status(call.from, call.owner)
     IN  CASE status = "blocked" -> End(s)
           [] status = "accepted" -> Step(s, Asks(call, NoUser))
           [] OTHER -> Step(s, [pc |-> "friends", from |-> call.from, owner |-> call.owner,
                                shared |-> call.shared, connected |-> status = "pending"])
  /\ UNCHANGED <<conns, reqs, cards, edits, history>>

CreateFriends(s) ==
  /\ calls[s].pc = "friends"
  /\ Step(s, [pc |-> "candidates", from |-> calls[s].from, owner |-> calls[s].owner, shared |-> calls[s].shared,
              connected |-> calls[s].connected, left |-> Friends(calls[s].from) \ {calls[s].owner}])
  /\ UNCHANGED <<conns, reqs, cards, edits, history>>

\* findMutualFriend takes the candidates in an order that is left open here.
CreateCandidate(s) ==
  /\ calls[s].pc = "candidates"
  /\ LET call == calls[s]
     IN  \/ \E f \in call.left :
              IF Status(f, call.owner) # "accepted" THEN Step(s, [call EXCEPT !.left = @ \ {f}])
              ELSE IF call.shared = "network" THEN Step(s, Asks(call, f)) ELSE End(s)
         \/ call.left = {} /\ IF call.connected THEN Step(s, Asks(call, NoUser)) ELSE End(s)
  /\ UNCHANGED <<conns, reqs, cards, edits, history>>

\* The row of a referred request says not_required until the intermediary answers.
CreateStore(s) ==
  /\ calls[s].pc = "store" /\ End(s) /\ Len(reqs) < MaxReqs
  /\ reqs' = Append(reqs, [requester |-> calls[s].from, owner |-> calls[s].owner, intermediary |-> calls[s].via,
                           status |-> "pending", referral |-> "not_required"])
  /\ UNCHANGED <<conns, cards, edits, history>>

\* Mutant: the owner may answer before the intermediary.
Answerable_Early(r, u) == reqs[r].owner = u

\* update, updateReferral and revealContact: what they ask of the row they read.
Answerable(r, u) ==
  reqs[r].owner = u /\ (reqs[r].intermediary # NoUser => reqs[r].referral = "approved")

AnswerRead(s, u, r, decision) ==
  /\ Answerable(r, u)
  /\ Begin(s, [pc |-> "answer", req |-> r, decision |-> decision])
  /\ UNCHANGED <<conns, reqs, cards, edits, history>>

AnswerWrite(s) ==
  /\ calls[s].pc = "answer" /\ End(s)
  /\ LET r == calls[s].req
     IN  /\ reqs' = [reqs EXCEPT ![r].status = calls[s].decision]
         /\ consented' = consented \cup
              {q \in {r} : calls[s].decision = "approved" /\ (reqs[r].intermediary # NoUser => r \in vouched)}
  /\ UNCHANGED <<conns, cards, edits, crossed, vouched, revealed>>

ReferralRead(s, u, r, decision) ==
  /\ reqs[r].intermediary = u
  /\ Begin(s, [pc |-> "refer", req |-> r, decision |-> decision])
  /\ UNCHANGED <<conns, reqs, cards, edits, history>>

ReferralWrite(s) ==
  /\ calls[s].pc = "refer" /\ End(s)
  /\ reqs' = [reqs EXCEPT ![calls[s].req].referral = calls[s].decision]
  /\ vouched' = vouched \cup {q \in {calls[s].req} : calls[s].decision = "approved"}
  /\ UNCHANGED <<conns, cards, edits, crossed, consented, revealed>>

RevealRead(s, u, r) ==
  /\ u \in {reqs[r].owner, reqs[r].requester} /\ reqs[r].status = "approved"
  /\ Begin(s, [pc |-> "reveal", req |-> r])
  /\ UNCHANGED <<conns, reqs, cards, edits, history>>

RevealAnswer(s) ==
  /\ calls[s].pc = "reveal" /\ End(s)
  /\ revealed' = revealed \cup {calls[s].req}
  /\ UNCHANGED <<conns, reqs, cards, edits, crossed, consented, vouched>>

-------------------------------------------------------------------------------
Init ==
  /\ conns = <<>> /\ reqs = <<>> /\ cards \in [Users -> CardRows] /\ edits = 0
  /\ calls = [s \in Slots |-> Idle]
  /\ alone = {} /\ crossed = FALSE /\ consented = {} /\ vouched = {} /\ revealed = {}

ConnectionCall(s) ==
  \/ \E u, v \in Users : SendFind(s, u, v)
  \/ \E u \in Users, c \in DOMAIN conns, status \in {"accepted", "blocked", "removed"} : ChangeRead(s, u, c, status)
  \/ SendCreate(s) \/ ChangeWrite(s)

RequestCall(s) ==
  \/ \E u, v \in Users : CreateRead(s, u, v)
  \/ CreateConnection(s) \/ CreateFriends(s) \/ CreateCandidate(s) \/ CreateStore(s)
  \/ \E u \in Users, r \in DOMAIN reqs, d \in Decisions : AnswerRead(s, u, r, d)
  \/ \E u \in Users, r \in DOMAIN reqs, d \in Decisions \ {"pending"} : ReferralRead(s, u, r, d)
  \/ \E u \in Users, r \in DOMAIN reqs : RevealRead(s, u, r)
  \/ AnswerWrite(s) \/ ReferralWrite(s) \/ RevealAnswer(s)

Next ==
  \/ \E s \in Slots : ConnectionCall(s) \/ RequestCall(s)
  \/ \E u \in Users, row \in CardRows : CardWrite(u, row)

Spec == Init /\ [][Next]_expressVars

-------------------------------------------------------------------------------
\* No two users have more than one connection that is pending, accepted or
\* blocked, however their calls overlap: findActiveBetweenUsers would pick one of
\* them. (As long as no status has been written over another than was read.)
OneActivePerPair ==
  ~crossed =>
    \A c, d \in DOMAIN conns :
      conns[c].status \in Active /\ conns[d].status \in Active
        /\ IsPair(c, conns[d].from, conns[d].to) => c = d

\* A contact is only revealed for a request its owner has granted, at a time when
\* the intermediary, where there is one, had vouched for it, whatever is answered
\* meanwhile by whom.
RevealedByConsent == revealed \subseteq consented

\* A create that ends, for a card of somebody else: with a request, direct for a
\* card that is found and can be viewed as a friend's, or referred for a
\* second-degree one (or direct across a pending connection); or without, and
\* then nothing is found that it could have asked for directly.
EndsAsFound(call) ==
  LET found == {m \in Found(call.from, 2) : m.user = call.owner}
      nodes == {n \in Nodes(call.from, 2) : n.user = call.owner}
  IN  /\ call.pc = "store" /\ call.from # call.owner =>
           \/ call.via = NoUser /\ Status(call.from, call.owner) = "pending"
           \/ /\ found = {[user |-> call.owner, depth |-> IF call.via = NoUser THEN 1 ELSE 2,
                           requestable |-> call.via = NoUser]}
              /\ \E n \in nodes : n.cards = 1 /\ \A m \in found : m.depth = n.depth
              /\ CanView(call.from, call.owner) <=> call.via = NoUser
              /\ call.via # NoUser => {call.via, call.owner} \in Edges(call.from, 2)
      /\ call.pc \in {"connection", "candidates"} => ~\E m \in found : m.requestable

\* What create lets through is what the search and the graph show, and nothing
\* that they offer is refused, where the call was alone on the server. (Asking for
\* one's own card, or across a pending connection, is let through beyond that.)
AskedAsFound ==
  [][\A s \in alone : calls[s] # Idle /\ ~crossed /\ calls'[s] = Idle => EndsAsFound(calls[s])]_expressVars

\* A request without an intermediary is one of friends, and a referred one has a
\* friend of both for intermediary. (A call alone on the server.)
AskedWithinReach ==
  \A s \in Slots :
    calls[s].pc = "store" /\ s \in alone =>
      LET call == calls[s]
      IN  IF call.via = NoUser THEN call.owner \in Friends(call.from)
          ELSE {call.from, call.owner} \subseteq Friends(call.via)
===============================================================================
