-------------------------------- MODULE Circle --------------------------------
(***************************************************************************)
(* The trust graph as the signed-in user's client sees it: their link to   *)
(* every other person, the id of an open request, and whom they have       *)
(* blocked. The calls are those of apiClient, each one transaction of the  *)
(* database (TrustGraph models what happens inside them); what the other   *)
(* people do to the user is one step each. Friendships between others are  *)
(* fixed, for they only decide who is a friend of a friend.                *)
(***************************************************************************)
EXTENDS Naturals, FiniteSets

CONSTANTS
  People,       \* everyone but the signed-in user
  Tied,         \* pairs of People who are friends of each other
  MaxRequests   \* bound: friend requests ever made

ASSUME CircleAssumption ==
  /\ IsFiniteSet(People) /\ MaxRequests \in Nat
  /\ \A t \in Tied : t \subseteq People /\ Cardinality(t) = 2

VARIABLES
  link,    \* friend_requests (pending) and friendships, by the other person
  ticket,  \* id of the pending request, 0 when there is none
  shut,    \* user_blocks of the user
  issued   \* requests made so far

server == <<link, ticket, shut, issued>>

Relations == {"none", "incoming", "outgoing", "friend"}
Parts == {"friends", "requests", "fof", "blocks"}
AllParts == Parts \cup {"stats", "graph"}
Operations == {"send", "accept", "decline", "cancel", "remove", "block", "unblock"}

-------------------------------------------------------------------------------
(* What a client reads.                                                    *)

\* The requests that are open, as a function of the other person.
RequestsNow == [p \in {q \in People : ticket[q] # 0} |-> [dir |-> link[p], id |-> ticket[p]]]
FriendsNow == {p \in People : link[p] = "friend"}
BlocksNow == shut

\* network_graph at depth 2: friends of friends, unless blocked. A person
\* with an open request is one of them.
FofNow == {p \in People \ (FriendsNow \cup shut) : \E f \in FriendsNow : {p, f} \in Tied}

\* getNetworkStats: the numbers on the dashboard tiles.
StatsOf(requests, friends, fof) ==
  LET Count(d) == Cardinality({p \in DOMAIN requests : requests[p].dir = d})
  IN  [total |-> Count("incoming") + Count("outgoing"), friends |-> Cardinality(friends),
       fof |-> Cardinality(fof), incoming |-> Count("incoming"), pending |-> Count("outgoing")]

ReadNow(part) ==
  CASE part = "friends" -> FriendsNow [] part = "requests" -> RequestsNow
    [] part = "fof" -> FofNow [] part = "blocks" -> BlocksNow
    [] part = "graph" -> [friends |-> FriendsNow, fof |-> FofNow]
    [] part = "stats" -> StatsOf(RequestsNow, FriendsNow, FofNow)

\* What a part is taken to be when its read fails and the error is dropped.
NoRequests == [p \in {} |-> 0]
EmptyPart(part) ==
  CASE part = "requests" -> NoRequests
    [] part = "graph" -> [friends |-> {}, fof |-> {}]
    [] part = "stats" -> StatsOf(NoRequests, {}, {})
    [] OTHER -> {}

\* searchUsers: the relation of a person found, from its four reads.
SearchRow(got, p) ==
  LET Is(relation) == [relation |-> relation, id |-> 0]
      open == p \in DOMAIN got.requests
  IN  CASE p \in got.friends -> Is("direct_friend")
        [] p \notin got.friends /\ open ->
             [relation |-> IF got.requests[p].dir = "incoming" THEN "incoming_request"
                           ELSE "outgoing_request",
              id |-> got.requests[p].id]
        [] OTHER -> IF p \in got.blocks THEN Is("blocked")
                    ELSE IF p \in got.fof THEN Is("friend_of_friend") ELSE Is("none")

RowNow(p) == SearchRow([part \in Parts |-> ReadNow(part)], p)

-------------------------------------------------------------------------------
(* What a client, and the other people, write.                             *)

To(p, relation, id) ==
  /\ link' = [link EXCEPT ![p] = relation]
  /\ ticket' = [ticket EXCEPT ![p] = id]

Asks(p, relation) ==
  /\ link[p] = "none" /\ p \notin shut /\ issued < MaxRequests
  /\ To(p, relation, issued + 1) /\ issued' = issued + 1 /\ UNCHANGED shut

Answers(id, from, relation) ==
  \E p \in People : /\ ticket[p] = id /\ link[p] \in from /\ id # 0
                    /\ To(p, relation, 0) /\ UNCHANGED <<shut, issued>>

Parts_With(p) == To(p, "none", 0) /\ UNCHANGED <<shut, issued>>

\* One call of the user that succeeds.
Accepted(op, p, id) ==
  CASE op = "send" -> Asks(p, "outgoing")
    [] op = "accept" -> Answers(id, {"incoming"}, "friend")
    [] op \in {"decline", "cancel"} -> Answers(id, {"incoming", "outgoing"}, "none")
    [] op = "remove" -> link[p] = "friend" /\ Parts_With(p)
    [] op = "block" -> To(p, "none", 0) /\ shut' = shut \cup {p} /\ UNCHANGED issued
    [] op = "unblock" -> shut' = shut \ {p} /\ UNCHANGED <<link, ticket, issued>>

\* The call raises 403, 404, 409 or 429 and changes nothing.
Refused(op, p, id) ==
  /\ CASE op = "send" -> link[p] # "none" \/ p \in shut \/ issued = MaxRequests
       [] op = "accept" -> \A q \in People : ticket[q] = id => link[q] # "incoming"
       [] op \in {"decline", "cancel"} -> \A q \in People : ticket[q] # id
       [] op = "remove" -> link[p] # "friend"
       [] OTHER -> FALSE
  /\ UNCHANGED server

\* The other person sends, withdraws, accepts, declines or removes.
OtherActs(p) ==
  \/ Asks(p, "incoming")
  \/ ticket[p] # 0 /\ Answers(ticket[p], {"incoming"}, "none")
  \/ ticket[p] # 0 /\ Answers(ticket[p], {"outgoing"}, "friend")
  \/ ticket[p] # 0 /\ Answers(ticket[p], {"outgoing"}, "none")
  \/ link[p] = "friend" /\ Parts_With(p)

ServerTypeOK ==
  /\ link \in [People -> Relations] /\ ticket \in [People -> 0..MaxRequests]
  /\ shut \subseteq People /\ issued \in 0..MaxRequests
===============================================================================
