----------------------------- MODULE NetworkSearch -----------------------------
(***************************************************************************)
(* The reads of the trust graph: search_network, network_graph,            *)
(* get_resource, get_person_cards, the checks of create_request and the    *)
(* row level policies on resources, for one catalogue item.                *)
(*                                                                         *)
(* They are six separate walks over friend_edges. Between the reads the    *)
(* tables change by the calls of TrustGraph and RequestFlow, here a step   *)
(* each. No code sets expiry_at, a status other than active, or a          *)
(* visibility_depth over 2; an owner has one card per item (the unique     *)
(* index resources_owner_item_uniq), so a card is known by its owner.      *)
(***************************************************************************)
EXTENDS Integers, FiniteSets, Constellation

CONSTANTS
  Users,     \* the profiles, numbers standing for their ids in order
  NoUser,    \* no intermediary (null)
  MaxNodes   \* nodes of one network_graph (500 in the code)

ASSUME NetworkAssumption ==
  /\ Users \subseteq Int /\ IsFiniteSet(Users) /\ NoUser \notin Users
  /\ \A S \in (SUBSET Users) \ {{}} : \E x \in S : \A y \in S : x <= y
  /\ MaxNodes \in Nat \ {0}

VARIABLES
  friend_edges,
  user_blocks,
  resources     \* the card of each owner

vars == <<friend_edges, user_blocks, resources>>

Card == [visibility_depth : 0..2, request_enabled : BOOLEAN]
Owners == DOMAIN resources

Blocked(a, b) == <<a, b>> \in user_blocks \/ <<b, a>> \in user_blocks
FriendsOf(u) == {v \in Users : <<u, v>> \in friend_edges}
Mutuals(a, b) == FriendsOf(a) \cap {w \in Users : b \in FriendsOf(w)}

-------------------------------------------------------------------------------
(* The SQL functions, called by me.                                        *)

Least(S) == CHOOSE x \in S : \A y \in S : x <= y
Clamp(p_max_depth) == IF p_max_depth < 2 THEN 1 ELSE 2

\* Mutant: a friend of a friend who is a friend as well is listed again.
d2_AndFriends(me) ==
  {[user |-> v, depth |-> 2, via |-> Least(Mutuals(me, v))] :
     v \in {u \in Users \ {me} : Mutuals(me, u) # {}}}

\* d1 and d2: DISTINCT ON keeps the mutual friend with the least id.
d1(me) == {[user |-> v, depth |-> 1, via |-> NoUser] : v \in FriendsOf(me)}
d2(me) ==
  {[user |-> v, depth |-> 2, via |-> Least(Mutuals(me, v))] :
     v \in {u \in Users \ ({me} \cup FriendsOf(me)) : Mutuals(me, u) # {}}}

reach(me, p_max_depth) == d1(me) \cup IF Clamp(p_max_depth) = 2 THEN d2(me) ELSE {}

search_network(me, p_max_depth) ==
  {[owner |-> r.user, depth |-> r.depth, via |-> r.via,
    requestable |-> resources[r.user].request_enabled, needs_referral |-> r.depth > 1] :
     r \in {x \in reach(me, p_max_depth) :
              /\ x.user \in Owners /\ x.depth <= resources[x.user].visibility_depth
              /\ ~Blocked(me, x.user)}}

\* ORDER BY depth, user_id LIMIT 500.
FirstNodes(all) ==
  {r \in all : Cardinality({q \in all : \/ q.depth < r.depth
                                        \/ q.depth = r.depth /\ q.user < r.user}) < MaxNodes}

network_graph(me, p_max_depth) ==
  LET self == [user |-> me, depth |-> 0, via |-> NoUser]
      all == {r \in {self} \cup reach(me, p_max_depth) : ~Blocked(me, r.user)}
      visible == FirstNodes(all)
      shown == {r.user : r \in visible}
      counted(r) == r.user \in Owners /\ r.depth <= resources[r.user].visibility_depth
  IN  [nodes |-> {[user |-> r.user, depth |-> r.depth, via |-> r.via,
                   card_count |-> IF counted(r) THEN 1 ELSE 0] : r \in visible},
       edges |-> {e \in friend_edges : e[1] < e[2] /\ e[1] \in shown /\ e[2] \in shown},
       truncated |-> visible # all]

\* v_depth of get_resource and get_person_cards.
v_depth(me, owner) ==
  CASE owner = me -> 0
    [] owner # me /\ owner \in FriendsOf(me) -> 1
    [] owner # me /\ owner \notin FriendsOf(me) /\ Mutuals(me, owner) # {} -> 2
    [] OTHER -> 99

\* The card of owner is returned.
get_resource(me, owner) ==
  \/ owner = me
  \/ ~Blocked(me, owner) /\ v_depth(me, owner) <= resources[owner].visibility_depth

\* Mutant: shared with the network means with everyone.
get_person_cards_Anyone(me, owner) ==
  /\ ~Blocked(me, owner)
  /\ \/ v_depth(me, owner) = 0 \/ resources[owner].visibility_depth = 2
     \/ resources[owner].visibility_depth >= v_depth(me, owner)

get_person_cards(me, owner) ==
  /\ ~Blocked(me, owner)
  /\ v_depth(me, owner) = 0 \/ resources[owner].visibility_depth >= v_depth(me, owner)

\* Mutant: visibility is not asked again for a friend of a friend.
create_request_AnyDepth(me, owner) ==
  LET card == resources[owner]
      refused == owner = me \/ ~card.request_enabled \/ card.visibility_depth < 1 \/ Blocked(me, owner)
  IN  CASE refused -> "refused"
        [] ~refused /\ owner \in FriendsOf(me) -> "direct"
        [] ~refused /\ owner \notin FriendsOf(me) /\ Mutuals(me, owner) # {} -> "referred"
        [] OTHER -> "refused"

\* What create_request makes of a request for the card of owner.
create_request(me, owner) ==
  LET card == resources[owner]
      refused == owner = me \/ ~card.request_enabled \/ card.visibility_depth < 1 \/ Blocked(me, owner)
  IN  CASE refused -> "refused"
        [] ~refused /\ owner \in FriendsOf(me) -> "direct"
        [] ~refused /\ owner \notin FriendsOf(me) /\ Mutuals(me, owner) # {}
           /\ card.visibility_depth >= 2 -> "referred"
        [] OTHER -> "refused"

-------------------------------------------------------------------------------
(* The policies on resources. A policy's subquery is itself subject to the *)
(* policies of the tables it reads: me sees the friend_edges that start at *)
(* me and the blocks that me has made.                                     *)

friend_edges_own(me) == {e \in friend_edges : e[1] = me}
blocks_own(me) == {b \in user_blocks : b[1] = me}

resources_owner_all(me, owner) == owner = me

resources_friends_read(me, owner) ==
  resources[owner].visibility_depth >= 1 /\ <<me, owner>> \in friend_edges_own(me)

resources_network_read(me, owner) ==
  /\ resources[owner].visibility_depth >= 2
  /\ \E e1, e2 \in friend_edges_own(me) : e1[1] = me /\ e2[1] = e1[2] /\ e2[2] = owner
  /\ <<me, owner>> \notin blocks_own(me) /\ <<owner, me>> \notin blocks_own(me)

\* SELECT on resources returns the rows that one of the policies admits.
Selects(me, owner) ==
  \/ resources_owner_all(me, owner)
  \/ resources_friends_read(me, owner)
  \/ resources_network_read(me, owner)

-------------------------------------------------------------------------------
(* The calls that change the tables.                                       *)

Befriend(a, b) ==
  /\ a # b /\ ~Blocked(a, b) /\ b \notin FriendsOf(a)
  /\ friend_edges' = friend_edges \cup {<<a, b>>, <<b, a>>}
  /\ UNCHANGED <<user_blocks, resources>>

Unfriend(a, b) ==
  /\ b \in FriendsOf(a)
  /\ friend_edges' = friend_edges \ {<<a, b>>, <<b, a>>}
  /\ UNCHANGED <<user_blocks, resources>>

Block(a, b) ==
  /\ a # b /\ <<a, b>> \notin user_blocks
  /\ user_blocks' = user_blocks \cup {<<a, b>>}
  /\ friend_edges' = friend_edges \ {<<a, b>>, <<b, a>>}
  /\ UNCHANGED resources

Unblock(a, b) ==
  /\ <<a, b>> \in user_blocks
  /\ user_blocks' = user_blocks \ {<<a, b>>}
  /\ UNCHANGED <<friend_edges, resources>>

\* createResource, createCard, updateResource, updateCard.
SetCard(owner, card) ==
  /\ resources' = [u \in Owners \cup {owner} |-> IF u = owner THEN card ELSE resources[u]]
  /\ UNCHANGED <<friend_edges, user_blocks>>

\* Mutant: the card stays, shared to no one.
DeleteCard_Kept(owner) ==
  /\ owner \in Owners
  /\ resources' = [resources EXCEPT ![owner].visibility_depth = -1]
  /\ UNCHANGED <<friend_edges, user_blocks>>

DeleteCard(owner) ==
  /\ owner \in Owners
  /\ resources' = [u \in Owners \ {owner} |-> resources[u]]
  /\ UNCHANGED <<friend_edges, user_blocks>>

Init == friend_edges = {} /\ user_blocks = {} /\ resources = <<>>

Next ==
  \/ \E a, b \in Users : Befriend(a, b) \/ Unfriend(a, b) \/ Block(a, b) \/ Unblock(a, b)
  \/ \E owner \in Users, card \in Card : SetCard(owner, card)
  \/ \E owner \in Users : DeleteCard(owner)

Spec == Init /\ [][Next]_vars

-------------------------------------------------------------------------------
(* Properties.                                                             *)

\* The tables hold values of their types.
TypeOK ==
  /\ friend_edges \subseteq Users \X Users /\ user_blocks \subseteq Users \X Users
  /\ Owners \subseteq Users /\ resources \in [Owners -> Card]

\* There is a walk of at most n friendships from a to b.
Walk(a, b, n) ==
  \E p \in [0..n -> Users] :
     /\ p[0] = a /\ p[n] = b
     /\ \A i \in 0..(n - 1) : p[i] = p[i + 1] \/ <<p[i], p[i + 1]>> \in friend_edges

\* search_network finds a card exactly if its owner is within the depth asked
\* for and within the depth it is shared to, no block in either direction; each
\* owner once, at the least depth, through a friend of both.
SearchIsReach ==
  \A me \in Users, p_max_depth \in 0..3 :
    LET found == search_network(me, p_max_depth) IN
    /\ \A owner \in Users \ {me} :
         (\E m \in found : m.owner = owner) <=>
           /\ owner \in Owners /\ ~Blocked(me, owner)
           /\ \/ Walk(me, owner, 1) /\ resources[owner].visibility_depth >= 1
              \/ Walk(me, owner, 2) /\ p_max_depth >= 2 /\ resources[owner].visibility_depth = 2
    /\ \A m \in found :
         /\ m.owner # me /\ m.depth = (IF Walk(me, m.owner, 1) THEN 1 ELSE 2)
         /\ m.depth = 2 => Walk(me, m.via, 1) /\ Walk(m.via, m.owner, 1)
         /\ \A n \in found : m.owner = n.owner => m = n

\* A card is found by a search to depth 2 exactly if it can be opened, is listed
\* among its owner's cards and is counted in a graph that is not cut off; what a
\* plain SELECT returns of other people's cards is found as well.
ViewsAgree ==
  \A me \in Users : \A owner \in Owners \ {me} :
    LET found == \E m \in search_network(me, 2) : m.owner = owner
        graph == network_graph(me, 2)
    IN  /\ found <=> get_resource(me, owner)
        /\ found <=> get_person_cards(me, owner)
        /\ Selects(me, owner) => found
        /\ ~graph.truncated => (found <=> \E n \in graph.nodes : n.user = owner /\ n.card_count = 1)

\* create_request accepts exactly what the search calls requestable, and asks a
\* mutual friend exactly where the search says that a referral is needed.
RequestsAgree ==
  \A me \in Users, owner \in Owners :
    LET found == {m \in search_network(me, 2) : m.owner = owner /\ m.requestable}
    IN  /\ create_request(me, owner) = "direct" <=> \E m \in found : ~m.needs_referral
        /\ create_request(me, owner) = "referred" <=> \E m \in found : m.needs_referral

\* The lines NetworkGraph draws are exactly the edges of the graph it is given,
\* cut off or not: what it adds for nodes that seem to hang loose is there.
DrawnAsRead ==
  \A me, first \in Users, p_max_depth \in {1, 2} :
    LET graph == network_graph(me, p_max_depth)
        friends == {n \in graph.nodes : n.depth > 0}
    IN  Links(me, friends, graph.edges, first) = {{e[1], e[2]} : e \in graph.edges}
===============================================================================
