------------------------- MODULE NetworkSearch_proofs -------------------------
(***************************************************************************)
(* Theorems about NetworkSearch, for any users, blocks and cards.          *)
(***************************************************************************)
EXTENDS NetworkSearch, FiniteSetTheorems, TLAPS

-------------------------------------------------------------------------------
(* The trust graph the reads rely on.                                      *)

\* Friendships are mutual and between two users, blocked users are no friends,
\* and nobody blocks themselves.
GraphInv ==
  /\ TypeOK
  /\ \A e \in friend_edges : e[1] # e[2] /\ <<e[2], e[1]>> \in friend_edges
  /\ \A e \in friend_edges : ~Blocked(e[1], e[2])
  /\ \A u \in Users : ~Blocked(u, u)

LEMMA Invariance == Spec => []GraphInv
<1>1. Init => GraphInv
  BY DEF Init, GraphInv, TypeOK, Owners, Blocked
<1>2. ASSUME GraphInv, [Next]_vars
      PROVE  GraphInv'
  <2>1. ASSUME NEW a \in Users, NEW b \in Users, Befriend(a, b)
        PROVE  GraphInv'
    BY <1>2, <2>1 DEF Befriend, GraphInv, TypeOK, Owners, Blocked
  <2>2. ASSUME NEW a \in Users, NEW b \in Users, Unfriend(a, b)
        PROVE  GraphInv'
    BY <1>2, <2>2 DEF Unfriend, GraphInv, TypeOK, Owners, Blocked
  <2>3. ASSUME NEW a \in Users, NEW b \in Users, Block(a, b)
        PROVE  GraphInv'
    BY <1>2, <2>3 DEF Block, GraphInv, TypeOK, Owners, Blocked
  <2>4. ASSUME NEW a \in Users, NEW b \in Users, Unblock(a, b)
        PROVE  GraphInv'
    BY <1>2, <2>4 DEF Unblock, GraphInv, TypeOK, Owners, Blocked
  <2>5. ASSUME NEW owner \in Users, NEW card \in Card, SetCard(owner, card)
        PROVE  GraphInv'
    BY <1>2, <2>5 DEF SetCard, GraphInv, TypeOK, Owners, Blocked
  <2>6. ASSUME NEW owner \in Users, DeleteCard(owner)
        PROVE  GraphInv'
    BY <1>2, <2>6 DEF DeleteCard, GraphInv, TypeOK, Owners, Blocked
  <2>7. ASSUME UNCHANGED vars
        PROVE  GraphInv'
    BY <1>2, <2>7 DEF vars, GraphInv, TypeOK, Owners, Blocked
  <2> QED
    BY <1>2, <2>1, <2>2, <2>3, <2>4, <2>5, <2>6, <2>7 DEF Next
<1> QED
  BY <1>1, <1>2, PTL DEF Spec

\* The tables hold values of their types.
THEOREM TypeCorrect == Spec => []TypeOK
<1>1. GraphInv => TypeOK
  BY DEF GraphInv
<1> QED
  BY <1>1, Invariance, PTL

-------------------------------------------------------------------------------
(* What a search finds.                                                    *)

\* The rows of reach are the friends and the friends of friends, each once.
LEMMA ReachRows ==
  ASSUME GraphInv, NEW me \in Users, NEW max \in Int, NEW r
  PROVE  r \in reach(me, max) <=>
           \/ \E v \in FriendsOf(me) : r = [user |-> v, depth |-> 1, via |-> NoUser]
           \/ /\ max >= 2
              /\ \E v \in Users \ ({me} \cup FriendsOf(me)) :
                   Mutuals(me, v) # {} /\ r = [user |-> v, depth |-> 2, via |-> Least(Mutuals(me, v))]
BY DEF reach, d1, d2, Clamp

\* The mutual friend shown is one.
LEMMA LeastMutual ==
  ASSUME GraphInv, NEW a \in Users, NEW b \in Users, Mutuals(a, b) # {}
  PROVE  Least(Mutuals(a, b)) \in Mutuals(a, b)
<1>1. Mutuals(a, b) \in (SUBSET Users) \ {{}}
  BY DEF Mutuals
<1>2. \E x \in Mutuals(a, b) : \A y \in Mutuals(a, b) : x <= y
  BY <1>1, NetworkAssumption
<1> QED
  BY <1>2 DEF Least

\* The rows of a search, without the joins.
LEMMA FoundRows ==
  ASSUME GraphInv, NEW me \in Users, NEW max \in Int, NEW m
  PROVE  m \in search_network(me, max) <=>
           \E owner \in Owners :
             /\ ~Blocked(me, owner)
             /\ \/ /\ owner \in FriendsOf(me) /\ resources[owner].visibility_depth >= 1
                   /\ m = [owner |-> owner, depth |-> 1, via |-> NoUser,
                           requestable |-> resources[owner].request_enabled, needs_referral |-> FALSE]
                \/ /\ max >= 2 /\ owner # me /\ owner \notin FriendsOf(me) /\ Mutuals(me, owner) # {}
                   /\ resources[owner].visibility_depth >= 2
                   /\ m = [owner |-> owner, depth |-> 2, via |-> Least(Mutuals(me, owner)),
                           requestable |-> resources[owner].request_enabled, needs_referral |-> TRUE]
<1> DEFINE shown(r) == /\ r.user \in Owners /\ r.depth <= resources[r.user].visibility_depth
                       /\ ~Blocked(me, r.user)
           row(r) == [owner |-> r.user, depth |-> r.depth, via |-> r.via,
                      requestable |-> resources[r.user].request_enabled, needs_referral |-> r.depth > 1]
           friend(v) == [user |-> v, depth |-> 1, via |-> NoUser]
           fof(v) == [user |-> v, depth |-> 2, via |-> Least(Mutuals(me, v))]
<1>1. m \in search_network(me, max) <=> \E r \in reach(me, max) : shown(r) /\ m = row(r)
  BY DEF search_network
<1>2. \A r : r \in reach(me, max) <=>
           \/ \E v \in FriendsOf(me) : r = friend(v)
           \/ /\ max >= 2
              /\ \E v \in Users \ ({me} \cup FriendsOf(me)) : Mutuals(me, v) # {} /\ r = fof(v)
  BY ReachRows
<1>3. (\E r \in reach(me, max) : shown(r) /\ m = row(r)) <=>
        \/ \E v \in FriendsOf(me) : shown(friend(v)) /\ m = row(friend(v))
        \/ /\ max >= 2
           /\ \E v \in Users \ ({me} \cup FriendsOf(me)) :
                Mutuals(me, v) # {} /\ shown(fof(v)) /\ m = row(fof(v))
  <2> HIDE DEF shown, row, friend, fof
  <2> QED
    BY <1>2
<1>4. Owners \subseteq Users /\ \A o \in Owners : resources[o] \in Card
  BY DEF GraphInv, TypeOK
<1>5. \A v \in Owners : /\ shown(friend(v)) <=> resources[v].visibility_depth >= 1 /\ ~Blocked(me, v)
                        /\ shown(fof(v)) <=> resources[v].visibility_depth >= 2 /\ ~Blocked(me, v)
  BY <1>4 DEF Card
<1>6. \A v : /\ shown(friend(v)) => v \in Owners
             /\ shown(fof(v)) => v \in Owners
  OBVIOUS
<1>7. \A v : /\ row(friend(v)) = [owner |-> v, depth |-> 1, via |-> NoUser,
                                  requestable |-> resources[v].request_enabled, needs_referral |-> FALSE]
             /\ row(fof(v)) = [owner |-> v, depth |-> 2, via |-> Least(Mutuals(me, v)),
                               requestable |-> resources[v].request_enabled, needs_referral |-> TRUE]
  <2>1. (1 > 1) = FALSE /\ (2 > 1) = TRUE
    BY SMT
  <2> QED
    BY <2>1, Zenon
<1> HIDE DEF shown, row, friend, fof
<1> QED
  BY <1>1, <1>3, <1>4, <1>5, <1>6, <1>7

\* An owner is found exactly if not blocked and at a depth the card is shared to.
LEMMA Found ==
  ASSUME GraphInv, NEW me \in Users, NEW max \in Int, NEW owner \in Users \ {me}
  PROVE  (\E m \in search_network(me, max) : m.owner = owner) <=>
           /\ owner \in Owners /\ ~Blocked(me, owner)
           /\ \/ owner \in FriendsOf(me) /\ resources[owner].visibility_depth >= 1
              \/ /\ max >= 2 /\ owner \notin FriendsOf(me) /\ Mutuals(me, owner) # {}
                 /\ resources[owner].visibility_depth >= 2
<1> DEFINE near == owner \in FriendsOf(me) /\ resources[owner].visibility_depth >= 1
           far == /\ max >= 2 /\ owner \notin FriendsOf(me) /\ Mutuals(me, owner) # {}
                  /\ resources[owner].visibility_depth >= 2
           card(d, via, far_away) ==
             [owner |-> owner, depth |-> d, via |-> via,
              requestable |-> resources[owner].request_enabled, needs_referral |-> far_away]
<1>1. ASSUME NEW m \in search_network(me, max), m.owner = owner
      PROVE  owner \in Owners /\ ~Blocked(me, owner) /\ (near \/ far)
  BY <1>1, FoundRows
<1>2. ASSUME owner \in Owners, ~Blocked(me, owner), near
      PROVE  card(1, NoUser, FALSE) \in search_network(me, max)
  BY <1>2, FoundRows
<1>3. ASSUME owner \in Owners, ~Blocked(me, owner), far
      PROVE  card(2, Least(Mutuals(me, owner)), TRUE) \in search_network(me, max)
  BY <1>3, FoundRows
<1>4. \A d, via, far_away : card(d, via, far_away).owner = owner
  OBVIOUS
<1> HIDE DEF card
<1> QED
  BY <1>1, <1>2, <1>3, <1>4

\* A walk of one or two friendships, by the tables.
LEMMA Walks ==
  ASSUME GraphInv, NEW a \in Users, NEW b \in Users \ {a}
  PROVE  /\ Walk(a, b, 1) <=> b \in FriendsOf(a)
         /\ Walk(a, b, 2) <=> b \in FriendsOf(a) \/ Mutuals(a, b) # {}
<1>1. ASSUME Walk(a, b, 1)
      PROVE  b \in FriendsOf(a)
  <2>1. PICK p \in [0..1 -> Users] : p[0] = a /\ p[1] = b /\ (p[0] = p[0 + 1] \/ <<p[0], p[0 + 1]>> \in friend_edges)
    BY <1>1 DEF Walk
  <2> QED
    BY <2>1 DEF FriendsOf
<1>2. ASSUME b \in FriendsOf(a)
      PROVE  Walk(a, b, 1)
  <2> DEFINE p == [i \in 0..1 |-> IF i = 0 THEN a ELSE b]
  <2>1. p \in [0..1 -> Users] /\ p[0] = a /\ p[1] = b /\ <<p[0], p[0 + 1]>> \in friend_edges
    BY <1>2 DEF FriendsOf
  <2>2. 0..(1 - 1) = {0}
    OBVIOUS
  <2> HIDE DEF p
  <2> QED
    BY <2>1, <2>2 DEF Walk
<1>3. ASSUME Walk(a, b, 2)
      PROVE  b \in FriendsOf(a) \/ Mutuals(a, b) # {}
  <2>1. PICK p \in [0..2 -> Users] :
          /\ p[0] = a /\ p[2] = b
          /\ \A i \in 0..(2 - 1) : p[i] = p[i + 1] \/ <<p[i], p[i + 1]>> \in friend_edges
    BY <1>3 DEF Walk
  <2>2. /\ p[1] \in Users
        /\ p[0] = p[1] \/ <<p[0], p[1]>> \in friend_edges
        /\ p[1] = p[2] \/ <<p[1], p[2]>> \in friend_edges
    BY <2>1
  <2> QED
    BY <2>1, <2>2 DEF FriendsOf, Mutuals
<1>4. ASSUME NEW w \in Users, w = a \/ w \in FriendsOf(a), b \in FriendsOf(w)
      PROVE  Walk(a, b, 2)
  <2> DEFINE p == [i \in 0..2 |-> IF i = 0 THEN a ELSE IF i = 1 THEN w ELSE b]
  <2>1. p \in [0..2 -> Users] /\ p[0] = a /\ p[1] = w /\ p[2] = b
    OBVIOUS
  <2>2. 0..(2 - 1) = {0, 1}
    OBVIOUS
  <2>3. \A i \in 0..(2 - 1) : p[i] = p[i + 1] \/ <<p[i], p[i + 1]>> \in friend_edges
    BY <1>4, <2>1, <2>2 DEF FriendsOf
  <2> HIDE DEF p
  <2> QED
    BY <2>1, <2>3 DEF Walk
<1> QED
  BY <1>1, <1>2, <1>3, <1>4 DEF Mutuals

\* A search finds the cards within reach, each owner once, at the least depth,
\* through a friend of both.
THEOREM SearchReaches == Spec => []SearchIsReach
<1>1. ASSUME GraphInv, NEW me \in Users, NEW max \in 0..3
      PROVE  /\ \A owner \in Users \ {me} :
                  (\E m \in search_network(me, max) : m.owner = owner) <=>
                    /\ owner \in Owners /\ ~Blocked(me, owner)
                    /\ \/ Walk(me, owner, 1) /\ resources[owner].visibility_depth >= 1
                       \/ Walk(me, owner, 2) /\ max >= 2 /\ resources[owner].visibility_depth = 2
             /\ \A m \in search_network(me, max) :
                  /\ m.owner # me /\ m.depth = (IF Walk(me, m.owner, 1) THEN 1 ELSE 2)
                  /\ m.depth = 2 => Walk(me, m.via, 1) /\ Walk(m.via, m.owner, 1)
                  /\ \A n \in search_network(me, max) : m.owner = n.owner => m = n
  <2>1. \A o \in Owners : o \in Users /\ resources[o].visibility_depth \in 0..2
    BY <1>1 DEF GraphInv, TypeOK, Card
  <2>2. \A a, b \in Users : b \in FriendsOf(a) => a # b
    BY <1>1 DEF GraphInv, FriendsOf
  <2>3. \A o \in Users \ {me} :
           (\E m \in search_network(me, max) : m.owner = o) <=>
             /\ o \in Owners /\ ~Blocked(me, o)
             /\ \/ o \in FriendsOf(me) /\ resources[o].visibility_depth >= 1
                \/ /\ max >= 2 /\ o \notin FriendsOf(me) /\ Mutuals(me, o) # {}
                   /\ resources[o].visibility_depth >= 2
    BY <1>1, Found
  <2>4. \A o \in Users \ {me} :
          /\ Walk(me, o, 1) <=> o \in FriendsOf(me)
          /\ Walk(me, o, 2) <=> o \in FriendsOf(me) \/ Mutuals(me, o) # {}
    BY <1>1, Walks
  <2>5. \A owner \in Users \ {me} :
          (\E m \in search_network(me, max) : m.owner = owner) <=>
            /\ owner \in Owners /\ ~Blocked(me, owner)
            /\ \/ Walk(me, owner, 1) /\ resources[owner].visibility_depth >= 1
               \/ Walk(me, owner, 2) /\ max >= 2 /\ resources[owner].visibility_depth = 2
    BY <2>1, <2>3, <2>4
  <2>6. ASSUME NEW m \in search_network(me, max)
        PROVE  /\ m.owner \in Users \ {me} /\ m.depth = (IF m.owner \in FriendsOf(me) THEN 1 ELSE 2)
               /\ m.depth = 2 => Mutuals(me, m.owner) # {} /\ m.via = Least(Mutuals(me, m.owner))
               /\ m = [owner |-> m.owner, depth |-> m.depth,
                       via |-> IF m.depth = 1 THEN NoUser ELSE Least(Mutuals(me, m.owner)),
                       requestable |-> resources[m.owner].request_enabled,
                       needs_referral |-> IF m.depth = 1 THEN FALSE ELSE TRUE]
    BY <1>1, <2>1, <2>2, <2>6, FoundRows
  <2>7. ASSUME NEW m \in search_network(me, max), m.depth = 2
        PROVE  Walk(me, m.via, 1) /\ Walk(m.via, m.owner, 1)
    <3>1. m.via \in Mutuals(me, m.owner)
      BY <1>1, <2>6, <2>7, LeastMutual
    <3>2. m.via \in Users \ {me, m.owner} /\ m.via \in FriendsOf(me) /\ m.owner \in FriendsOf(m.via)
      BY <2>2, <2>6, <3>1 DEF Mutuals, FriendsOf
    <3> QED
      BY <1>1, <2>6, <3>2, Walks
  <2>8. ASSUME NEW m \in search_network(me, max), NEW n \in search_network(me, max), m.owner = n.owner
        PROVE  m = n
    BY <2>6, <2>8
  <2> QED
    BY <2>4, <2>5, <2>6, <2>7, <2>8
<1>2. GraphInv => SearchIsReach
  BY <1>1 DEF SearchIsReach
<1> QED
  BY <1>2, Invariance, PTL

\* The depth that the functions opening a card work out for another person's card.
LEMMA DepthOf ==
  ASSUME NEW me \in Users, NEW owner \in Users \ {me}
  PROVE  v_depth(me, owner) = IF owner \in FriendsOf(me) THEN 1
                              ELSE IF Mutuals(me, owner) # {} THEN 2 ELSE 99
BY DEF v_depth

\* A card is found by a search exactly if it can be opened, is listed among its
\* owner's and is counted in the graph, and if a plain SELECT returns it.
THEOREM ViewsConcur == Spec => []ViewsAgree
<1>1. ASSUME GraphInv, NEW me \in Users, NEW owner \in Owners \ {me}
      PROVE  LET found == \E m \in search_network(me, 2) : m.owner = owner
                 graph == network_graph(me, 2)
             IN  /\ found <=> get_resource(me, owner)
                 /\ found <=> get_person_cards(me, owner)
                 /\ Selects(me, owner) => found
                 /\ ~graph.truncated => (found <=> \E n \in graph.nodes : n.user = owner /\ n.card_count = 1)
  <2> DEFINE found == \E m \in search_network(me, 2) : m.owner = owner
             near == owner \in FriendsOf(me)
             far == ~near /\ Mutuals(me, owner) # {}
             depth == resources[owner].visibility_depth
  <2>1. owner \in Users \ {me} /\ depth \in 0..2
    BY <1>1 DEF GraphInv, TypeOK, Card
  <2>2. found <=> ~Blocked(me, owner) /\ ((near /\ depth >= 1) \/ (far /\ depth >= 2))
    BY <1>1, <2>1, Found
  <2>3. v_depth(me, owner) = IF near THEN 1 ELSE IF far THEN 2 ELSE 99
    BY <2>1, DepthOf
  <2>4. found <=> get_resource(me, owner)
    BY <1>1, <2>1, <2>2, <2>3 DEF get_resource
  <2>5. found <=> get_person_cards(me, owner)
    BY <1>1, <2>1, <2>2, <2>3 DEF get_person_cards
  <2>6. Selects(me, owner) => found
    <3>1. resources_owner_all(me, owner) = FALSE
      BY <1>1 DEF resources_owner_all
    <3>2. resources_friends_read(me, owner) => near /\ depth >= 1 /\ ~Blocked(me, owner)
      BY <1>1, <2>1 DEF resources_friends_read, friend_edges_own, FriendsOf, GraphInv
    <3>3. ~resources_network_read(me, owner)
      BY <1>1 DEF resources_network_read, friend_edges_own, GraphInv
    <3> QED
      BY <2>2, <3>1, <3>2, <3>3 DEF Selects
  <2>7. ASSUME ~network_graph(me, 2).truncated
        PROVE  found <=> \E n \in network_graph(me, 2).nodes : n.user = owner /\ n.card_count = 1
    <3> DEFINE self == [user |-> me, depth |-> 0, via |-> NoUser]
               all == {r \in {self} \cup reach(me, 2) : ~Blocked(me, r.user)}
               counted(r) == r.user \in Owners /\ r.depth <= resources[r.user].visibility_depth
               node(r) == [user |-> r.user, depth |-> r.depth, via |-> r.via,
                           card_count |-> IF counted(r) THEN 1 ELSE 0]
    <3>1. FirstNodes(all) = all
      BY <2>7 DEF network_graph
    <3>2. network_graph(me, 2).nodes = {node(r) : r \in all}
      BY <3>1 DEF network_graph
    <3>3. \A r : node(r).user = r.user /\ (node(r).card_count = 1 <=> counted(r))
      OBVIOUS
    <3>4. (\E n \in network_graph(me, 2).nodes : n.user = owner /\ n.card_count = 1)
            <=> \E r \in all : r.user = owner /\ counted(r)
      <4> HIDE DEF node, counted, all
      <4> QED
        BY <3>2, <3>3
    <3>5. (\E r \in all : r.user = owner /\ counted(r))
            <=> ~Blocked(me, owner) /\ \E r \in reach(me, 2) : r.user = owner /\ r.depth <= depth
      BY <1>1, <2>1
    <3>6. (\E r \in reach(me, 2) : r.user = owner /\ r.depth <= depth)
            <=> (near /\ 1 <= depth) \/ (far /\ 2 <= depth)
      <4>1. ASSUME NEW r \in reach(me, 2), r.user = owner
            PROVE  \/ near /\ r.depth = 1
                   \/ far /\ r.depth = 2
        BY <1>1, <2>1, <4>1, ReachRows
      <4>2. near => [user |-> owner, depth |-> 1, via |-> NoUser] \in reach(me, 2)
        BY <1>1, <2>1, ReachRows
      <4>3. far => [user |-> owner, depth |-> 2, via |-> Least(Mutuals(me, owner))] \in reach(me, 2)
        BY <1>1, <2>1, ReachRows
      <4> QED
        BY <4>1, <4>2, <4>3
    <3> QED
      BY <2>1, <2>2, <3>4, <3>5, <3>6
  <2> QED
    BY <2>4, <2>5, <2>6, <2>7
<1>2. GraphInv => ViewsAgree
  BY <1>1 DEF ViewsAgree
<1> QED
  BY <1>2, Invariance, PTL

\* create_request accepts exactly what the search calls requestable, and asks a
\* mutual friend exactly where the search says that a referral is needed.
THEOREM RequestsConcur == Spec => []RequestsAgree
<1>1. ASSUME GraphInv, NEW me \in Users, NEW owner \in Owners
      PROVE  LET found == {m \in search_network(me, 2) : m.owner = owner /\ m.requestable}
             IN  /\ create_request(me, owner) = "direct" <=> \E m \in found : ~m.needs_referral
                 /\ create_request(me, owner) = "referred" <=> \E m \in found : m.needs_referral
  <2> DEFINE depth == resources[owner].visibility_depth
             near == owner \in FriendsOf(me) /\ depth >= 1
             far == /\ owner # me /\ owner \notin FriendsOf(me) /\ Mutuals(me, owner) # {} /\ depth >= 2
             card(d, via, referral) ==
               [owner |-> owner, depth |-> d, via |-> via,
                requestable |-> resources[owner].request_enabled, needs_referral |-> referral]
  <2>1. owner \in Users /\ depth \in 0..2 /\ resources[owner].request_enabled \in BOOLEAN
    BY <1>1 DEF GraphInv, TypeOK, Card
  <2>2. me \notin FriendsOf(me)
    BY <1>1 DEF GraphInv, FriendsOf
  <2>3. \A m : m \in search_network(me, 2) /\ m.owner = owner <=>
          /\ ~Blocked(me, owner)
          /\ \/ near /\ m = card(1, NoUser, FALSE)
             \/ far /\ m = card(2, Least(Mutuals(me, owner)), TRUE)
    BY <1>1, <2>1, FoundRows
  <2>4. \A d, via, referral : card(d, via, referral).requestable = resources[owner].request_enabled
                              /\ card(d, via, referral).needs_referral = referral
    OBVIOUS
  <2>5. create_request(me, owner) = "direct" <=>
          resources[owner].request_enabled /\ ~Blocked(me, owner) /\ near
    BY <2>1, <2>2 DEF create_request
  <2>6. create_request(me, owner) = "referred" <=>
          resources[owner].request_enabled /\ ~Blocked(me, owner) /\ far
    BY <2>1, <2>2 DEF create_request
  <2>7. ASSUME NEW m \in search_network(me, 2), m.owner = owner
        PROVE  /\ ~Blocked(me, owner) /\ (m.requestable <=> resources[owner].request_enabled)
               /\ \/ near /\ ~m.needs_referral
                  \/ far /\ m.needs_referral
    <3>1. ~Blocked(me, owner)
      BY <2>3, <2>7
    <3>2. CASE near /\ m = card(1, NoUser, FALSE)
      <4>1. m.needs_referral = FALSE /\ m.requestable = resources[owner].request_enabled
        BY <2>4, <3>2
      <4> QED
        BY <3>1, <3>2, <4>1, Zenon
    <3>3. CASE far /\ m = card(2, Least(Mutuals(me, owner)), TRUE)
      <4>1. m.needs_referral = TRUE /\ m.requestable = resources[owner].request_enabled
        BY <2>4, <3>3
      <4> QED
        BY <3>1, <3>3, <4>1, Zenon
    <3> QED
      BY <2>3, <2>7, <3>2, <3>3
  <2>8. ASSUME ~Blocked(me, owner), near
        PROVE  \E m \in search_network(me, 2) :
                 /\ m.owner = owner /\ ~m.needs_referral
                 /\ m.requestable <=> resources[owner].request_enabled
    <3>1. card(1, NoUser, FALSE) \in search_network(me, 2) /\ card(1, NoUser, FALSE).owner = owner
      BY <2>3, <2>8
    <3> QED
      BY <2>4, <3>1, Zenon
  <2>9. ASSUME ~Blocked(me, owner), far
        PROVE  \E m \in search_network(me, 2) :
                 /\ m.owner = owner /\ m.needs_referral
                 /\ m.requestable <=> resources[owner].request_enabled
    <3> DEFINE row == card(2, Least(Mutuals(me, owner)), TRUE)
    <3>1. row \in search_network(me, 2) /\ row.owner = owner
      BY <2>3, <2>9
    <3> QED
      BY <2>4, <3>1, Zenon
  <2> QED
    BY <2>1, <2>5, <2>6, <2>7, <2>8, <2>9
<1>2. GraphInv => RequestsAgree
  BY <1>1 DEF RequestsAgree
<1> QED
  BY <1>2, Invariance, PTL


-------------------------------------------------------------------------------
(* What the drawing adds.                                                  *)

Self(me) == [user |-> me, depth |-> 0, via |-> NoUser]
All(me, max) == {r \in {Self(me)} \cup reach(me, max) : ~Blocked(me, r.user)}
Before(r, all) == {q \in all : q.depth < r.depth \/ (q.depth = r.depth /\ q.user < r.user)}

\* The rows of a graph before it is cut off: the user, the friends, and friends
\* of friends, each once.
LEMMA AllRows ==
  ASSUME GraphInv, NEW me \in Users, NEW max \in {1, 2}, NEW r \in All(me, max)
  PROVE  /\ r.user \in Users /\ r.depth \in Nat
         /\ \/ r = Self(me) /\ r.user = me /\ r.depth = 0
            \/ r = [user |-> r.user, depth |-> 1, via |-> NoUser] /\ r.user \in FriendsOf(me) \ {me} /\ r.depth = 1
            \/ /\ r = [user |-> r.user, depth |-> 2, via |-> Least(Mutuals(me, r.user))] /\ r.depth = 2
               /\ r.user \notin {me} \cup FriendsOf(me) /\ Mutuals(me, r.user) # {}
               /\ r.via = Least(Mutuals(me, r.user))
<1>1. r = Self(me) \/ r \in reach(me, max)
  BY DEF All
<1>2. CASE r = Self(me)
  BY <1>2 DEF Self
<1>3. CASE \E v \in FriendsOf(me) : r = [user |-> v, depth |-> 1, via |-> NoUser]
  <2>1. PICK v \in FriendsOf(me) : r = [user |-> v, depth |-> 1, via |-> NoUser]
    BY <1>3
  <2>2. v \in Users /\ v # me
    BY DEF FriendsOf, GraphInv
  <2> QED
    BY <2>1, <2>2
<1>4. CASE \E v \in Users \ ({me} \cup FriendsOf(me)) :
             Mutuals(me, v) # {} /\ r = [user |-> v, depth |-> 2, via |-> Least(Mutuals(me, v))]
  BY <1>4
<1> QED
  BY <1>1, <1>2, <1>3, <1>4, ReachRows

LEMMA AllFinite ==
  ASSUME GraphInv, NEW me \in Users, NEW max \in {1, 2}
  PROVE  IsFiniteSet(All(me, max))
<1>1. \A r, q \in All(me, max) : r.user \in Users /\ (r.user = q.user => r = q)
  BY AllRows
<1>2. PICK f : f = [r \in All(me, max) |-> r.user]
  OBVIOUS
<1>3. f \in Injection(All(me, max), Users)
  BY <1>1, <1>2 DEF Injection, IsInjective
<1> QED
  BY <1>3, FS_Injection, NetworkAssumption

\* A node that is drawn has all those before it drawn, and the user's own is.
LEMMA FirstKept ==
  ASSUME GraphInv, NEW me \in Users, NEW max \in {1, 2}
  PROVE  /\ \A r \in FirstNodes(All(me, max)), q \in All(me, max) : q.depth < r.depth => q \in FirstNodes(All(me, max))
         /\ Self(me) \in FirstNodes(All(me, max))
<1> DEFINE all == All(me, max)
<1>1. \A r : r \in FirstNodes(all) <=> r \in all /\ Cardinality(Before(r, all)) < MaxNodes
  BY DEF FirstNodes, Before
<1>2. MaxNodes \in Nat \ {0}
  BY NetworkAssumption
<1>3. \A r \in all : r.depth \in Nat /\ r.user \in Int
  BY AllRows, NetworkAssumption
<1>4. ASSUME NEW r \in FirstNodes(all), NEW q \in all, q.depth < r.depth
      PROVE  q \in FirstNodes(all)
  <2>1. r \in all
    BY <1>1
  <2>2. Before(q, all) \subseteq Before(r, all)
    BY <1>3, <1>4, <2>1 DEF Before
  <2>3. IsFiniteSet(Before(r, all))
    BY AllFinite, FS_Subset DEF Before
  <2>4. /\ Cardinality(Before(q, all)) \in Nat /\ Cardinality(Before(r, all)) \in Nat
        /\ Cardinality(Before(q, all)) <= Cardinality(Before(r, all))
    BY <2>2, <2>3, FS_Subset, FS_CardinalityType
  <2> QED
    BY <1>1, <1>2, <1>4, <2>4
<1>5. Self(me) \in FirstNodes(all)
  <2>1. Self(me) \in all /\ Self(me).depth = 0 /\ Self(me).user = me
    BY DEF All, Self, GraphInv
  <2>2. \A q \in all : q.depth = 0 => q.user = me
    BY AllRows
  <2>3. Before(Self(me), all) = {}
    BY <1>3, <2>1, <2>2, NetworkAssumption DEF Before
  <2> QED
    BY <1>1, <1>2, <2>1, <2>3, FS_EmptySet
<1> QED
  BY <1>4, <1>5

\* The nodes and the edges of a graph, by its rows.
LEMMA GraphOf ==
  ASSUME NEW me, NEW max
  PROVE  LET rows == FirstNodes(All(me, max))
             graph == network_graph(me, max)
         IN  /\ \A n \in graph.nodes : \E r \in rows : n.user = r.user /\ n.depth = r.depth /\ n.via = r.via
             /\ \A r \in rows : \E n \in graph.nodes : n.user = r.user /\ n.depth = r.depth /\ n.via = r.via
             /\ graph.edges = {e \in friend_edges : e[1] < e[2] /\ (\E r \in rows : r.user = e[1]) /\ \E r \in rows : r.user = e[2]}
<1> DEFINE rows == FirstNodes(All(me, max))
           counted(r) == r.user \in Owners /\ r.depth <= resources[r.user].visibility_depth
           node(r) == [user |-> r.user, depth |-> r.depth, via |-> r.via, card_count |-> IF counted(r) THEN 1 ELSE 0]
           ids == {r.user : r \in rows}
<1>1. /\ network_graph(me, max).nodes = {node(r) : r \in rows}
      /\ network_graph(me, max).edges = {e \in friend_edges : e[1] < e[2] /\ e[1] \in ids /\ e[2] \in ids}
  BY DEF network_graph, All, Self
<1>2. \A r : node(r).user = r.user /\ node(r).depth = r.depth /\ node(r).via = r.via
  OBVIOUS
<1> HIDE DEF node, rows
<1>3. \A n \in network_graph(me, max).nodes : \E r \in rows : n.user = r.user /\ n.depth = r.depth /\ n.via = r.via
  BY <1>1, <1>2
<1>4. \A r \in rows : \E n \in network_graph(me, max).nodes : n.user = r.user /\ n.depth = r.depth /\ n.via = r.via
  BY <1>1, <1>2
<1>5. network_graph(me, max).edges =
        {e \in friend_edges : e[1] < e[2] /\ (\E r \in rows : r.user = e[1]) /\ \E r \in rows : r.user = e[2]}
  BY <1>1
<1> QED
  BY <1>3, <1>4, <1>5 DEF rows

\* Whatever the graph is, and wherever the 500 nodes cut it off, the drawing adds
\* no line to its edges (links and the parent of a node in NetworkGraph).
THEOREM DrawsEdges == Spec => []DrawnAsRead
<1>1. ASSUME GraphInv, NEW me \in Users, NEW first \in Users, NEW max \in {1, 2}
      PROVE  LET graph == network_graph(me, max)
                 friends == {n \in graph.nodes : n.depth > 0}
             IN  Links(me, friends, graph.edges, first) = {{e[1], e[2]} : e \in graph.edges}
  <2> DEFINE graph == network_graph(me, max)
             rows == FirstNodes(All(me, max))
             friends == {n \in graph.nodes : n.depth > 0}
             ids == {me} \cup {n.user : n \in friends}
             lines == {{e[1], e[2]} : e \in graph.edges}
  <2>1. rows \subseteq All(me, max) /\ \A r \in rows : r.user \in Users /\ r.depth \in Nat
    BY <1>1, AllRows DEF FirstNodes
  <2>2. \A u : u \in ids <=> \E r \in rows : r.user = u
    <3>1. \A r \in rows : r.depth > 0 \/ r.user = me
      BY <1>1, <2>1, AllRows
    <3>2. Self(me) \in rows /\ Self(me).user = me
      BY <1>1, FirstKept DEF Self
    <3>3. /\ \A n \in graph.nodes : \E r \in rows : n.user = r.user /\ n.depth = r.depth
          /\ \A r \in rows : \E n \in graph.nodes : n.user = r.user /\ n.depth = r.depth
      BY GraphOf
    <3> HIDE DEF rows, graph
    <3> QED
      BY <3>1, <3>2, <3>3
  <2>3. graph.edges = {e \in friend_edges : e[1] < e[2] /\ e[1] \in ids /\ e[2] \in ids}
    <3>1. graph.edges = {e \in friend_edges : e[1] < e[2] /\ (\E r \in rows : r.user = e[1]) /\ \E r \in rows : r.user = e[2]}
      BY GraphOf
    <3> HIDE DEF rows, graph, ids
    <3> QED
      BY <2>2, <3>1
  <2>4. ASSUME NEW a \in ids \cap Users, NEW b \in ids \cap Users, <<a, b>> \in friend_edges
        PROVE  {a, b} \in lines
    <3>1. a # b /\ <<b, a>> \in friend_edges /\ a \in Int /\ b \in Int
      BY <1>1, <2>4, NetworkAssumption DEF GraphInv
    <3>2. CASE a < b
      <4>1. <<a, b>> \in graph.edges
        BY <2>3, <2>4, <3>2
      <4> QED
        BY <4>1
    <3>3. CASE b < a
      <4>1. <<b, a>> \in graph.edges /\ {a, b} = {b, a}
        BY <2>3, <2>4, <3>1, <3>3
      <4> QED
        BY <4>1
    <3> QED
      BY <3>1, <3>2, <3>3
  <2>5. ASSUME NEW n \in friends
        PROVE  /\ n.user \in ids \cap Users /\ n.depth \in {1, 2}
               /\ n.depth = 1 => <<me, n.user>> \in friend_edges
               /\ n.depth = 2 => n.via \in ids \cap Users /\ <<n.via, n.user>> \in friend_edges
    <3>1. PICK r \in rows : n.user = r.user /\ n.depth = r.depth /\ n.via = r.via
      BY GraphOf
    <3>2. n.user \in ids \cap Users /\ r \in All(me, max) /\ r.depth > 0
      BY <2>1, <3>1
    <3>3. CASE r.user \in FriendsOf(me) \ {me} /\ r.depth = 1
      BY <3>1, <3>2, <3>3 DEF FriendsOf
    <3>4. CASE r.depth = 2 /\ Mutuals(me, r.user) # {} /\ r.via = Least(Mutuals(me, r.user))
      <4>1. r.via \in Mutuals(me, r.user)
        BY <1>1, <2>1, <3>4, LeastMutual
      <4>2. r.via \in FriendsOf(me) /\ r.via \in Users /\ <<r.via, r.user>> \in friend_edges /\ ~Blocked(me, r.via)
        BY <1>1, <4>1 DEF Mutuals, FriendsOf, GraphInv
      <4>3. PICK q : q = [user |-> r.via, depth |-> 1, via |-> NoUser]
        OBVIOUS
      <4>4. q \in All(me, max) /\ q.user = r.via /\ q.depth = 1
        BY <1>1, <4>2, <4>3, ReachRows DEF All
      <4>5. q \in rows
        BY <1>1, <3>4, <4>4, FirstKept
      <4>6. r.via \in ids
        BY <2>2, <4>4, <4>5
      <4> QED
        BY <3>1, <3>2, <3>4, <4>2, <4>6
    <3> QED
      BY <1>1, <3>2, <3>3, <3>4, AllRows
  <2>6. me \in ids \cap Users
    OBVIOUS
  <2> DEFINE Parent(n) == IF n.via \in ids THEN n.via ELSE first
  <2>7. Links(me, friends, graph.edges, first) =
          {{e[1], e[2]} : e \in {d \in graph.edges : {d[1], d[2]} \subseteq ids}}
          \cup {{me, n.user} : n \in {m \in friends : m.depth = 1}}
          \cup {{Parent(n), n.user} :
                   n \in {m \in friends : m.depth = 2 /\ (m.via \in ids \/ \E f \in friends : f.depth = 1)}}
    BY DEF Links
  <2>8. {d \in graph.edges : {d[1], d[2]} \subseteq ids} = graph.edges
    BY <2>3
  <2>9. \A n \in {m \in friends : m.depth = 1} : {me, n.user} \in lines
    BY <2>4, <2>5, <2>6
  <2>10. \A n \in {m \in friends : m.depth = 2} : {Parent(n), n.user} \in lines
    BY <2>4, <2>5
  <2> HIDE DEF lines, friends, ids, graph, Parent
  <2>11. Links(me, friends, graph.edges, first) = lines
    <3>1. {{e[1], e[2]} : e \in graph.edges} = lines
      BY DEF lines
    <3> QED
      BY <2>7, <2>8, <2>9, <2>10, <3>1
  <2> QED
    BY <2>11 DEF lines, friends, graph
<1>2. GraphInv => DrawnAsRead
  BY <1>1 DEF DrawnAsRead
<1> QED
  BY <1>2, Invariance, PTL
===============================================================================
