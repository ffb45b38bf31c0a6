---------------------------- MODULE MyNetworkPage ----------------------------
(***************************************************************************)
(* The network page. A load reads the lists and the graph together, fails  *)
(* as a whole and is applied as a whole; when its friendships have been    *)
(* set the graph is read once more. The rows of a search are not patched:  *)
(* every change of a list searches again. Only an invite is ever busy.     *)
(***************************************************************************)
EXTENDS PeoplePage

NetworkParts == {"friends", "requests", "blocks", "graph"}

\* Mutant: the search effect does not depend on the lists.
Researched_Once == UNCHANGED <<timer, searching, rows>>

\* What a change of a list does to the search: it is debounced anew.
Researched ==
  /\ timer' = (query # NoQuery) /\ searching' = (query # NoQuery)
  /\ rows' = IF query = NoQuery THEN NoRows ELSE rows

GraphRead == Flight("graph", {"graph"}, depth)
Ended(l) == busy' = IF l.for = "send" THEN Nobody ELSE busy

NetworkLoaded ==
  \E l \in loads :
    LET got == Answer(l, {})
        rest == loads \ {l}
    IN  /\ l.for # "graph"
        /\ shown' = [part \in DOMAIN shown |->
                       IF part = "graph" THEN AtDepth(got.graph, l.local)
                       ELSE IF part \in NetworkParts THEN got[part] ELSE shown[part]]
        /\ loads' = rest \cup {GraphRead}
        /\ drift' = (drift \/ rest # {})
        /\ loading' = FALSE /\ Ended(l) /\ Researched
        /\ UNCHANGED <<server, depth, calls, query, searches, late, spent>>

NetworkLoadFails ==
  \E l \in loads :
    /\ l.for # "graph" /\ Spend
    /\ loads' = loads \ {l} /\ loading' = FALSE /\ Ended(l)
    /\ drift' = TRUE /\ late' = TRUE
    /\ UNCHANGED <<server, shown, depth, calls, search>>

GraphLoaded ==
  \E l \in loads :
    /\ l.for = "graph" /\ loads' = loads \ {l}
    /\ \/ /\ shown' = [shown EXCEPT !.graph = AtDepth(Answer(l, {}).graph, l.local)]
          /\ Researched /\ UNCHANGED <<drift, spent>>
       \/ Spend /\ drift' = TRUE /\ UNCHANGED <<shown, timer, searching, rows>>
    /\ UNCHANGED <<server, depth, calls, busy, loading, query, searches, late>>

DepthChosen ==
  /\ Spend /\ depth' = 3 - depth
  /\ Cardinality(loads) < MaxInFlight
  /\ loads' = loads \cup {Flight("graph", {"graph"}, depth')}
  /\ drift' = (drift \/ loads # {})
  /\ UNCHANGED <<server, shown, calls, busy, loading, search, late>>

-------------------------------------------------------------------------------
Never(c) == FALSE
SearchHandlers == {"send", "accept", "decline", "cancel", "block"}

FoundList == UNION {Buttons(p, rows[p], SearchHandlers, busy = p) : p \in DOMAIN rows}
ManualInvite == IF busy = Nobody THEN {[op |-> "send", p |-> p, id |-> 0] : p \in People} ELSE {}
FriendsCards == ListItems(shown.friends, "direct_friend", {"remove", "block"}, Never)
IncomingCards == ListItems(Requested("incoming"), "incoming_request", {"accept", "decline"}, Never)
OutgoingCards == ListItems(Requested("outgoing"), "outgoing_request", {"cancel"}, Never)
BlockedCards == ListItems(shown.blocks, "blocked", {"unblock"}, Never)

NetworkOffers == FoundList \cup ManualInvite \cup FriendsCards \cup IncomingCards \cup OutgoingCards \cup BlockedCards

NetworkClicked ==
  \E c \in NetworkOffers :
    /\ Click(c) /\ busy' = IF c.op = "send" THEN c.p ELSE busy
    /\ UNCHANGED <<server, shown, depth, loads, loading, search, drift, late>>

\* The load is that of the click: it reads the graph at the depth of then.
NetworkCallDone ==
  \E c \in calls :
    /\ c.pc = "ok" /\ calls' = calls \ {c}
    /\ StartLoad(IF c.op = "send" THEN "send" ELSE "action", NetworkParts, c.depth) /\ loading' = TRUE
    /\ UNCHANGED <<server, shown, depth, busy, search, late, spent>>

NetworkCallFailed ==
  \E c \in calls :
    /\ c.pc = "failed" /\ calls' = calls \ {c}
    /\ busy' = IF c.op = "send" THEN Nobody ELSE busy
    /\ UNCHANGED <<server, shown, depth, loads, loading, search, drift, late, spent>>

\* The rows found; where the search knows of no link the lists of the page,
\* as of the time it was asked, decide.
Local == [part \in Parts |-> IF part = "fof" THEN shown.graph.fof ELSE shown[part]]
FoundHere(s, lost) ==
  [p \in Match[s.for] |-> IF Found(s, lost)[p].relation = "none" THEN SearchRow(s.local, p) ELSE Found(s, lost)[p]]

NetworkSearchEffect == \E q \in Queries \cup {NoQuery} : Typed(q, NoRows)
NetworkSearchAnswer ==
  \E s \in searches, lost \in AtMostOne(Parts) : SearchDone(s, FoundHere(s, lost)) /\ Lose(lost, late)
NetworkSearchFails == \E s \in searches : SearchDone(s, NoRows) /\ Spend /\ late' = TRUE

-------------------------------------------------------------------------------
NetworkMounted ==
  /\ shown = [part \in AllParts |-> EmptyPart(part)]
  /\ loads = {Flight("mount", NetworkParts, depth), GraphRead} /\ loading = TRUE

NetworkNext ==
  NetworkLoaded \/ NetworkLoadFails \/ GraphLoaded \/ DepthChosen \/ NetworkClicked \/ CallServed
  \/ NetworkCallDone \/ NetworkCallFailed \/ NetworkSearchEffect \/ SearchAsk(Local)
  \/ NetworkSearchAnswer \/ NetworkSearchFails \/ OthersAct
===============================================================================
