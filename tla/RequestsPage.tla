----------------------------- MODULE RequestsPage -----------------------------
(***************************************************************************)
(* The requests page. Every action ends in a load of everything: its reads *)
(* run together, none of them can fail it, and the lists are then set one  *)
(* after another, between awaits. The rows of a search are not loaded      *)
(* again; the handlers patch them. The card handoffs are in Handoffs.      *)
(***************************************************************************)
EXTENDS PeoplePage

LoadParts == Parts \cup {"stats"}

\* The tiles are set at once, then the lists, with the names resolved in between.
Stages == <<{"requests"}, {"friends", "fof"}, {"blocks"}>>

LoadAnswers ==
  \E l \in loads, lost \in AtMostOne(LoadParts) :
    /\ l.step = 0
    /\ loads' = (loads \ {l}) \cup {[l EXCEPT !.got = Answer(l, lost), !.step = 1]}
    /\ shown' = [shown EXCEPT !.stats = Answer(l, lost).stats]
    /\ Lose(lost, drift)
    /\ UNCHANGED <<server, depth, calls, busy, loading, search, late>>

LoadApplies ==
  \E l \in loads :
    /\ l.step \in DOMAIN Stages
    /\ shown' = [part \in DOMAIN shown |-> IF part \in Stages[l.step] THEN l.got[part] ELSE shown[part]]
    /\ loads' = (loads \ {l}) \cup {[l EXCEPT !.step = @ + 1]}
    /\ UNCHANGED <<server, depth, calls, busy, loading, search, drift, late, spent>>

\* Mutant: the action that waited for the load does not give its slot back.
LoadEnds_Busy ==
  \E l \in loads :
    /\ l.step = 4 /\ loads' = loads \ {l} /\ loading' = FALSE
    /\ UNCHANGED <<server, shown, depth, calls, busy, search, drift, late, spent>>

LoadEnds ==
  \E l \in loads :
    /\ l.step = 4 /\ loads' = loads \ {l} /\ loading' = FALSE
    /\ busy' = IF l.for = "mount" THEN busy ELSE Nobody
    /\ UNCHANGED <<server, shown, depth, calls, search, drift, late, spent>>

-------------------------------------------------------------------------------
(* What the page offers: the rows found and the tabs.                      *)

SlotIsId(c) == busy = c.id
SlotIsPerson(c) == busy = c.p

SearchList ==
  UNION {Buttons(p, rows[p], Operations, busy = p \/ (rows[p].id # 0 /\ busy = rows[p].id)) : p \in DOMAIN rows}
AllTab ==
  ListItems(Requested("incoming"), "incoming_request", {"accept", "decline"}, SlotIsId)
  \cup ListItems(Requested("outgoing"), "outgoing_request", {"cancel"}, SlotIsId)
IncomingTab == ListItems(Requested("incoming"), "incoming_request", {"accept", "decline", "block"}, SlotIsId)
PendingTab == ListItems(Requested("outgoing"), "outgoing_request", {"cancel"}, SlotIsId)
FriendsTab == ListItems(shown.friends, "direct_friend", {"remove", "block"}, SlotIsPerson)
FofTab == ListItems(shown.fof, "friend_of_friend", {"send", "block"}, SlotIsPerson)
BlockedTab == ListItems(shown.blocks, "blocked", {"unblock"}, SlotIsPerson)

Offers == SearchList \cup
  IF loading THEN {} ELSE AllTab \cup IncomingTab \cup PendingTab \cup FriendsTab \cup FofTab \cup BlockedTab

\* The tiles of the dashboard and the badges of the tabs they open.
Tiles == shown.stats
Badges == StatsOf(shown.requests, shown.friends, shown.fof)

-------------------------------------------------------------------------------
(* The handlers.                                                           *)

Clicked ==
  \E c \in Offers :
    /\ Click(c) /\ busy' = Slot(c)
    /\ late' = (late \/ Overlaps(c))
    /\ UNCHANGED <<server, shown, depth, loads, loading, search, drift>>

\* What a handler does to the rows found.
PatchedById(id, relation, newId) ==
  [p \in DOMAIN rows |-> IF rows[p].id = id THEN [relation |-> relation, id |-> newId] ELSE rows[p]]
Patched(c) ==
  CASE c.op = "send" -> [p \in DOMAIN rows |->
         IF p = c.p THEN [relation |-> "outgoing_request", id |-> c.id] ELSE rows[p]]
    [] c.op = "accept" -> PatchedById(c.id, "direct_friend", c.id)
    [] c.op \in {"decline", "cancel"} -> PatchedById(c.id, "none", 0)
    [] OTHER -> rows

\* Mutant: the handler leaves the lists as they are.
CallDone_Unloaded ==
  \E c \in calls :
    /\ c.pc = "ok" /\ calls' = calls \ {c} /\ rows' = Patched(c) /\ busy' = Nobody
    /\ UNCHANGED <<server, shown, depth, loads, loading, query, timer, searches, searching, drift, late, spent>>

CallDone ==
  \E c \in calls :
    /\ c.pc = "ok" /\ calls' = calls \ {c}
    /\ rows' = Patched(c)
    /\ StartLoad("action", LoadParts, depth)
    /\ late' = (late \/ searches # {} \/ c.op \in {"remove", "block", "unblock"})
    /\ UNCHANGED <<server, shown, depth, busy, loading, query, timer, searches, searching, spent>>

CallFailed ==
  \E c \in calls :
    /\ c.pc = "failed" /\ calls' = calls \ {c} /\ busy' = Nobody
    /\ UNCHANGED <<server, shown, depth, loads, loading, search, drift, late, spent>>

SearchEffect == \E q \in Queries \cup {NoQuery} : Typed(q, NoRows)
SearchAnswer ==
  \E s \in searches, lost \in AtMostOne(Parts) : SearchDone(s, Found(s, lost)) /\ Lose(lost, late)
SearchFails == \E s \in searches : SearchDone(s, NoRows) /\ Spend /\ late' = TRUE

-------------------------------------------------------------------------------
Mounted ==
  /\ shown = [part \in AllParts |-> EmptyPart(part)]
  /\ loads = {Flight("mount", LoadParts, depth)} /\ loading = TRUE

RequestsNext ==
  LoadAnswers \/ LoadApplies \/ LoadEnds \/ Clicked \/ CallServed \/ CallDone \/ CallFailed
  \/ SearchEffect \/ SearchAsk(0) \/ SearchAnswer \/ SearchFails \/ OthersAct
===============================================================================
