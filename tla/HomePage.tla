------------------------------- MODULE HomePage -------------------------------
(***************************************************************************)
(* The home page. Its parts are read apart, each shown when it arrives and *)
(* never loaded again, but for the numbers, which every action reads anew, *)
(* and the graph, which an accepted request and a change of depth do. The  *)
(* handlers patch the rows found and the two previews. The filter of the   *)
(* search, which narrows the people found, is left out.                    *)
(***************************************************************************)
EXTENDS PeoplePage

HomeParts == {"stats", "fof", "requests", "graph"}
Read(part) == Flight("home", {part}, depth)
Preview(requests) == [p \in {q \in DOMAIN requests : requests[q].dir = "incoming"} |-> requests[p]]

\* A part asked for, or patched, while it is read already may be shown in
\* either order. The graph is asked for at the depth of the click, whichever is
\* chosen by now.
Refreshed(parts, patched, at) ==
  /\ loads' = loads \cup {Flight("action", {part}, at) : part \in parts}
  /\ drift' = \/ drift
               \/ ("graph" \in parts /\ at # depth)
               \/ \E l \in loads : l.parts \cap (parts \cup patched) # {}

PartArrives ==
  \E l \in loads : \E part \in l.parts :
    LET value == Answer(l, {})[part]
    IN  /\ shown' = [shown EXCEPT ![part] = IF part = "requests" THEN Preview(value)
                                            ELSE IF part = "graph" THEN AtDepth(value, l.local) ELSE value]
        /\ loads' = loads \ {l}
        /\ UNCHANGED <<server, depth, calls, busy, loading, search, drift, late, spent>>

\* A part that fails is left as it is; the graph, unless it is that of an
\* accepted request, becomes empty.
PartFails ==
  \E l \in loads :
    /\ Spend /\ loads' = loads \ {l} /\ drift' = TRUE
    /\ shown' = IF l.for = "home" /\ l.parts = {"graph"} THEN [shown EXCEPT !.graph = EmptyPart("graph")] ELSE shown
    /\ UNCHANGED <<server, depth, calls, busy, loading, search, late>>

HomeDepthChosen ==
  /\ Spend /\ depth' = 3 - depth
  /\ loads' = loads \cup {Read("graph")'}
  /\ drift' = (drift \/ \E l \in loads : "graph" \in l.parts)
  /\ UNCHANGED <<server, shown, calls, busy, loading, search, late>>

-------------------------------------------------------------------------------
\* A row found is busy when the busy slot is its person, or is its request;
\* where there is no request and nothing is busy, both are null.
RowBusy(p) == busy = p \/ busy = (IF rows[p].id = 0 THEN Nobody ELSE rows[p].id)

FoundHome == UNION {Buttons(p, rows[p], {"send", "accept", "decline", "cancel"}, RowBusy(p)) : p \in DOMAIN rows}
RequestsPreview ==
  ListItems(DOMAIN shown.requests, "incoming_request", {"accept", "decline"}, LAMBDA c : busy = c.id)
Suggestions == ListItems(shown.fof, "friend_of_friend", {"send"}, LAMBDA c : busy = c.p)

HomeOffers == (IF searching THEN {} ELSE FoundHome) \cup RequestsPreview \cup Suggestions

HomeClicked ==
  \E c \in HomeOffers :
    /\ Click(c) /\ busy' = Slot(c)
    /\ late' = (late \/ Overlaps(c))
    /\ UNCHANGED <<server, shown, depth, loads, loading, search, drift>>

RowPatch(c) ==
  [p \in DOMAIN rows |->
     IF c.op = "send" /\ p = c.p THEN [relation |-> "outgoing_request", id |-> c.id]
     ELSE IF c.op = "send" \/ rows[p].id # c.id THEN rows[p]
     ELSE IF c.op = "accept" THEN [rows[p] EXCEPT !.relation = "direct_friend"]
     ELSE [relation |-> "none", id |-> 0]]

PreviewPatch(c) ==
  [p \in {q \in DOMAIN shown.requests : c.op \notin {"accept", "decline"} \/ shown.requests[q].id # c.id} |->
     shown.requests[p]]

HomeCallDone ==
  \E c \in calls :
    /\ c.pc = "ok" /\ calls' = calls \ {c} /\ busy' = Nobody
    /\ rows' = RowPatch(c)
    /\ shown' = [shown EXCEPT !.requests = PreviewPatch(c), !.fof = IF c.op = "send" THEN @ \ {c.p} ELSE @]
    /\ Refreshed(IF c.op = "accept" THEN {"stats", "graph"} ELSE {"stats"}, {"requests"}, c.depth)
    /\ late' = (late \/ searches # {})
    /\ UNCHANGED <<server, depth, loading, query, timer, searches, searching, spent>>

HomeCallFailed ==
  \E c \in calls :
    /\ c.pc = "failed" /\ calls' = calls \ {c} /\ busy' = Nobody
    /\ UNCHANGED <<server, shown, depth, loads, loading, search, drift, late, spent>>

HomeSearchEffect == \E q \in Queries \cup {NoQuery} : Typed(q, NoRows)
HomeSearchAnswer ==
  \E s \in searches, lost \in AtMostOne(Parts) : SearchDone(s, Found(s, lost)) /\ Lose(lost, late)
\* A failed search leaves the rows of the last one.
HomeSearchFails == \E s \in searches : SearchDone(s, rows) /\ Spend /\ late' = TRUE

-------------------------------------------------------------------------------
HomeMounted ==
  /\ shown = [part \in AllParts |-> EmptyPart(part)]
  /\ loads = {Read(part) : part \in HomeParts} /\ loading = FALSE

HomeNext ==
  PartArrives \/ PartFails \/ HomeDepthChosen \/ HomeClicked \/ CallServed \/ HomeCallDone
  \/ HomeCallFailed \/ HomeSearchEffect \/ SearchAsk(0) \/ HomeSearchAnswer \/ HomeSearchFails \/ OthersAct
===============================================================================
