------------------------------ MODULE PeoplePage ------------------------------
(***************************************************************************)
(* What the pages about people have in common: the lists they show, the    *)
(* loads, calls and searches they have in flight, the one busy slot, and   *)
(* the row of a person with the buttons it offers. RequestsPage,           *)
(* MyNetworkPage and HomePage extend it.                                   *)
(*                                                                         *)
(* Every read of a load or a search sees the server of its own moment; a   *)
(* call is clicked, served and answered. Names, avatars and wording are    *)
(* left out, and so is the tab that is open: the user may click what any   *)
(* tab offers.                                                             *)
(***************************************************************************)
EXTENDS Circle

CONSTANTS
  Queries,      \* what the user may type, and
  Match,        \* whom each query finds by name
  NoQuery,      \* the empty query
  Nobody,       \* no action is busy
  MaxInFlight,  \* bound: loads, calls, and searches, in flight at once
  MaxEvents     \* bound: clicks, typing, steps of the others and faults together

ASSUME PeoplePageAssumption ==
  /\ NoQuery \notin Queries /\ Match \in [Queries -> SUBSET People] /\ Nobody \notin People
  /\ {MaxInFlight, MaxEvents} \subseteq Nat

VARIABLES
  shown,      \* the lists, by part
  depth,      \* graphDepth
  loads,      \* loads in flight
  calls,      \* calls in flight
  busy,       \* busyActionId, sendingInviteToId, actionLoadingId
  loading,    \* loading
  query,      \* searchQuery
  timer,      \* the debounce timer is running
  searches,   \* searchUsers in flight
  rows,       \* searchResults, by person
  searching,  \* isSearching
  drift,      \* history: a list may lag: others acted, an answer was lost, loads overlapped,
              \* or the graph was asked for at a former depth
  late,       \* history: the rows found may lag, for the same reasons
  spent       \* events so far

search == <<query, timer, searches, rows, searching>>
pageVars == <<shown, depth, loads, calls, busy, loading, search, drift, late, spent>>
vars == <<server, pageVars>>

NoRows == [p \in {} |-> 0]
Spend == spent' = spent + 1 /\ spent' <= MaxEvents

-------------------------------------------------------------------------------
(* The row of a person: UserListItem.                                      *)

\* The calls its buttons make, of those the list has a handler for; none
\* while the row is busy. A request is answered by its id, a person by theirs.
Buttons(p, row, handlers, isBusy) ==
  LET Has(op, id) == [op |-> op, p |-> p, id |-> id]
      answers == IF row.id = 0 THEN {}
                 ELSE CASE row.relation = "incoming_request" -> {Has("accept", row.id), Has("decline", row.id)}
                        [] row.relation = "outgoing_request" -> {Has("cancel", row.id)}
                        [] OTHER -> {}
      others == CASE row.relation \in {"none", "friend_of_friend"} -> {Has("send", 0), Has("block", 0)}
                  [] row.relation = "direct_friend" -> {Has("remove", 0), Has("block", 0)}
                  [] row.relation = "blocked" -> {Has("unblock", 0)}
                  [] OTHER -> {Has("block", 0)}
  IN  IF isBusy THEN {} ELSE {b \in answers \cup others : b.op \in handlers}

\* What busyActionId is set to: the request answered, or else the person.
Slot(c) == IF c.id = 0 THEN c.p ELSE c.id
Requested(d) == {p \in DOMAIN shown.requests : shown.requests[p].dir = d}
RowOf(relation, p) ==
  [relation |-> relation,
   id |-> IF relation \in {"incoming_request", "outgoing_request"} THEN shown.requests[p].id ELSE 0]
ListItems(people, relation, handlers, Busy(_)) ==
  UNION {Buttons(p, RowOf(relation, p), handlers, Busy([p |-> p, id |-> RowOf(relation, p).id])) : p \in people}

-------------------------------------------------------------------------------
(* Loads, calls and searches in flight.                                    *)

\* A load or search reads parts of the server at moments of their own.
Flight(for, parts, local) == [for |-> for, parts |-> parts, got |-> [part \in {} |-> 0], local |-> local, step |-> 0]
Call == [op : Operations, p : People, id : 0..MaxRequests, pc : {"asked", "ok", "failed"}, depth : 1..2]

\* An overlapping load may be applied after a later one; a load of its own
\* reads everything anew, the graph at the depth given.
StartLoad(for, parts, at) ==
  /\ Cardinality(loads) < MaxInFlight
  /\ loads' = loads \cup {Flight(for, parts, at)}
  /\ drift' = (loads # {})

\* A read commutes with everything but a change of the server. So it is
\* chosen at each change which of the reads in flight came before it.
Open(flights) ==
  {o \in flights \X AllParts : o[2] \in o[1].parts \ DOMAIN o[1].got /\ ReadNow(o[2])' # ReadNow(o[2])}
Cut(f, early) ==
  LET parts == {part \in f.parts : part \in DOMAIN f.got \/ <<f, part>> \in early}
  IN  [f EXCEPT !.got = [part \in parts |-> IF part \in DOMAIN f.got THEN f.got[part] ELSE ReadNow(part)]]
\* Bound: at most one of them is on the other side of the change than the rest.
Splits(open) == {early \in SUBSET open : Cardinality(early) <= 1 \/ Cardinality(open \ early) <= 1}
Straddled ==
  /\ \E early \in Splits(Open(loads)) : loads' = {Cut(l, early) : l \in loads}
  /\ \E early \in Splits(Open(searches)) : searches' = {Cut(s, early) : s \in searches}

\* The graph is asked for at the depth of the time.
AtDepth(graph, d) == [graph EXCEPT !.fof = IF d = 2 THEN @ ELSE {}]

\* All the reads of f as answered, those in lost with an error.
Answer(f, lost) ==
  [part \in f.parts |-> IF part \in lost THEN EmptyPart(part)
                        ELSE IF part \in DOMAIN f.got THEN f.got[part] ELSE ReadNow(part)]
AtMostOne(parts) == {{}} \cup {{part} : part \in parts}
Lose(lost, history) == IF lost = {} THEN UNCHANGED <<spent, history>> ELSE Spend /\ history' = TRUE

\* The handler closes over the depth of the click.
Click(c) ==
  /\ Spend /\ Cardinality(calls) < MaxInFlight
  /\ calls' = calls \cup {[op |-> c.op, p |-> c.p, id |-> c.id, pc |-> "asked", depth |-> depth]}

\* The slot holds one action: another frees the buttons of the first, and the
\* rows are patched in the order of the answers, not of what was done.
Overlaps(c) == \E d \in calls : d.p = c.p

\* The answer of send_friend_request carries the id of the request.
Becomes(c, pc) ==
  calls' = (calls \ {c}) \cup {[c EXCEPT !.pc = pc, !.id = IF c.op = "send" /\ pc = "ok" THEN issued + 1 ELSE @]}

\* A call reaches the database, which carries it out or refuses it; or the
\* network fails, before or after that.
CallServed ==
  \E c \in calls :
    /\ c.pc = "asked"
    /\ \/ /\ Accepted(c.op, c.p, c.id) /\ Straddled
          /\ \/ Becomes(c, "ok") /\ late' = (late \/ searches # {}) /\ UNCHANGED <<spent, drift>>
             \/ Becomes(c, "failed") /\ Spend /\ drift' = TRUE /\ late' = TRUE
       \/ /\ Refused(c.op, c.p, c.id) /\ Becomes(c, "failed")
          /\ UNCHANGED <<loads, searches, spent, drift, late>>
       \/ /\ Becomes(c, "failed") /\ Spend
          /\ UNCHANGED <<server, loads, searches, drift, late>>
    /\ UNCHANGED <<shown, depth, busy, loading, query, timer, rows, searching>>

\* Someone else changes the graph.
OthersAct ==
  /\ Spend /\ \E p \in People : OtherActs(p)
  /\ Straddled
  /\ drift' = TRUE /\ late' = TRUE
  /\ UNCHANGED <<shown, depth, calls, busy, loading, query, timer, rows, searching>>

\* The user types: a running timer is stopped, a search in flight is not.
Typed(q, cleared) ==
  /\ q # query /\ Spend /\ query' = q
  /\ timer' = (q # NoQuery) /\ searching' = (q # NoQuery)
  /\ rows' = IF q = NoQuery THEN cleared ELSE rows
  /\ late' = (late \/ searches # {})
  /\ UNCHANGED <<server, shown, depth, loads, calls, busy, loading, searches, drift>>

\* The timer fires: searchUsers for the query it was set for, its four reads
\* in flight together.
SearchAsk(local) ==
  /\ timer /\ timer' = FALSE
  /\ Cardinality(searches) < MaxInFlight
  /\ searches' = searches \cup {Flight(query, Parts, local)}
  /\ late' = (searches # {} \/ (late /\ calls # {}))
  /\ UNCHANGED <<server, shown, depth, loads, calls, busy, loading, query, rows, searching, drift, spent>>

\* The people found by a search. An error of one of its reads is not looked at.
Found(s, lost) == [p \in Match[s.for] |-> SearchRow(Answer(s, lost), p)]
SearchDone(s, found) ==
  /\ searches' = searches \ {s} /\ rows' = found /\ searching' = FALSE
  /\ UNCHANGED <<server, shown, depth, loads, calls, busy, loading, query, timer, drift>>

-------------------------------------------------------------------------------
Quiet == calls = {} /\ loads = {}
Searched == searches = {} /\ ~timer
===============================================================================
