-------------------------------- MODULE Client --------------------------------
(***************************************************************************)
(* The client, one page of it at a time: App shows the page of the route,  *)
(* and each keeps a state of its own. A page about people starts as it is  *)
(* mounted, or settled: without a search, with one about to be asked, or   *)
(* with its rows on the screen. The tab of card handoffs and the           *)
(* constellation with its panel keep state of their own and are pages by   *)
(* themselves here.                                                        *)
(***************************************************************************)
EXTENDS RequestsPage, MyNetworkPage, HomePage, Handoffs, PersonPanel, Account, Cards

VARIABLE page

clientVars == <<vars, handoffVars, panelVars, accountVars, cardVars, page>>
PeoplePages == {"requests", "network", "home"}

InitServer ==
  /\ link \in [People -> Relations] /\ issued \in 0..MaxRequests /\ shut = {}
  /\ ticket \in [People -> 0..issued]
  /\ \A p \in People : ticket[p] # 0 <=> link[p] \in {"incoming", "outgoing"}
  /\ \A p, q \in People : p # q /\ ticket[p] # 0 => ticket[p] # ticket[q]

Settled == [part \in AllParts |-> IF part = "requests" /\ page = "home" THEN Preview(RequestsNow) ELSE ReadNow(part)]

NoSearch == query = NoQuery /\ timer = FALSE /\ rows = NoRows /\ searching = FALSE

InitSearch ==
  \/ NoSearch
  \/ query \in Queries /\ timer = TRUE /\ rows = NoRows /\ searching = TRUE
  \/ query \in Queries /\ timer = FALSE /\ rows = [p \in Match[query] |-> RowNow(p)] /\ searching = FALSE

InitLists ==
  /\ InitServer /\ spent \in 0..MaxEvents
  /\ \/ /\ CASE page = "requests" -> Mounted [] page = "network" -> NetworkMounted [] page = "home" -> HomeMounted
        /\ NoSearch
     \/ shown = Settled /\ loads = {} /\ loading = FALSE /\ InitSearch

\* The lists of a page that is not open.
ListsClosed ==
  /\ link = [p \in People |-> "none"] /\ ticket = [p \in People |-> 0] /\ issued = 0 /\ shut = {}
  /\ shown = Settled /\ loads = {} /\ loading = FALSE /\ spent = 0
  /\ query = NoQuery /\ timer = FALSE /\ rows = NoRows /\ searching = FALSE
HandoffsClosed ==
  /\ deals = Unread /\ cards = Unread /\ reads = {} /\ asked = {}
  /\ dealBusy = NoDeal /\ contacts = {} /\ lagging = FALSE /\ moves = 0
AccountClosed ==
  /\ profiles = [u \in Accounts |-> NoRow] /\ registered = {} /\ signedIn = Guest /\ session = Guest /\ profile = NoRow
  /\ authLoading = FALSE /\ boot = {} /\ entering = {} /\ syncs = {} /\ updating = {} /\ form = Nothing
  /\ avatarPreview = "null" /\ said = Nothing /\ crossed = FALSE /\ tries = 0
CardsClosed ==
  /\ mine = <<>> /\ made = 0 /\ savedCards = {} /\ loadingCards = FALSE /\ deletingCardId = 0
  /\ editor = Closed /\ submitting = FALSE /\ saves = {} /\ deletes = {} /\ listings = {}
  /\ behind = FALSE /\ raced = FALSE /\ deeds = 0

ClientInit ==
  /\ page \in PeoplePages \cup {"handoffs", "panel", "profile", "cards"}
  /\ depth = 2 /\ calls = {} /\ busy = Nobody /\ searches = {} /\ drift = FALSE /\ late = FALSE
  /\ PanelMounted
  /\ IF page \in PeoplePages THEN InitLists ELSE ListsClosed
  /\ IF page = "handoffs" THEN HandoffsMounted ELSE HandoffsClosed
  /\ IF page = "profile" THEN AccountMounted ELSE AccountClosed
  /\ IF page = "cards" THEN CardsMounted ELSE CardsClosed

ListsNext ==
  \/ page = "requests" /\ RequestsNext
  \/ page = "network" /\ NetworkNext
  \/ page = "home" /\ HomeNext

ClientNext ==
  /\ UNCHANGED page
  /\ \/ ListsNext /\ UNCHANGED <<handoffVars, panelVars, accountVars, cardVars>>
     \/ page = "handoffs" /\ HandoffsNext /\ UNCHANGED <<vars, panelVars, accountVars, cardVars>>
     \/ page = "panel" /\ PanelNext /\ UNCHANGED <<vars, handoffVars, accountVars, cardVars>>
     \/ page = "profile" /\ AccountNext /\ UNCHANGED <<vars, handoffVars, panelVars, cardVars>>
     \/ page = "cards" /\ CardsNext /\ UNCHANGED <<vars, handoffVars, panelVars, accountVars>>

ClientSpec == ClientInit /\ [][ClientNext]_clientVars

-------------------------------------------------------------------------------
(* The lists.                                                              *)

\* The lists of a page settle on what the server holds: when nothing is in
\* flight, what is shown is what a read would return now, and the tiles count
\* what the tabs hold. (Not where others have acted, a read or an answer was
\* lost, or two loads overlapped: nothing tells a page of those. Nor on the home
\* page where the depth was changed between accepting a request and the answer:
\* its handler asks for the graph of the former depth.)
SettledLists ==
  page \in PeoplePages /\ Quiet /\ ~drift =>
    /\ page # "home" => \A part \in {"friends", "requests", "blocks"} : shown[part] = ReadNow(part)
    /\ page = "requests" => shown.fof = FofNow /\ Tiles = Badges
    /\ page # "requests" => shown.graph = AtDepth(ReadNow("graph"), depth)
    /\ page = "home" => shown.requests = Preview(RequestsNow) /\ shown.stats = ReadNow("stats")

\* Rows that offer the same buttons.
Kind(r) == IF r.relation = "friend_of_friend" THEN [r EXCEPT !.relation = "none"]
           ELSE IF r.relation = "direct_friend" THEN [r EXCEPT !.id = 0] ELSE r

\* The rows of a search follow the user's own actions: when nothing is in flight
\* they are the people the query finds, each with the buttons for the link the
\* server has. (Not where a search overlapped with another, or with an action,
\* or two actions on one person overlapped; nor on the requests page after a
\* removal or a block, which patches no row.)
RowsFollow ==
  Searched /\ ~late =>
    /\ DOMAIN rows = IF query = NoQuery THEN {} ELSE Match[query]
    /\ Quiet /\ (page = "network" => ~drift) => \A p \in DOMAIN rows : Kind(rows[p]) = Kind(RowNow(p))

\* No page stays busy: when nothing is in flight, no button waits for an answer
\* and nothing is shown as loading, whatever failed.
NothingStuck ==
  /\ Quiet => busy = Nobody /\ ~loading
  /\ Searched => ~searching
  /\ HandoffsQuiet => dealBusy = NoDeal
  /\ fetches = {} => ~cardsLoading
  /\ AccountQuiet => ~authLoading /\ updating = {}
  /\ CardsQuiet => ~loadingCards /\ ~submitting /\ deletingCardId = 0

\* On the home page a person found without a link to the user can be asked.
FoundCanBeAsked ==
  page = "home" /\ Quiet /\ ~searching =>
    \A p \in DOMAIN rows :
      rows[p].relation \in {"none", "friend_of_friend"} => \E c \in HomeOffers : c.op = "send" /\ c.p = p

-------------------------------------------------------------------------------
(* The other pages.                                                        *)

\* After the user's own answers the tab of card handoffs shows every request as
\* it stands in the database.
SettledHandoffs == page = "handoffs" /\ HandoffsQuiet /\ ~lagging => cards = deals

\* The panel holds the cards and the profile of the person selected, and not of
\* one selected before. (Not where a fetch for that one was still in flight.)
PanelShowsSelected ==
  page = "panel" /\ fetches = {} /\ selected # NoOne /\ ~overlapped =>
    personCards = selected /\ personProfile \in {selected, NoOne}

\* The profile shown is the stored one of who is signed in, none for a guest, and
\* so is the name the page said it had saved. (Not where a call that writes was
\* in flight with another, or across a change of session, or one was lost; nor
\* after a sign-out that failed, which takes the profile and leaves the session.)
ProfileIsOfSession ==
  AccountQuiet /\ ~crossed =>
    /\ profile = (IF session = Guest THEN NoRow ELSE profiles[session])
    /\ profile # NoRow => avatarPreview = profile.avatar
    /\ said # Nothing => profile.name = said.name

\* The list of one's cards settles on the table. (Not where another tab changed it,
\* the answer of a save or a deletion was lost, or loads failed or overlapped.)
SettledCards == page = "cards" /\ CardsQuiet /\ ~behind => savedCards = Listed

\* Adding a card never takes the place of another one of the owner's, unless the
\* name fits its item or every item is taken. (Not where the table changed
\* between the steps of createCard, nor where its read of the cards owned failed:
\* it then takes the first item of the catalogue, owned or not.)
AddsInPlaceOfNone ==
  [][\A i \in DOMAIN mine \cap DOMAIN mine' :
       mine'[i].name # mine[i].name =>
         \/ raced \/ DOMAIN mine = Items \/ i \in UNION {Fits[mine'[i].name][t] : t \in 1..3}
         \/ \E c \in saves : c.edits = mine[i].id]_cardVars

-------------------------------------------------------------------------------
(* The inductive invariant: that of every page, and for the lists that     *)
(* whatever is busy waits for something in flight.                         *)

FlightShape(l) == l = [for |-> l.for, parts |-> l.parts, got |-> l.got, local |-> l.local, step |-> l.step]
AskShape(c) == c = [op |-> c.op, p |-> c.p, id |-> c.id, pc |-> c.pc, depth |-> c.depth]

BusyInv ==
  /\ \A l \in loads : FlightShape(l)
  /\ \A c \in calls : AskShape(c)
  /\ searching => timer \/ searches # {}
  /\ CASE page = "requests" ->
            /\ busy # Nobody => calls # {} \/ \E l \in loads : l.for # "mount"
            /\ loading => loads # {}
       [] page = "network" ->
            /\ busy # Nobody => (\E c \in calls : c.op = "send") \/ \E l \in loads : l.for = "send"
            /\ loading => \E l \in loads : l.for # "graph"
       [] page = "home" -> (busy # Nobody => calls # {}) /\ ~loading
       [] OTHER -> calls = {} /\ busy = Nobody /\ loads = {} /\ ~loading /\ ~searching

(* The lists: what makes up for what a page does not show yet. While an      *)
(* answer is still to come, the load it starts reads everything anew.      *)

ServerInv ==
  /\ link \in [People -> Relations] /\ ticket \in [People -> Nat] /\ issued \in Nat
  /\ \A p \in People : (ticket[p] # 0 <=> link[p] \in {"incoming", "outgoing"}) /\ ticket[p] <= issued
  /\ \A p, q \in People : p # q /\ ticket[p] # 0 => ticket[p] # ticket[q]

\* What l has read still stands.
Fresh(l) == \A part \in l.parts \cap DOMAIN l.got : l.got[part] = ReadNow(part)
Shows(parts) == \A part \in parts : shown[part] = ReadNow(part)
ShowsGraph == shown.graph = AtDepth(ReadNow("graph"), depth)
Answering(operations) == \E c \in calls : c.pc = "ok" /\ c.op \in operations

RequestsFollow ==
  \/ Answering(Operations)
  \/ loads = {} /\ Shows(LoadParts)
  \/ \E l \in loads :
       /\ loads = {l} /\ l.parts = LoadParts /\ Fresh(l) /\ l.step \in 0..4
       /\ l.step > 0 => LoadParts \subseteq DOMAIN l.got /\ Shows({"stats"})
       /\ \A k \in DOMAIN Stages : k < l.step => Shows(Stages[k])

NetworkFollows ==
  \/ Answering(Operations)
  \/ \E l \in loads : l.for # "graph" /\ l.parts = NetworkParts /\ Fresh(l)
  \/ /\ Shows(NetworkParts \ {"graph"})
     /\ \/ loads = {} /\ ShowsGraph
        \/ \E l \in loads : loads = {l} /\ l.for = "graph" /\ l.parts = {"graph"} /\ l.local = depth /\ Fresh(l)

\* On the home page requests are patched, by their ids: a request the user has
\* made is never taken for one to be answered, and the preview lacks nothing
\* but what the answers still to come will take from it.
Incoming(id) == \E p \in People : ticket[p] = id /\ link[p] = "incoming"
Reading(part) == {l \in loads : l.parts = {part}}
Replied == {c.id : c \in {d \in calls : d.pc = "ok" /\ d.op \in {"accept", "decline"}}}
Without(requests, ids) == [p \in {q \in DOMAIN requests : requests[q].id \notin ids} |-> requests[p]]
Unanswered(requests) == Without(requests, Replied)

OwnRequestsKnown ==
  /\ \A c \in calls : c.op = "cancel" \/ c.pc = "ok" => ~Incoming(c.id)
  /\ \A p \in DOMAIN rows :
       /\ rows[p] = [relation |-> rows[p].relation, id |-> rows[p].id]
       /\ rows[p].relation = "outgoing_request" => ~Incoming(rows[p].id)
  /\ \A s \in searches :
       /\ FlightShape(s) /\ s.parts = Parts
       /\ "requests" \in DOMAIN s.got =>
            \A p \in DOMAIN s.got.requests : s.got.requests[p].dir # "incoming" => ~Incoming(s.got.requests[p].id)

HomeFollows ==
  /\ \A l \in loads : \E part \in HomeParts : l.parts = {part}
  /\ \A c \in calls : c.op \in {"send", "accept", "decline", "cancel"}
  /\ OwnRequestsKnown
  /\ \/ Answering(Operations)
     \/ Reading("stats") = {} /\ Shows({"stats"})
     \/ Reading("stats") # {} /\ \A l \in Reading("stats") : Fresh(l)
  /\ \/ Answering({"accept"})
     \/ Reading("graph") = {} /\ ShowsGraph
     \/ Reading("graph") # {} /\ \A l \in Reading("graph") : Fresh(l) /\ l.local = depth
  /\ \A l \in Reading("requests") :
       "requests" \in DOMAIN l.got => Unanswered(Preview(l.got.requests)) = Preview(RequestsNow)
  /\ Reading("requests") = {} =>
       /\ shown.requests = [p \in DOMAIN shown.requests |-> shown.requests[p]]
       /\ Unanswered(shown.requests) = Preview(RequestsNow)

ListsInv ==
  /\ ServerInv /\ shown = [part \in AllParts |-> shown[part]]
  /\ \A c \in calls : c.op \in Operations
  /\ ~drift => CASE page = "requests" -> RequestsFollow
                 [] page = "network" -> NetworkFollows
                 [] page = "home" -> HomeFollows
                 [] OTHER -> TRUE

(* The rows of a search: an action changes what is known of one person,    *)
(* and its answer brings the row of that one after it.                     *)

RowShape(r) == r = [relation |-> r.relation, id |-> r.id]
RowIsNow(p, row) == Kind(row) = Kind(RowNow(p))
ShutApart == \A p \in People : p \in shut => link[p] = "none"

\* The requests that a page has seen, with their persons.
Mentioned(requests) == {<<p, requests[p].id>> : p \in DOMAIN requests}
Seen(l) == IF "requests" \in DOMAIN l.got THEN Mentioned(l.got.requests) ELSE {}
SeenIn(flights) == UNION {Seen(l) : l \in flights}
Known ==
  {<<p, ticket[p]>> : p \in People} \cup {<<c.p, c.id>> : c \in calls} \cup Mentioned(rows)
  \cup Mentioned(shown.requests) \cup SeenIn(loads) \cup SeenIn(searches)
KnownApart == \A k, m \in Known : k[2] \in 0..issued /\ (k[2] # 0 /\ k[2] = m[2] => k[1] = m[1])

\* Whom the rows are of, or will be.
RowsOfQuery ==
  \/ timer
  \/ \E s \in searches : searches = {s} /\ s.for = query
  \/ searches = {} /\ DOMAIN rows = IF query = NoQuery THEN {} ELSE Match[query]

\* What a call has done still stands as its answer arrives.
AnswersStand ==
  /\ \A c, d \in calls : c.p = d.p => c = d
  /\ \A c \in calls : c.pc = "ok" =>
       /\ c.op = "send" /\ c.p \in People => link[c.p] = "outgoing" /\ ticket[c.p] = c.id
       /\ c.op \in {"accept", "decline", "cancel"} => c.id # 0 /\ \A p \in People : ticket[p] # c.id

Patch(c) == IF page = "home" THEN RowPatch(c) ELSE Patched(c)
RowToCome(p) ==
  /\ (\A c \in calls : c.p = p => c.pc # "ok") => RowIsNow(p, rows[p])
  /\ \A c \in calls : c.p = p /\ c.pc = "ok" => c.op \in {"remove", "block", "unblock"} \/ RowIsNow(p, Patch(c)[p])
RowsToCome ==
  \/ timer
  \/ \E s \in searches : searches = {s} /\ Fresh(s)
  \/ searches = {} /\ \A p \in DOMAIN rows : RowToCome(p)

\* The network page searches again instead.
RowsSearchedAgain ==
  \/ Answering(Operations) \/ (\E l \in loads : l.for # "graph") \/ timer
  \/ \E s \in searches :
       searches = {s} /\ Fresh(s) /\ \A part \in NetworkParts \ {"graph"} : s.local[part] = ReadNow(part)
  \/ searches = {} /\ \A p \in DOMAIN rows : RowIsNow(p, rows[p])

RowsShaped ==
  /\ ShutApart
  /\ query \in Queries \cup {NoQuery} /\ (timer => query # NoQuery)
  /\ \A s \in searches : FlightShape(s) /\ s.parts = Parts /\ s.for \in Queries
  /\ \A p \in DOMAIN rows : p \in People /\ RowShape(rows[p])
  /\ page = "home" => \A c \in calls : c.op \in {"send", "accept", "decline", "cancel"}
  /\ page = "requests" => \A l \in loads : l.parts = LoadParts /\ (l.step > 0 => LoadParts \subseteq DOMAIN l.got)

RowsInv ==
  /\ RowsShaped
  /\ page # "network" => KnownApart
  /\ ~late =>
       /\ RowsOfQuery
       /\ page # "network" => AnswersStand /\ RowsToCome
       /\ page = "network" /\ ~drift => RowsSearchedAgain

ClientInv == BusyInv /\ ListsInv /\ RowsInv /\ HandoffsInv /\ PanelInv /\ AccountInv /\ CardsInv
===============================================================================
