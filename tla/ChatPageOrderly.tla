---------------------------- MODULE ChatPageOrderly ----------------------------
(***************************************************************************)
(* ChatPage when answers and events arrive in the orders the page relies   *)
(* on, watched for the faults after which it may show less: what the page  *)
(* then shows of the open conversation, and why.                           *)
(***************************************************************************)
EXTENDS ChatPage

VARIABLE fault  \* history: since the chat was opened its load failed or its channel dropped

InitWatched == Init /\ fault = FALSE

Faulted ==
  /\ active' = active
  /\ fault \/ (joined /\ ~joined') \/ \E l \in loads : l.mounted /\ l.pc # "marking" /\ LoadFail(l)

WatchedNext == Next /\ Orderly /\ fault' = Faulted
SpecWatched == InitWatched /\ [][WatchedNext]_<<vars, fault>>

\* Once loaded, no message is shown twice unless the load failed or the channel dropped:
\* a load, an older page, an event and a send's answer may all bring the same one.
ShownOnce == ~fault /\ ~Loading => NoDuplicates

\* Unless its load has failed, a loaded conversation shows no message of another,
\* whichever loads of other conversations are still to be answered.
OnlyActiveChat == ~fault => OnlyActive

\* Unless the load has failed or the channel has dropped, the page shows the
\* latest messages without a gap once nothing is in flight.
ShowsConversation == ~fault => Complete

-------------------------------------------------------------------------------
(* What holds of the page in any order of answers and events.              *)

\* A page that was read has rows of its chat, with a status they had.
PageFits(page, c) ==
  \A k \in DOMAIN page :
    page[k].id \in In(c) /\ Rank[page[k].status] <= Rank[rows[page[k].id].status]

\* An event is of a row of the open chat, with a status it had.
FeedFits ==
  \A k \in DOMAIN feed :
    /\ feed[k].id \in In(active) /\ Rank[feed[k].status] <= Rank[rows[feed[k].id].status]
    /\ feed[k].kind = "INSERT" => feed[k].status = "sent"

\* Only a send in flight has an optimistic message, and one.
OneOptimistic ==
  /\ send = None => \A k \in DOMAIN list : list[k].id # Temp
  /\ \A j, k \in DOMAIN list : list[j].id = Temp /\ list[k].id = Temp => j = k

BaseInv ==
  /\ TypeOK /\ NeverAhead /\ FeedFits /\ OneOptimistic
  /\ \A l \in loads : PageFits(l.page, l.chat)
  /\ older # None => PageFits(older.page, older.chat)
  /\ send.pc = "stored" => send.id \in In(send.chat)

-------------------------------------------------------------------------------
(* What holds besides if they arrive in order.                             *)

Arriving(i) == \E k \in DOMAIN feed : feed[k].kind = "INSERT" /\ feed[k].id = i
Changing(i) == \E k \in DOMAIN feed : feed[k].kind = "UPDATE" /\ feed[k].id = i

\* The one load that is waited for is of the open chat, and so is the older page.
OfActive ==
  /\ \A l, m \in loads : l.mounted /\ m.mounted => l = m
  /\ \A l \in loads : l.mounted => l.chat = active
  /\ \A l \in loads : l.mounted /\ l.pc = "answered" => joined
  /\ older # None => older.chat = active /\ ~Loading
  /\ active = NoChat => list = <<>>

\* The channel brings the last messages of the chat in their order, each before
\* its changes and each change that its row has not overtaken.
FeedTells ==
  /\ ~joined => feed = <<>>
  /\ \A j, k \in DOMAIN feed :
       feed[j].kind = "INSERT" /\ feed[k].kind = "INSERT" /\ j < k => feed[j].id < feed[k].id
  /\ \A j, k \in DOMAIN feed :
       feed[j].kind = "UPDATE" /\ feed[k].kind = "INSERT" /\ feed[j].id = feed[k].id => k < j
  /\ \A i, j \in In(active) : Arriving(i) /\ i < j => Arriving(j)
  /\ \A k \in DOMAIN feed :
       /\ feed[k].kind = "UPDATE"
       /\ \A j \in DOMAIN feed : feed[j].kind = "UPDATE" /\ feed[j].id = feed[k].id => j <= k
       => feed[k].status = rows[feed[k].id].status
  /\ \A i \in In(active) : Arriving(i) => Changing(i) \/ rows[i].status = "sent"

\* The status of an entry is the row's, or an event is about to change it.
Upcoming(m) == Changing(m.id) \/ m.status = rows[m.id].status

\* The entries of a page are different messages of the open chat.
Distinct(page) == \A j, k \in DOMAIN page : page[j].id = page[k].id => j = k
Tells(page) ==
  \A k \in DOMAIN page : page[k].id # Temp => page[k].id \in In(active) /\ Upcoming(page[k])

\* A page begins at its oldest row.
Begins(page) ==
  page # <<>> /\ page[1].id # Temp /\ \A k \in DOMAIN page : page[k].id # Temp => page[1].id <= page[k].id

\* The rows a page stands for: all of the chat, or those from its first on.
Within(page, cut, i) == cut => page[1].id <= i
Shows(page, i) == \E k \in DOMAIN page : page[k].id = i

\* A page or the channel has every row it stands for; cut says that there may be older ones.
Covers(page, cut) ==
  /\ Distinct(page) /\ Tells(page)
  /\ cut => Begins(page)
  /\ \A i \in In(active) : Within(page, cut, i) => Shows(page, i) \/ Arriving(i)
  /\ \A i \in In(active) : Arriving(i) => Within(page, cut, i)

\* An older page has every row it stands for before those of the list.
CoversBefore(page, cut, before) ==
  /\ Distinct(page) /\ Tells(page)
  /\ \A k \in DOMAIN page : page[k].id # Temp /\ page[k].id < before
  /\ cut => Begins(page)
  /\ \A i \in In(active) : i < before /\ Within(page, cut, i) => Shows(page, i)

Full(page) == Len(page) = PageSize

\* While the load is waited for the channel holds no more than a page.
LoadCovers ==
  \A l \in loads : l.mounted =>
    /\ l.pc = "asked" => Cardinality({k \in DOMAIN feed : feed[k].kind = "INSERT"}) <= PageSize
    /\ l.pc = "answered" => Covers(l.page, Full(l.page))

\* The optimistic message is of the open chat, and once stored on its way.
Optimistic ==
  Shows(list, Temp) =>
    /\ send # None /\ send.chat = active
    /\ send.pc = "stored" => Arriving(send.id) /\ ~Shows(list, send.id)

ListCovers == active # NoChat /\ ~AwaitsPage => joined /\ Covers(list, more) /\ Optimistic

OlderCovers ==
  older # None =>
    /\ more /\ older.before = list[1].id
    /\ older.pc = "answered" => CoversBefore(older.page, Full(older.page), older.before)

WatchInv ==
  /\ BaseInv /\ OfActive
  /\ ~fault => FeedTells /\ LoadCovers /\ ListCovers /\ OlderCovers
===============================================================================
