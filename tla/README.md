# Card Crew in TLA+

Card Crew lets people share, within a network of trusted friends, which payment cards they hold, and
ask each other to use one. This directory models its state machines in TLA+, model-checks them with
TLC and proves the most important results with TLAPS. Paths below are relative to the repository.

## The system

The browser application (`frontend/src`) talks to Supabase: it calls SQL functions over RPC, reads and
writes a few tables directly under row level security, and receives database changes over a realtime
channel. An older Express/Prisma server (`backend/src`) implements the same contract over its own
repositories. What is hard lies in three places: SQL functions that read, decide and write in separate
statements while other calls run; browser code whose state changes between a call and its answer; and
handlers of the older server that await between a check and the write it is for, without a transaction.

| Component | State | Operations | What makes it correct |
|---|---|---|---|
| Trust graph (`functions.sql` 138-316) | `friend_requests`, `friendships`, `friend_edges`, `user_blocks` | send, accept, decline/cancel, block, unblock, remove | one open request per pair, a block separates, an answer is final, `friend_edges` mirrors `friendships` |
| Card requests (`functions.sql` 447-627) | `resources`, `requests`, `request_events` | create, respond, refer, reveal, edit and delete a card | no contact without approval, no approval without referral, log agrees with rows, one decision |
| Chat store (`chat_and_messages.sql`) | `chats`, `chat_participants`, `messages`, `user_presence` | open a direct chat, send, mark delivered, mark read, list chats | one direct chat per pair, statuses only advance, unread counts lose no message |
| Chat page (`ChatPage.tsx`, `chatService.ts`) | message list, active chat, pagination flags, optimistic messages | load, load older, send, realtime insert and update, switch chat | every message shown once, in the right chat, with its latest status |
| Search and network graph (`functions.sql` 320-442, `20260926` 122-318, `NetworkGraph.tsx`) | none (reads the graph) | search, graph, person's cards; nodes and lines drawn | exactly the holders within reach, nearest path, blocked people hidden, lines that exist |
| People pages (`RequestsPage.tsx`, `MyNetworkPage.tsx`, `HomePage.tsx`) | lists, tiles, graph, search and its rows, one busy slot | load, search, send, accept, decline, cancel, remove, block, unblock | the lists and the buttons settle on what the server holds, nothing stays busy |
| Card handoffs (`RequestsPage.tsx` 425-467, 965-1117) | card requests shown, contacts revealed | refer, answer, reveal | the tab settles on the database |
| Person panel (`MyNetworkPage.tsx` 65-102, `PersonCardsModal.tsx`) | person selected, their cards and profile | select, view cards, clear | cards and profile of the person selected |
| Profiles and session (`20260926` 22-76, `AuthProvider.tsx`, `LoginPage.tsx`, `ProfilePage.tsx`) | `profiles`, session, profile shown, forms | sign in, up and out, sync, save, photo, password | the profile shown is the stored one of who is signed in |
| One's own cards (`apiClient.ts` 109-334, `MyCardsPage.tsx`, `CardModal.tsx`) | `resources` of the user, list, modal | add, edit, delete | no card takes another's place, the list settles on the table |
| Express connections, requests, cards, network (`backend/src`) | Prisma tables or in-memory maps | the same operations over HTTP | one active connection per pair, consent before contact, requests let through as found |
| Rate limits (`middleware/rate-limit.ts`) | an entry per address | admit or refuse | bounded number per window, nobody refused below the limit |
| Presence, catalogue, Express users and shell, navigation | timestamps, static data, wiring | | see Not modelled |

How they interact: requests read the trust graph (edges, blocks) and the cards; search reads the same
three; blocking deletes friendships and friend requests but neither card requests nor chats; the chat
page is driven by the chat store's answers and by realtime events that may overtake them; every other
page reads the tables once, changes them by calls and reads them again, or patches what it shows, and
learns of other people's acts only by the next load.

## Modules

| Module | Models |
|---|---|
| `TrustGraph` | the friendship calls, one SQL statement per step |
| `TrustGraphApart` | the same when calls on one pair do not overlap, and its refinement of `Relationship` |
| `Relationship` | the promise: invitation, friendship or block, each call one step |
| `RequestFlow` | the card request calls, one SQL statement per step, with card and trust changes around them |
| `RequestFlowApart` | the same with a history of whether a call was disturbed, and what holds until then |
| `Disclosure` | the promise: asked, vouched, granted, disclosed, in that order |
| `ChatStore` | the chat tables and the calls that write them, one SQL statement per step |
| `ChatStoreApart` | the same with a history of whether calls on one conversation overlapped, and what holds until then |
| `ChatPage` | the open conversation of one browser: requests in flight, Realtime events, optimistic sends |
| `ChatPageOrderly` | the same when answers and events come in the orders the page relies on, with a history of its faults |
| `NetworkSearch` | the walks over the trust graph and the row level policies on `resources` |
| `Constellation` | the nodes and lines drawn of a network graph |
| `Circle` | the trust graph as one user's client reads and writes it, a call one step |
| `PeoplePage` | what the pages about people share: lists, loads, calls, searches, rows and their buttons |
| `RequestsPage`, `MyNetworkPage`, `HomePage` | those pages, each with its own way to load, patch and search |
| `Handoffs` | the card requests on the requests page |
| `PersonPanel` | picking a person in the constellation, and the panel and modal about them |
| `Account` | the session, the profile and `sync_profile` in its two statements |
| `Cards` | `createCard`, `updateCard`, `deleteCard` step by step, and the page around them |
| `Client` | the pages composed: one is open at a time |
| `Express` | the older server, each action from one await to the next |
| `RateLimit` | the fixed window of the Express middleware, with a clock |
| `MC...` | instances, bounds and history variables for TLC |
| `..._proofs` | the theorems about the module of that name |

`TrustGraph` and `RequestFlow` share the trust graph: the first has its statements, the second takes
each change as one step, which is what a committed transaction is to a reader. `NetworkSearch` reads
the tables of both between such steps. `ChatPage` uses the messages table of `ChatStore` with each call
as one step, because what it is about is the order of answers and events, not of statements; `Circle`
does the same with `TrustGraph`, and `Handoffs` with `RequestFlow`. `Client` composes the pages: one is
open at a time, and its variables are the ones that move; `MCPages` is its instance.

### TrustGraph

A session is a database connection serving one call. A call is one transaction at READ COMMITTED: each
statement is an action that reads the committed tables; what it writes is in `writes[s]` until
`Commit`. `WaitsFor` says for whom a statement waits: the holder of a row, of the primary key of a
friendship or block, or of the partial unique index on open requests of a pair. `DeadlockVictim` is
PostgreSQL's deadlock detector and `Rollback` an aborted connection. Rows of `friend_requests` are
keyed by requester, addressee and a number, and the table maps each possible row to its status. The
trigger `sync_friend_edges` runs inside `Commit`, since nobody sees its writes earlier.

### RequestFlow

A call writes one row and its event, so the uncommitted write of a session is the event its call
carries. `requests` maps each possible row (requester, card, intermediary and number never change) to
its two statuses and `request_events` to its log in commit order. `shared` abstracts visibility,
`request_enabled` and status of a card to who may ask for it. Foreign keys are modelled by their
effect: an INSERT waits for a deletion of its card and fails after it, a deletion waits for whoever has
written a request of the card, and an event of a deleted request fails. The trust graph changes here by
single steps; `TrustGraph` has their statements. The profile a contact belongs to is taken to be
active. The hourly limit refuses some creates; the clock is abstracted, so with `RateLimit` rows it
may go either way.

### ChatStore

`get_or_create_direct_chat`, the INSERT behind `sendMessage`, `mark_chat_as_read` and
`mark_messages_delivered`, statement by statement like `TrustGraph`. What matters here is time:
`created_at` and `last_read_at` are `now()`, the start of the transaction, so a message sent first may
become visible last. Of time only the order is kept: `call[s].at` is a number no other row has, and a
transaction that leaves no row gives its number back. `get_user_chats` counts as unread what is newer
than `last_read_at`; `UnreadIsUnseen` says that this is what the ticks show as not seen, in every chat
and for every participant. The page marks only chats of its own user, and so do the calls here.

### ChatPage

A request is three steps: asked by the page, served by the database, answered to the page. What the
user does in between (switch chats, ask for older messages, send) finds the state as it is. A load
keeps its `mounted` flag, as the effect's closure does; an older page and a send have none in the code
and none here. `feed` holds the Realtime events published and not yet handled; rows that change
while the channel is not joined are never announced. A row is its index, so ids and `created_at` are
one order; the optimistic message has the id `Temp` until the send is answered.

`Next` lets answers and events come in any order, and many properties fail then. `Orderly` names the
orders the page relies on and no code enforces, each of which, dropped, breaks a property in TLC:
- a load reads after the channel is joined (otherwise rows in between are never shown);
- an event waits for the answers of a load or an older page read before it (the answer overwrites it);
- the Realtime INSERT of the own message waits for the answer of the send (it is shown twice otherwise);
- the chat is not switched under an older page, nor an older page asked for during a load;
- a page covers what is published while it is awaited.

Faults are actions: a load, an older page or a call fails, the channel drops. After the first the page
shows the previous conversation's messages, after the last it misses rows; both hold in the code, so
`ChatPageOrderly` remembers them in `fault` and the properties speak of the other behaviours.

### NetworkSearch

Six pieces of SQL walk `friend_edges` on their own: `search_network`, `network_graph`, `get_resource`,
`get_person_cards`, `create_request` and the policies. Each is an operator on the tables, and the
properties say that they agree with one definition of reach (`Walk`) and with each other in every state
the friendship, block and card calls can produce. A policy's subquery is itself under the policies of
the tables it reads; `friend_edges_own` and `blocks_own` are those tables as the caller sees them.
Profiles are active, cards are `active` and never expire: no code sets anything else. One catalogue
item is enough, since no walk compares two, and an owner has one card per item. `Constellation` takes the
graph returned and says which lines `NetworkGraph.tsx` draws: every direct friend on the user, every
other person on the mutual friend the graph names, and the edges between nodes. `DrawnAsRead` says that,
of any graph the database returns, cut off or not, the lines drawn are exactly the edges it was given:
none is missing, and what the drawing adds for nodes that seem to hang loose is a friendship.

### Circle, PeoplePage and the three pages

`Circle` is the server seen by one user: `link[p]` is their relation to p, `ticket[p]` the id of an open
request. Calls are atomic here. A page has loads, calls and searches in flight; a load consists of
several reads, each of which sees the server of its own moment. Since a read commutes with everything but
a change of what it reads, a read is not an action: at each change of the server, `Straddled` chooses
which of the reads in flight came before it, and `Answer` completes the rest. What the pages do with an
answer is taken from each of them:

- the requests page loads everything again after an action, sets tiles and lists one after another
  between awaits, and patches the rows of a search (not after a removal or a block);
- the network page applies a load as a whole or not at all, reads the graph once more, and searches again
  whenever a list has changed;
- the home page never loads its lists again, but for the numbers and the graph, and patches both the rows
  found and its previews.

A handler keeps the graph depth of its click (`depth` of a call). The network page reads the graph once
more at the depth of the time after the load of an answer; the home page does not, so a depth changed
between accepting and the answer is one of the things that make `drift` true.

`Buttons` is `UserListItem`: which calls a row offers, by relation and by the handlers its list passes,
none while the row is busy. The user may click whatever any tab offers. An action fails before or after
the database has served it. `getNetworkStats` reads three tables and never rejects; it is one read here.

### Handoffs and PersonPanel

`Handoffs` has the requests in which the user is owner, intermediary or requester; the buttons follow
from the status last loaded, the database grants or refuses by its own, and the other parties answer
meanwhile. `PersonPanel` has the pointer that presses, drags and releases over nodes, the selection, and
`fetchPersonCards`, two reads awaited together whose answer is not compared with the selection.

### Account

`sync_profile` reads the row and upserts it in two statements, and every sign-in, refresh and save ends in
it. `boot` are the two things that happen at start (`getSession` and the first auth event) in either
order. `SyncDone` sets the profile whoever is signed in by then. The table has no user name: `Handle` is
what is read back. Passwords and pictures are accepted or not. `registered` is what the auth service
knows, so that a sign-up is of somebody new. The profile page may be left and opened again while its calls
are in flight: what they say then goes to a page that is gone, and what they do to the session stays.
`signOut` does not look at the error it is returned: `SignOutFails` takes the profile and leaves the
session, and counts as `crossed`.

### Cards

`createCard` goes through the catalogue (`Fitting`: exact, part, word), the cards owned, the card of that
item, and the write, each a step of its own; the table's unique index on owner and item refuses an
INSERT. Either read may fail, and then counts as owning, or finding, nothing: a name that fits nothing
then takes the first item, owned or not (`raced`), while an insert over an owned item is refused. A save
and a deletion are served and answered in two steps, either of which may fail; a lost answer leaves the
list as it was (`behind`). The page's list, modal and deletion slot end in the order of the answers, and
other tabs add and delete cards.

### Express and RateLimit

A handler of the older server reads, decides, awaits and writes; `calls[s]` holds what it has read. A
connection row keeps `active_pair_key` as `keyed`; `updateStatus` writes whatever the row holds by then,
and `crossed` remembers when that was not the status that was read. `alone` is the call that has met no
other, so that properties about one call can be asked of it. A card is one row per user; every card is of
the item searched for. Users exist and are active. The in-memory repositories behave like Prisma's except
that they have no unique key and give a referred request `pending` instead of `not_required`; the model
is Prisma's. `RateLimit` is the middleware with a clock that ticks at any time.

## Runs

| Run | Shows |
|---|---|
| `TrustGraph_race` | two users, two sessions, all interleavings: types, one open request per pair, mirror, every call ends |
| `TrustGraph_apart` | three users in a star, calls on a pair apart: a block separates, friends have no open request, final answers, refinement of `Relationship` |
| `TrustGraph_block_race` | violation: overlapping calls leave a friendship or request between blocked users |
| `RequestFlow_race` | one card, two sessions, all interleavings: types, audit log, refinement of `Disclosure`; one decision and creation within reach as long as nothing was disturbed |
| `ChatStore_race` | two users, two sessions: types, statuses only advance; one chat per pair and exact unread counts as long as calls on a conversation have not overlapped |
| `ChatPage_orderly` | two conversations, faults: no status ahead of the table, no duplicates, only the open conversation, nothing missed |
| `ChatPage_live` | a message received in the open conversation is marked as read |
| `NetworkSearch_views` | all trust graphs of four users: search, opening, listing, counting, requesting and SELECT agree; what is drawn of a graph, cut off or not, is what it says |
| `Pages_settle` | every page with loads, searches, clicks, faults and other people in any order: lists, rows, handoffs, panel, profile and cards settle on what the database holds, nothing stays busy, no added card takes another's place |
| `Pages_connect` | violation: on the home page nobody found can be asked |
| `Express_race` | two calls on the older server between any two awaits: one active connection per pair, consent before contact, requests let through as found; the limiter's bound |
| `Express_reach` | violation: a pending connection without a mutual friend lets a direct request through |

"As long as nothing overlapped" is a history variable (`disturbed`, `overlapped`, `fault`, `drift`,
`late`, `lagging`, `crossed`, `behind`, `raced`): such a run still explores the overlapping calls and
checks everything else on them, and the variable becomes false again where a fresh load makes it good.

### Known divergences

Three runs show what the code does against what its documentation says; `PROJECT.json` quotes each.
Others were met while modelling and have no run of their own, because the model has them as they are:

- deleting a card deletes its requests and their events (`apiClient.ts:332`), which
  `docs/DATABASE_DESIGN.md:145,215` describes as append-only;
- two overlapping opens make two chats (`chat_and_messages.sql:202`), which `chatService.ts:28` calls
  atomic;
- the Realtime echo of the own message before the answer to the send shows it twice
  (`ChatPage.tsx:170`, "Avoid duplicate insertion");
- the policy `resources_network_read` admits no row (`20260926000001:205`; `MR_DESCRIPTION.md:17`), its
  subquery being filtered by `friend_edges_own`;
- a user name is typed and reported as saved but never sent (`ProfilePage.tsx:394`, `apiClient.ts:585`);
- the older server's search lists a blocked pair at depth two through a mutual friend, and its
  `updateStatus` may write over a block; a request may be answered again after it was answered;
- `docs/API_CONTRACT.md:17` speaks of limits per caller; the middleware counts per address;
- a card whose name fits nothing goes to an item "the user does NOT already have" (`apiClient.ts:181`);
  when the read of the cards owned fails it overwrites the first item's card (`apiClient.ts:187`).

Races without a property of their own: an acceptance that read before a cancellation committed
overwrites it; two overlapping answers to a card request, the second of which wins; a message shown out
of order because the optimistic one already has its place; the intermediary that `create_request` picks
need not be the one the search shows (`LIMIT 1` without an order); a slow answer for the person selected
before fills the panel of the next (`overlapped` excuses it); a profile that arrives resets a form being
typed. Faults without one: a sign-out that fails leaves a session without a profile
(`AuthProvider.tsx:91-94`); a depth chosen before an acceptance is answered shows the graph of the former
one (`HomePage.tsx:244`); a lost answer of a deletion leaves the card in the list
(`MyCardsPage.tsx:189`). The properties of `Pages_settle` name each of these where they except it.

### Bounds

- `MaxRequests`: rows ever inserted. Two in `TrustGraph` race two inserts and follow an answered request
  by another; one in `RequestFlow`, where different requests share nothing but their card. `AliceFirst`
  in `TrustGraph_race` keeps one of two mirror images (symmetry reduction is unsound for liveness).
- `MaxEvents` (`RequestFlow`): four is the shortest log of a referred, approved and revealed request.
- `RateLimit`: small enough to be reached.
- `MaxTime`, `MaxChats` (`ChatStore`): five transactions with a time, two chats, so that one open race
  and a send, read, send sequence fit.
- `MaxMessages`, `PageSize`, `MaxLoads`, `MaxEvents`, `MaxAsks` (`ChatPage`): two messages at one per
  page make older pages necessary; two loads in flight overlap a switch of chats. `OneChatWritten`,
  `PeerSees` and `AfterFault` bound the peer and what happens after a fault.
- `NetworkSearch_views`: four users have a mutual friend to choose, a friend who is a friend of a
  friend, and somebody out of reach; three nodes cut the graph off. `Bounded` allows one card, since
  no view relates two, and two blocks.
- `MCPages`: two people who are friends of each other, so that one can be the other's mutual friend; two
  queries; `MaxInFlight` two loads, calls or searches that overlap; `MaxEvents` two clicks, faults, acts of
  others or pieces of typing (one when the page is just mounted), which settled starting states make
  enough: a page starts in any state of lists and rows that agrees with the server, a search about to be
  asked included. `MaxMoves` three for the handoffs, `MaxGestures` four for the panel, `MaxTries` three
  for the two accounts, `MaxDeeds` two for the cards; three catalogue items, so that a name fits two, or
  none, and one may be free. `Splits` lets at most one read lie on the other side of a change than the
  rest.
- `MCExpress`: in the part `connect` two calls overlap on the connections of one pair, up to three rows
  (`OnePair`); in `ask` every network of three people at rest is an initial state and one card changes
  once (`MaxEdits`) while it is asked for, once (`MaxReqs`); in `limit` two calls of each of two addresses
  are allowed in a window of three ticks, up to time six, so that two windows and the boundary between
  them fit. The parts only divide the initial states of `Spec`; the theorems are about `Spec`.
- Deadlock is not checked in `MCPages` and `MCExpress`, whose behaviours stop where a bound is used up.

### Fairness

`TrustGraph_race`: PostgreSQL serves the waiters of a lock in order, so a call that can proceed again
and again does (strong fairness of its statements), and the deadlock detector always runs (weak
fairness). Nothing forces a call to start. `ChatPage_live`: requests are served and answered, Realtime
joins and delivers (weak fairness of each), no fault happens; nothing forces the user or the peer to
act. The other runs check safety and assume none; `NothingStuck` says of the pages, without fairness, that
whatever is in flight leaves nothing busy when it has ended.

## Proofs

All theorems hold for any users, people, cards, accounts, conversations, sessions and bounds, from the
named assumptions on the constants: the bounds are natural numbers, a model value for "none" is none of
the things it stands beside, a page of messages has at least one, the limiter's window and limit are
positive (`rate-limit.ts` is used with no other), and the users of `NetworkSearch` are finitely many,
since a drawing counts its nodes. A module's invariants are definitions of the module itself or of its
`...Apart` or `...Orderly`.

**Trust graph.** `OneOpenRequest` needs `OpenPairLocked`: while an INSERT of an open request is
uncommitted, its pair has no committed open request and no second INSERT. `EdgesMirror` is inductive with
the types. `ApartInv` says for every program point what the call has read and written, and that it still
holds while calls on the pair stay apart; `ApartBlockSeparates`, `ApartNoOpenRequestBetweenFriends`,
`ApartAnsweredOnce` and the refinement `ApartImplements` follow.

**Card requests.** `FlowInv` says what grounds a call keeps between its read and its commit and which
locks exclude each other; `Audited` and the refinement `Discloses` follow. `WatchInv` says what holds
besides until calls disturb each other: what a create has found of the card, the blocks and the path still
stands, and what is about to be decided is still to be decided. `CreatesInReach` and `DecidesOnce` are
action properties: the step that inserts or decides finds it so.

**Chat tables.** `StoreInv` says that message times are unique, that a marking call holds the rows it
found, and that they are still below the status it will write; `StatusOnlyAdvances` follows. Until calls
on a conversation overlap, `DirectInv` says that a pair without a chat stays without until the call that
found none inserts it (`OneChatApart`), and `ReadInv` that a message on its way is later than every
`last_read_at` of its chat, a reading call later than every message, and that a marking call has reached
every row it had to (`UnreadApart`). The count alone is not inductive: the times are what keeps a message
from being committed behind the mark.

**Chat page.** `BaseInv` holds in any order of answers and events: a page read, an event and an entry
shown carry a status the row has had (`StatusNeverAhead`), and only a send in flight has an optimistic
message, and one. Under the orders `Orderly` names, `WatchInv` adds what the parts in flight make up
together:
- `OfActive`: one load at most is waited for, of the open chat, and an older page only when none is;
- `FeedTells`: the channel holds the newest messages of the chat without a gap, ascending, each insert
  before its updates, and the last update of a message carries its status; so whatever the page lacks at
  the end, the channel still brings;
- `LoadCovers`: an answered load has, with the channel, every message from its first on, and the channel
  has brought no more than a page since;
- `ListCovers`: so has the list, the optimistic message being one whose row is on its way;
- `OlderCovers`: an older page answered has every message from its first on before those of the list, and
  that list still begins where it did when the page was asked for.

`Covers` is what the three have in common. `ShownOnceHolds`, `NoOtherChatShown` and
`LatestShownWithoutGap` follow when nothing is in flight; none is inductive, since an entry is right only
as long as the event that would make it so is still to come.

**Search and drawing.** `GraphInv` (friendships are mutual, irreflexive, never with a blocked user) is the
invariant; `FoundRows` describes the rows of a search without its joins and `Walks` the walks of one or
two steps. `SearchReaches`, `ViewsConcur` and `RequestsConcur` follow. `DrawsEdges` goes by the nodes a
limit keeps (`FirstKept`): with a node all nearer ones are kept, so a node at depth two has its friends
beside it, and a line drawn to one of them is an edge of the graph.

**Pages.** `ClientInv` is the conjunction of an invariant per page (`ClientInvHolds`):
- `BusyInv`: whatever waits is waited for, by a call or by a load of the kind that will free it. With
  `HandoffsInv`, `PanelInv`, `AccountInv` and `CardsInv`, which say the same of their flags,
  `NeverStuck` follows;
- `ListsInv`: unless the lists `drift`, what a page does not show yet is made up for. On the requests page
  and the network page an answer is to come whose load will read everything, or the one load in flight
  has read nothing that has changed since (`Fresh`) and shows it in its stages, or what is shown is what a
  read would return. The home page patches its preview of requests by their ids instead: without the
  requests whose answers are still to come it is the preview of now, which rests on `OwnRequestsKnown` (no
  call that withdraws or makes a request, and no row found, carries the id of an incoming one); its graph,
  when an acceptance is answered, is asked for at the depth of now, or the lists drift. With nothing
  in flight the lists are those of the server (`ListsSettle`);
- `RowsInv`: unless the rows are `late`, they are of the query, or the timer or the one search in flight
  will make them so (`RowsOfQuery`), and every person's row is the one for the link of now or will be. On
  the requests page and the home page a call is about one person, and of the calls in flight no two are
  about the same; while one that was carried out is not answered, the row is not that of now but what the
  answer will make of it is (`RowToCome`, with `AnswersStand`: what the call has done still stands). An
  answer patches whichever row carries its request id, so this rests on `KnownApart`: of all ids a page
  has ever seen, in its lists, rows, loads, searches and calls, no two persons share one. The network page
  patches nothing: what will bring the rows is an answer still to come, a load, the timer, or a search that
  has read nothing old and whose local lists are those of now (`RowsSearchedAgain`, by `ListsInv`). At rest
  the rows follow (`RowsSettle`);
- `HandoffsInv`: as long as the lists do not lag, the tab shows what the database holds, or the only load
  in flight has read it or will, or a call is served whose answer will start a load (`HandoffsSettle`);
- `PanelInv`: unless fetches have overlapped, the one in flight is of the person selected, or the panel
  shows theirs (`PanelOfSelected`);
- `AccountInv`: who may be signed in at each moment of the start, and who has a row; unless writing calls of
  `sync_profile` have overlapped or failed, or a sign-out has, one in flight is of who is signed in and what it has read is
  what is stored, and without one in flight the profile shown is the row (`ProfileMatchesSession`);
- `CardsInv`: unless the list is `behind`, it shows the table or a load that will is in flight or to come;
  unless calls have `raced` or the read of the cards owned has failed, the item a save has chosen still fits its name, is free, or there is no other
  (`CardsSettle`, and the action property `AddsBesides`).

**Express.** `KeyInv` says that no two rows of a pair hold its key and that, unless statuses have crossed,
every active row holds it; `OneActive` follows. `ConsentInv` says that an approved request was consented
to and an approved referral vouched for, that an answer in flight on a request with an intermediary rests
on their vouching, and a reveal in flight on the consent; `Consented` follows. `RateInv` says that an
entry counts exactly what was let through since its window began, and that the window's length before
that held no more than the limit; a stretch of that length then meets two windows at most and holds no
more than twice the limit (`LimitKept`). `AskInv` says that for the call alone on the server what it has
read (the card, the connection, the friends left to try, the intermediary found) still stands, and that
nobody is connected to themselves; with `KeyInv` the action property `AsksAsFound` follows.

Only model-checked: the liveness properties `CallsEnd` and `ReadWhileOpen` (out of the prover's reach).
Every other property of the passing runs is a theorem for all values of the constants. The finite
instances check the theorems' properties too, and TLC has checked `WatchInv` of the chat page with two
conversations at one message a page and with one at two a page.

## Not modelled

- Message texts, notes, names, avatars, wording and layout; the order of lists shown; the force layout,
  zoom and colours of the graph.
- Filters that narrow a list already on the screen (tabs, relationship, catalogue), and the catalogue
  and its seed, which are data.
- Presence: each call overwrites one timestamp or set.
- Express users, token verification, storage policies, start-up and error mapping: users exist and are
  who they say they are.
- The clock behind the hourly limits of the SQL functions: a count of overlapping calls may exceed them.
- Development tools kept in the repository (`.squad`, `.github/prompts`), which are no part of the program.

`PROJECT.json` lists every component with its status, and every hazard with the properties that cover it.

## Plan

1. Proofs: `ImplementsRelationship` for `Express` while its statuses have not crossed.
2. The hourly limits of the SQL functions with the clock of `RateLimit`.
3. The sidebar of the chat page and its unread counts, composed with `ChatStore`.
