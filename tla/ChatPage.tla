------------------------------- MODULE ChatPage -------------------------------
(***************************************************************************)
(* One user's chat page: the conversation it shows, the requests it has in *)
(* flight, the Realtime subscription of the open chat, and the messages    *)
(* table behind them, which the other participants change as well.         *)
(*                                                                         *)
(* A request is asked by the page, served by the database and answered to  *)
(* the page in steps of its own. A message is its row: row i is the i-th   *)
(* committed, ids and created_at are both i, and the optimistic message of *)
(* a send in flight has id Temp. Contents, the sidebar and presence are    *)
(* left out.                                                               *)
(***************************************************************************)
EXTENDS Naturals, FiniteSets, Sequences, SequencesExt

CONSTANTS
  Chats,        \* the user's conversations
  NoChat,       \* no conversation is open
  PageSize,     \* rows per getChatMessages (40 in the code)
  MaxMessages,  \* bound: rows ever inserted
  MaxLoads,     \* bound: loads in flight at once
  MaxEvents,    \* bound: events not handled yet
  MaxAsks       \* bound: calls in flight nobody waits for

ASSUME ChatPageAssumption ==
  NoChat \notin Chats /\ PageSize \in Nat \ {0} /\ MaxMessages \in Nat /\ MaxLoads \in Nat \ {0} /\
  MaxEvents \in Nat /\ MaxEvents >= MaxMessages /\ MaxAsks \in Nat \ {0}

VARIABLES
  rows,    \* the messages table
  active,  \* activeChatId
  list,    \* messages, as shown
  more,    \* hasMoreMessages
  loads,   \* effect 4: loads in flight, mounted unless the user has moved on
  older,   \* handleLoadMore in flight (loadingMore)
  send,    \* handleSendMessage in flight (isSending)
  joined,  \* the Realtime channel of active is joined
  feed,    \* its events not handled yet
  asks     \* mark_chat_as_read and mark_messages_delivered nobody waits for

requests == <<loads, older, send>>
channel == <<joined, feed>>
vars == <<rows, active, list, more, requests, channel, asks>>

Temp == 0
None == [pc |-> "none"]
Rank == [sent |-> 1, delivered |-> 2, seen |-> 3]
Ids == 1..MaxMessages

Row == [chat : Chats, mine : BOOLEAN, status : DOMAIN Rank]
Entry == [id : {Temp} \cup Ids, status : DOMAIN Rank]
Event == [kind : {"INSERT", "UPDATE"}, id : Ids, status : DOMAIN Rank]
Load == [chat : Chats, mounted : BOOLEAN, pc : {"asked", "answered", "marking"},
         page : Seq(Entry)]
Older == {None} \cup [pc : {"asked", "answered"}, chat : Chats, before : Ids \cup {MaxMessages + 1},
                      page : Seq(Entry)]
Sending == {None} \cup [pc : {"asked", "stored"}, chat : Chats, id : {Temp} \cup Ids]

Loading == \E l \in loads : l.mounted
AwaitsPage == \E l \in loads : l.mounted /\ l.pc # "marking"

-------------------------------------------------------------------------------
(* The messages table and what it publishes.                               *)

In(c) == {i \in DOMAIN rows : rows[i].chat = c}
Incoming(c) == {i \in In(c) : ~rows[i].mine}
Outgoing(c) == In(c) \ Incoming(c)

\* UPDATE ... SET status = s, WHERE status = 'sent' or WHERE status <> 'seen'.
Below(ids, s) == {i \in ids : Rank[rows[i].status] < Rank[s]}

Publish(c, kind, ids, s) ==
  /\ feed' = IF joined /\ active = c
             THEN feed \o SetToSeq({[kind |-> kind, id |-> i, status |-> s] : i \in ids})
             ELSE feed
  /\ Len(feed') <= MaxEvents

SetStatus(c, ids, s) ==
  /\ rows' = [i \in DOMAIN rows |-> IF i \in ids THEN [rows[i] EXCEPT !.status = s] ELSE rows[i]]
  /\ Publish(c, "UPDATE", ids, s)

Insert(c, mine) ==
  /\ Len(rows) < MaxMessages
  /\ rows' = Append(rows, [chat |-> c, mine |-> mine, status |-> "sent"])
  /\ Publish(c, "INSERT", {Len(rows) + 1}, "sent")

\* getChatMessages: the latest PageSize rows created before a time, oldest first.
Latest(c, before) ==
  LET earlier == {i \in In(c) : i < before}
  IN  {i \in earlier : Cardinality({j \in earlier : j > i}) < PageSize}
Ascending(S) ==
  CHOOSE ids \in [1..Cardinality(S) -> S] : \A j, k \in DOMAIN ids : j < k => ids[j] < ids[k]
PageOf(c, before) ==
  LET ids == Ascending(Latest(c, before))
  IN  [k \in DOMAIN ids |-> [id |-> ids[k], status |-> rows[ids[k]].status]]

\* The other participant writes a message, or their page marks what they received.
PeerSends(c) == Insert(c, FALSE) /\ UNCHANGED <<active, list, more, requests, joined, asks>>
PeerMarks(c, s) ==
  /\ Below(Outgoing(c), s) # {}
  /\ SetStatus(c, Below(Outgoing(c), s), s)
  /\ UNCHANGED <<active, list, more, requests, joined, asks>>

-------------------------------------------------------------------------------
(* Opening and closing a conversation (effects 4 and 6).                   *)

Ask(c, s) == asks' = asks \cup {[chat |-> c, status |-> s]} /\ Cardinality(asks') <= MaxAsks

Unmounted == {[l EXCEPT !.mounted = FALSE] : l \in loads}

Open(c) ==
  /\ c # active /\ active' = c
  /\ Cardinality(Unmounted) < MaxLoads
  /\ loads' = Unmounted \cup {[chat |-> c, mounted |-> TRUE, pc |-> "asked", page |-> <<>>]}
  /\ joined' = FALSE /\ feed' = <<>>
  /\ Ask(c, "delivered")
  /\ UNCHANGED <<rows, list, more, older, send>>

\* Mutant: the effect's cleanup does not unsubscribe.
Close_Subscribed ==
  /\ active # NoChat /\ active' = NoChat
  /\ loads' = Unmounted
  /\ list' = <<>>
  /\ UNCHANGED <<rows, more, older, send, channel, asks>>

Close ==
  /\ active # NoChat /\ active' = NoChat
  /\ loads' = Unmounted
  /\ list' = <<>>
  /\ joined' = FALSE /\ feed' = <<>>
  /\ UNCHANGED <<rows, more, older, send, asks>>

Replace(l, k) == loads' = (loads \ {l}) \cup {k}

LoadRead(l) ==                    \* what an unmounted load reads never matters
  /\ l.pc = "asked" /\ l.mounted
  /\ Replace(l, [l EXCEPT !.pc = "answered", !.page = PageOf(l.chat, MaxMessages + 1)])
  /\ UNCHANGED <<rows, active, list, more, older, send, channel, asks>>

\* Mutant: isMounted is not asked.
LoadAnswer_Unmounted(l) ==
  /\ l.pc = "answered"
  /\ list' = l.page
  /\ more' = (Len(l.page) = PageSize)
  /\ Replace(l, [l EXCEPT !.pc = "marking", !.page = <<>>])
  /\ UNCHANGED <<rows, active, older, send, channel, asks>>

LoadAnswer(l) ==
  /\ l.pc = "answered" /\ l.mounted
  /\ list' = l.page
  /\ more' = (Len(l.page) = PageSize)
  /\ Replace(l, [l EXCEPT !.pc = "marking", !.page = <<>>])
  /\ UNCHANGED <<rows, active, older, send, channel, asks>>

\* The user has moved on: isMounted is false.
LoadIgnored(l) ==
  /\ l.pc # "marking" /\ ~l.mounted
  /\ loads' = loads \ {l}
  /\ UNCHANGED <<rows, active, list, more, older, send, channel, asks>>

LoadMark(l) ==
  /\ l.pc = "marking"
  /\ SetStatus(l.chat, Below(Incoming(l.chat), "seen"), "seen")
  /\ loads' = loads \ {l}
  /\ UNCHANGED <<active, list, more, older, send, joined, asks>>

\* A rejected request is logged and the list stays as it is.
LoadFail(l) ==
  /\ loads' = loads \ {l}
  /\ UNCHANGED <<rows, active, list, more, older, send, channel, asks>>

-------------------------------------------------------------------------------
(* The Realtime channel.                                                   *)

Join ==
  /\ active # NoChat /\ ~joined
  /\ joined' = TRUE
  /\ UNCHANGED <<rows, active, list, more, requests, feed, asks>>

\* The socket drops; what is published until it has rejoined is not repeated.
Disconnect ==
  /\ joined
  /\ joined' = FALSE
  /\ UNCHANGED <<rows, active, list, more, requests, feed, asks>>

Handled(e) == feed' = Tail(feed) /\ UNCHANGED <<rows, active, more, requests, joined>>

\* Mutant: the check for a message already shown is missing.
NewMessage_Unchecked ==
  LET e == Head(feed)
  IN  /\ feed # <<>> /\ e.kind = "INSERT"
      /\ list' = Append(list, [id |-> e.id, status |-> e.status])
      /\ IF rows[e.id].mine THEN UNCHANGED asks ELSE Ask(active, "seen")
      /\ Handled(e)

\* Mutant: a message that arrives while the chat is open is not marked as read.
NewMessage_Unmarked ==
  LET e == Head(feed)
  IN  /\ feed # <<>> /\ e.kind = "INSERT"
      /\ list' = IF \E k \in DOMAIN list : list[k].id = e.id THEN list
                 ELSE Append(list, [id |-> e.id, status |-> e.status])
      /\ UNCHANGED asks
      /\ Handled(e)

NewMessage ==
  LET e == Head(feed)
  IN  /\ feed # <<>> /\ e.kind = "INSERT"
      /\ list' = IF \E k \in DOMAIN list : list[k].id = e.id THEN list
                 ELSE Append(list, [id |-> e.id, status |-> e.status])
      /\ IF rows[e.id].mine THEN UNCHANGED asks ELSE Ask(active, "seen")
      /\ Handled(e)

\* Mutant: only the last message shown is updated.
MessageUpdated_Last ==
  LET e == Head(feed)
  IN  /\ feed # <<>> /\ e.kind = "UPDATE"
      /\ list' = [k \in DOMAIN list |->
                    IF k = Len(list) /\ list[k].id = e.id THEN [list[k] EXCEPT !.status = e.status]
                    ELSE list[k]]
      /\ UNCHANGED asks
      /\ Handled(e)

MessageUpdated ==
  LET e == Head(feed)
  IN  /\ feed # <<>> /\ e.kind = "UPDATE"
      /\ list' = [k \in DOMAIN list |->
                    IF list[k].id = e.id THEN [list[k] EXCEPT !.status = e.status]
                    ELSE list[k]]
      /\ UNCHANGED asks
      /\ Handled(e)

\* A call whose answer the page does not wait for, and the same call lost.
Serve(a) ==
  /\ SetStatus(a.chat, Below(Incoming(a.chat), a.status), a.status)
  /\ asks' = asks \ {a}
  /\ UNCHANGED <<active, list, more, requests, joined>>

AskLost(a) ==
  /\ asks' = asks \ {a}
  /\ UNCHANGED <<rows, active, list, more, requests, channel>>

-------------------------------------------------------------------------------
(* handleLoadMore and handleSendMessage.                                   *)

OlderAsk ==
  /\ active # NoChat /\ older = None /\ more /\ list # <<>>
  /\ older' = [pc |-> "asked", chat |-> active, page |-> <<>>,
               before |-> IF list[1].id = Temp THEN MaxMessages + 1 ELSE list[1].id]
  /\ UNCHANGED <<rows, active, list, more, loads, send, channel, asks>>

OlderRead ==
  /\ older.pc = "asked"
  /\ older' = [older EXCEPT !.pc = "answered", !.page = PageOf(older.chat, older.before)]
  /\ UNCHANGED <<rows, active, list, more, loads, send, channel, asks>>

OlderAnswer ==
  /\ older.pc = "answered"
  /\ list' = older.page \o list
  /\ more' = (Len(older.page) = PageSize)
  /\ older' = None
  /\ UNCHANGED <<rows, active, loads, send, channel, asks>>

OlderFail ==
  /\ older # None /\ older' = None
  /\ UNCHANGED <<rows, active, list, more, loads, send, channel, asks>>

SendAsk ==
  /\ active # NoChat /\ send = None
  /\ list' = Append(list, [id |-> Temp, status |-> "sent"])
  /\ send' = [pc |-> "asked", chat |-> active, id |-> Temp]
  /\ UNCHANGED <<rows, active, more, loads, older, channel, asks>>

SendStore ==
  /\ send.pc = "asked"
  /\ Insert(send.chat, TRUE)
  /\ send' = [send EXCEPT !.pc = "stored", !.id = Len(rows) + 1]
  /\ UNCHANGED <<active, list, more, loads, older, joined, asks>>

\* Mutant: the answer is shown as delivered at once.
SendAnswer_Delivered ==
  /\ send.pc = "stored"
  /\ list' = [k \in DOMAIN list |->
                IF list[k].id = Temp THEN [id |-> send.id, status |-> "delivered"] ELSE list[k]]
  /\ send' = None
  /\ UNCHANGED <<rows, active, more, loads, older, channel, asks>>

\* The optimistic message becomes the row as it was inserted.
SendAnswer ==
  /\ send.pc = "stored"
  /\ list' = [k \in DOMAIN list |->
                IF list[k].id = Temp THEN [id |-> send.id, status |-> "sent"] ELSE list[k]]
  /\ send' = None
  /\ UNCHANGED <<rows, active, more, loads, older, channel, asks>>

\* The insert fails, or its answer is lost: the optimistic message goes (the list has
\* one at most) and the draft is restored.
SendFail ==
  /\ send # None
  /\ IF \E k \in DOMAIN list : list[k].id = Temp
       THEN \E k \in DOMAIN list : list[k].id = Temp /\ list' = RemoveAt(list, k)
       ELSE UNCHANGED list
  /\ send' = None
  /\ UNCHANGED <<rows, active, more, loads, older, channel, asks>>

-------------------------------------------------------------------------------

Init ==
  /\ rows = <<>> /\ list = <<>> /\ feed = <<>>
  /\ active = NoChat
  /\ more = FALSE /\ joined = FALSE
  /\ loads = {} /\ asks = {}
  /\ older = None /\ send = None

Loads == \E l \in loads : LoadRead(l) \/ LoadAnswer(l) \/ LoadIgnored(l) \/ LoadMark(l)
Delivers == NewMessage \/ MessageUpdated
Serves == \E a \in asks : Serve(a)

Steps ==
  \/ \E c \in Chats : Open(c)
  \/ \E c \in Chats : PeerSends(c)
  \/ \E c \in Chats, s \in {"delivered", "seen"} : PeerMarks(c, s)
  \/ Close
  \/ Loads
  \/ Join
  \/ NewMessage
  \/ MessageUpdated
  \/ Serves
  \/ OlderAsk
  \/ OlderRead
  \/ OlderAnswer
  \/ SendAsk
  \/ SendStore
  \/ SendAnswer
  \/ SendFail

Faults ==
  \/ \E l \in loads : LoadFail(l)
  \/ \E a \in asks : AskLost(a)
  \/ OlderFail
  \/ Disconnect

Next == Steps \/ Faults
Spec == Init /\ [][Next]_vars

\* The orders the page relies on: an older page is not cut off by a switch of
\* chats, a load reads after the channel is joined, a page covers what is
\* published before its read, nothing older is asked for during a load, and
\* events come after the answers of the load, the older page and the send they
\* overlap with.
Orderly ==
  /\ \A l \in loads' : l.mounted /\ l.pc = "answered" => joined'
  /\ AwaitsPage /\ feed' # feed => Cardinality({k \in DOMAIN feed' : feed'[k].kind = "INSERT"}) <= PageSize
  /\ older # None => active' = active
  /\ older = None /\ older' # None => ~Loading
  /\ Len(feed') < Len(feed) /\ active' = active =>
       /\ ~AwaitsPage /\ older.pc # "answered"
       /\ send.pc = "stored" => Head(feed).id # send.id
SpecOrderly == Init /\ [][Next /\ Orderly]_vars

\* The network and the database serve what is asked, Realtime joins and
\* delivers; nothing obliges the users.
Fairness ==
  /\ WF_vars(Loads /\ Orderly) /\ WF_vars(Join /\ Orderly)
  /\ WF_vars(Delivers /\ Orderly) /\ WF_vars(Serves /\ Orderly)
  /\ WF_vars((OlderRead \/ OlderAnswer) /\ Orderly)
  /\ WF_vars((SendStore \/ SendAnswer \/ SendFail) /\ Orderly)

-------------------------------------------------------------------------------
(* Properties.                                                             *)

\* Variables keep their types, and without an open chat no channel is subscribed.
TypeOK ==
  /\ rows \in Seq(Row) /\ Len(rows) <= MaxMessages
  /\ active \in Chats \cup {NoChat} 
  /\ list \in Seq(Entry) /\ more \in BOOLEAN
  /\ loads \subseteq Load /\ older \in Older /\ send \in Sending
  /\ joined \in BOOLEAN /\ feed \in Seq(Event)
  /\ asks \subseteq [chat : Chats, status : {"delivered", "seen"}]
  /\ active = NoChat => ~joined /\ feed = <<>>

Copies(i) == {k \in DOMAIN list : list[k].id = i}

\* The page never shows a status the message has not reached.
NeverAhead ==
  \A k \in DOMAIN list : list[k].id # Temp =>
    /\ list[k].id \in DOMAIN rows
    /\ Rank[list[k].status] <= Rank[rows[list[k].id].status]

\* "Avoid duplicate insertion": no message is shown twice.
NoDuplicates == \A i \in Ids : Cardinality(Copies(i)) <= 1

\* Once loaded, only messages of the open conversation are shown.
OnlyActive ==
  ~Loading /\ active # NoChat =>
    \A k \in DOMAIN list :
      active = IF list[k].id = Temp THEN send.chat ELSE rows[list[k].id].chat

\* When nothing is in flight the page shows the latest messages of the chat with
\* their present status, without a gap, and the button for older ones if any.
Quiet == ~Loading /\ older = None /\ send = None /\ joined /\ feed = <<>>
Complete ==
  Quiet => \E k \in 1..(MaxMessages + 1) :
    /\ {list[j] : j \in DOMAIN list} =
         {[id |-> i, status |-> rows[i].status] : i \in {n \in In(active) : n >= k}}
    /\ more \/ \A i \in In(active) : i >= k

\* A message received in the open conversation is marked as read sooner or later.
ReadWhileOpen ==
  \A c \in Chats, i \in Ids :
    []<>~(active = c /\ i \in Below(Incoming(c), "seen"))
===============================================================================
