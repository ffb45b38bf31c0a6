------------------------------- MODULE ChatStore -------------------------------
(***************************************************************************)
(* The chat tables: chats with their two participants, messages and        *)
(* last_read_at, and the calls that write them (get_or_create_direct_chat, *)
(* the INSERT of sendMessage, mark_chat_as_read, mark_messages_delivered). *)
(*                                                                         *)
(* A call is one READ COMMITTED transaction: a statement reads what is     *)
(* committed and its writes show at its commit. now() is the time the      *)
(* transaction began, however late its statements run or commit; of time   *)
(* only the order is kept, so a transaction that leaves no row leaves no   *)
(* trace of its time. chats.updated_at only orders a list and is left out. *)
(* The page calls mark_chat_as_read and mark_messages_delivered for chats  *)
(* of its own user.                                                        *)
(***************************************************************************)
EXTENDS Naturals, FiniteSets

CONSTANTS
  Users,     \* the profiles
  Sessions,  \* database connections serving calls
  MaxChats,  \* bound: rows ever inserted into chats
  MaxTime    \* bound: transactions whose time is kept

ASSUME ChatStoreAssumption == MaxChats \in Nat \ {0} /\ MaxTime \in Nat

VARIABLES
  chats,         \* committed participants of every possible chat, {} before its INSERT
  messages,      \* committed rows; no two have the same created_at
  last_read_at,  \* committed, per chat and user
  call           \* per session: the call in progress

tables == <<chats, messages, last_read_at>>
vars == <<tables, call>>

ChatIds == 1..MaxChats
Pairs == {{p[1], p[2]} : p \in {q \in Users \X Users : q[1] # q[2]}}
Times == 0..MaxTime

Rank == [sent |-> 1, delivered |-> 2, seen |-> 3]
Rows == [chat : ChatIds, sender : Users, created_at : Times \ {0}, status : DOMAIN Rank]

Idle == [pc |-> "idle"]
OpenCalls == [pc : {"open_insert"}, by : Users, pair : Pairs, at : Times]
SendCalls == [pc : {"send_commit"}, by : Users, chat : ChatIds, at : Times \ {0}]
MarkCalls == [pc : {"read_stamp", "read_messages", "read_commit", "delivered", "delivered_commit"},
              by : Users, chat : ChatIds, at : Times, rows : SUBSET Times]
Calls == {Idle} \cup OpenCalls \cup SendCalls \cup MarkCalls

Busy(s) == call[s].pc # "idle"
Others(s) == Sessions \ {s}

\* The messages user u received in chat c, and those of them not yet past a status.
Incoming(c, u) == {m \in messages : m.chat = c /\ m.sender # u}
Below(c, u, status) == {m.created_at : m \in {x \in Incoming(c, u) : Rank[x.status] < Rank[status]}}

\* Row locks: the messages a session has updated, and its own participant row.
Marks(s) == call[s].pc \in {"read_messages", "read_commit", "delivered_commit"}
Holds(t, rows) == Marks(t) /\ call[t].rows \cap rows # {}
Stamped(t, c, u) ==
  call[t].pc \in {"read_messages", "read_commit"} /\ call[t].chat = c /\ call[t].by = u

-------------------------------------------------------------------------------

Goto(s, c) == call' = [call EXCEPT ![s] = c] /\ UNCHANGED tables

\* now() is the first time after everything stamped so far.
Stamps ==
  {0} \cup {m.created_at : m \in messages}
      \cup {last_read_at[c][u] : c \in ChatIds, u \in Users}
      \cup {call[s].at : s \in {t \in Sessions : Busy(t)}}
IsNow(t) == (\A x \in Stamps : x < t) /\ \E x \in Stamps : t = x + 1

\* A transaction begins.
Begin(s, c) == ~Busy(s) /\ Goto(s, c)

DirectChats(p) == {c \in ChatIds : chats[c] = p}

\* Mutant: the existing chat is not looked for.
OpenRead_NoCheck(s, u, p) ==
  \E t \in Times :
     /\ u \in p /\ IsNow(t)
     /\ Begin(s, [pc |-> "open_insert", by |-> u, pair |-> p, at |-> t])

\* A chat that exists is returned and nothing changes.
OpenRead(s, u, p) ==
  \E t \in Times :
     /\ u \in p /\ IsNow(t)
     /\ DirectChats(p) = {}
     /\ Begin(s, [pc |-> "open_insert", by |-> u, pair |-> p, at |-> t])

\* Mutant: only the caller is entered as a participant.
OpenInsert_Alone(s) ==
  \E c \in ChatIds :
     /\ call[s].pc = "open_insert"
     /\ chats[c] = {} /\ \A d \in 1..(c - 1) : chats[d] # {}
     /\ chats' = [chats EXCEPT ![c] = {call[s].by}]
     /\ last_read_at' = [last_read_at EXCEPT ![c][call[s].by] = call[s].at]
     /\ call' = [call EXCEPT ![s] = Idle]
     /\ UNCHANGED messages

\* The chat and its two participants, joined and read at now(); ids are fresh.
OpenInsert(s) ==
  \E c \in ChatIds :
     /\ call[s].pc = "open_insert"
     /\ chats[c] = {} /\ \A d \in 1..(c - 1) : chats[d] # {}
     /\ chats' = [chats EXCEPT ![c] = call[s].pair]
     /\ last_read_at' = [last_read_at EXCEPT
          ![c] = [v \in Users |-> IF v \in call[s].pair THEN call[s].at ELSE 0]]
     /\ call' = [call EXCEPT ![s] = Idle]
     /\ UNCHANGED messages

Send(s, u, c) ==
  \E t \in Times :
     /\ u \in chats[c] /\ IsNow(t)
     /\ Begin(s, [pc |-> "send_commit", by |-> u, chat |-> c, at |-> t])

SendCommit(s) ==
  /\ call[s].pc = "send_commit"
  /\ messages' = messages \cup
       {[chat |-> call[s].chat, sender |-> call[s].by, created_at |-> call[s].at,
         status |-> "sent"]}
  /\ call' = [call EXCEPT ![s] = Idle]
  /\ UNCHANGED <<chats, last_read_at>>

Mark(pc, u, c, t) == [pc |-> pc, by |-> u, chat |-> c, at |-> t, rows |-> {}]

ReadBegin(s, u, c) ==
  \E t \in Times :
     /\ u \in chats[c] /\ IsNow(t)
     /\ Begin(s, Mark("read_stamp", u, c, t))

\* UPDATE chat_participants SET last_read_at = now().
ReadStamp(s) ==
  /\ call[s].pc = "read_stamp"
  /\ ~\E t \in Others(s) : Stamped(t, call[s].chat, call[s].by)
  /\ Goto(s, [call[s] EXCEPT !.pc = "read_messages"])

\* UPDATE messages SET status = 'seen' WHERE status <> 'seen'. A statement that
\* waited for a row tests its condition again on the row it finds.
ReadMessages(s) ==
  LET unseen == Below(call[s].chat, call[s].by, "seen")
  IN  /\ call[s].pc = "read_messages"
      /\ ~\E t \in Others(s) : Holds(t, unseen)
      /\ Goto(s, [call[s] EXCEPT !.pc = "read_commit", !.rows = unseen])

DeliveredBegin(s, u, c) ==        \* its now() is compared with nothing
  /\ u \in chats[c]
  /\ Begin(s, Mark("delivered", u, c, 0))

\* Mutant: UPDATE ... WHERE status = 'sent' without the condition on status.
DeliveredUpdate_AnyStatus(s) ==
  LET incoming == {m.created_at : m \in Incoming(call[s].chat, call[s].by)}
  IN  /\ call[s].pc = "delivered"
      /\ ~\E t \in Others(s) : Holds(t, incoming)
      /\ Goto(s, [call[s] EXCEPT !.pc = "delivered_commit", !.rows = incoming])

DeliveredUpdate(s) ==
  LET sent == Below(call[s].chat, call[s].by, "delivered")
  IN  /\ call[s].pc = "delivered"
      /\ ~\E t \in Others(s) : Holds(t, sent)
      /\ Goto(s, [call[s] EXCEPT !.pc = "delivered_commit", !.rows = sent])

\* Mutant: mark_chat_as_read leaves the participant's last_read_at alone.
MarkCommit_NoStamp(s) ==
  LET status == IF call[s].pc = "read_commit" THEN "seen" ELSE "delivered"
  IN  /\ call[s].pc \in {"read_commit", "delivered_commit"}
      /\ messages' = {IF m.created_at \in call[s].rows THEN [m EXCEPT !.status = status] ELSE m
                        : m \in messages}
      /\ last_read_at' = last_read_at
      /\ call' = [call EXCEPT ![s] = Idle]
      /\ UNCHANGED chats

MarkCommit(s) ==
  LET status == IF call[s].pc = "read_commit" THEN "seen" ELSE "delivered"
  IN  /\ call[s].pc \in {"read_commit", "delivered_commit"}
      /\ messages' = {IF m.created_at \in call[s].rows THEN [m EXCEPT !.status = status] ELSE m
                        : m \in messages}
      /\ last_read_at' = IF call[s].pc = "read_commit"
                         THEN [last_read_at EXCEPT ![call[s].chat][call[s].by] = call[s].at]
                         ELSE last_read_at
      /\ call' = [call EXCEPT ![s] = Idle]
      /\ UNCHANGED chats

Rollback(s) == Busy(s) /\ Goto(s, Idle)

-------------------------------------------------------------------------------

Init ==
  /\ chats = [c \in ChatIds |-> {}]
  /\ messages = {}
  /\ last_read_at = [c \in ChatIds |-> [u \in Users |-> 0]]
  /\ call = [s \in Sessions |-> Idle]

Next ==
  \E s \in Sessions :
     \/ \E u \in Users, p \in Pairs : OpenRead(s, u, p)
     \/ OpenInsert(s)
     \/ \E u \in Users, c \in ChatIds :
           Send(s, u, c) \/ ReadBegin(s, u, c) \/ DeliveredBegin(s, u, c)
     \/ SendCommit(s)
     \/ ReadStamp(s)
     \/ ReadMessages(s)
     \/ DeliveredUpdate(s)
     \/ MarkCommit(s)
     \/ Rollback(s)

Spec == Init /\ [][Next]_vars

\* Calls on one conversation do not overlap.
Topic(s) == IF call[s].pc = "open_insert" THEN call[s].pair ELSE chats[call[s].chat]
Apart == \A s, t \in Sessions : s # t /\ Busy(s) /\ Busy(t) => Topic(s) # Topic(t)

-------------------------------------------------------------------------------
(* Properties.                                                             *)

\* Tables and calls hold values of their types, and created_at names a message.
TypeOK ==
  /\ chats \in [ChatIds -> Pairs \cup {{}}]
  /\ messages \subseteq Rows
  /\ \A m, n \in messages : m.created_at = n.created_at => m = n
  /\ last_read_at \in [ChatIds -> [Users -> Times]]
  /\ call \in [Sessions -> Calls]

\* A message's status only moves from sent over delivered to seen, whatever
\* mark_messages_delivered and mark_chat_as_read of several tabs overlap.
StatusAdvances ==
  [][\A m \in messages : \E n \in messages' :
       n.created_at = m.created_at /\ Rank[m.status] <= Rank[n.status]]_vars

\* Two users have at most one direct chat.
OneDirectChat == \A p \in Pairs : Cardinality(DirectChats(p)) <= 1

Receiver(m) == CHOOSE v \in chats[m.chat] : v # m.sender

\* The unread count of get_user_chats (created after last_read_at) counts
\* exactly the received messages that are not seen.
UnreadIsUnseen ==
  \A m \in messages : m.created_at > last_read_at[m.chat][Receiver(m)] <=> m.status # "seen"

-------------------------------------------------------------------------------
(* The inductive invariant behind StatusAdvances.                          *)

Target(s) == IF call[s].pc = "read_commit" THEN "seen" ELSE "delivered"

\* A time names one message, written or on its way; the rows a call has updated
\* are messages, no other call has updated them, and they are still below the
\* status they are about to get.
StoreInv ==
  /\ TypeOK
  /\ \A s \in Sessions : call[s].pc = "send_commit" =>
       /\ \A m \in messages : m.created_at # call[s].at
       /\ \A t \in Sessions \ {s} : call[t].pc = "send_commit" => call[t].at # call[s].at
  /\ \A s \in Sessions : call[s].pc = "read_stamp" => call[s].rows = {}
  /\ \A s \in Sessions : Marks(s) =>
       /\ \A x \in call[s].rows : \E m \in messages : m.created_at = x
       /\ \A m \in messages : m.created_at \in call[s].rows => Rank[m.status] < Rank[Target(s)]
       /\ \A t \in Sessions \ {s} : ~Holds(t, call[s].rows)
===============================================================================
