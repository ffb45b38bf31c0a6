--------------------------- MODULE ChatStore_proofs ---------------------------
(***************************************************************************)
(* Theorems about ChatStore, for any users, sessions and bounds.           *)
(***************************************************************************)
EXTENDS ChatStoreApart, FiniteSetTheorems, TLAPS

-------------------------------------------------------------------------------
(* What a session is doing, by its program counter.                        *)

LEMMA CallKinds ==
  ASSUME TypeOK, NEW s \in Sessions
  PROVE  /\ call[s] \in Calls
         /\ call[s].pc = "open_insert" => call[s] \in OpenCalls
         /\ call[s].pc = "send_commit" => call[s] \in SendCalls
         /\ call[s].pc \in {"read_stamp", "read_messages", "read_commit",
                            "delivered", "delivered_commit"} => call[s] \in MarkCalls
<1>1. call[s] \in Calls
  BY DEF TypeOK
<1> QED
  BY <1>1 DEF Calls, Idle, OpenCalls, SendCalls, MarkCalls

\* now() is later than every message and every call under way.
LEMMA NowIsNew ==
  ASSUME NEW t \in Times, IsNow(t)
  PROVE  /\ t \in Times \ {0}
         /\ \A m \in messages : m.created_at < t
         /\ \A s \in Sessions : Busy(s) => call[s].at < t
<1>1. 0 \in Stamps
  BY DEF Stamps
<1>2. \A m \in messages : m.created_at \in Stamps
  BY DEF Stamps
<1>3. \A s \in Sessions : Busy(s) => call[s].at \in Stamps
  BY DEF Stamps
<1> QED
  BY <1>1, <1>2, <1>3 DEF IsNow

\* A step that only moves a session keeps the invariant if the session's next
\* program point does.
LEMMA InvGoto ==
  ASSUME StoreInv, NEW s \in Sessions, NEW c \in Calls, Goto(s, c),
         c.pc = "send_commit" =>
           /\ \A m \in messages : m.created_at # c.at
           /\ \A t \in Others(s) : call[t].pc = "send_commit" => call[t].at # c.at,
         c.pc = "read_stamp" => c.rows = {},
         c.pc \in {"read_messages", "read_commit", "delivered_commit"} =>
           /\ \A x \in c.rows : \E m \in messages : m.created_at = x
           /\ \A m \in messages : m.created_at \in c.rows =>
                Rank[m.status] < Rank[IF c.pc = "read_commit" THEN "seen" ELSE "delivered"]
           /\ \A t \in Others(s) : ~Holds(t, c.rows)
  PROVE  StoreInv'
<1>1. TypeOK'
  BY DEF StoreInv, TypeOK, Goto, tables
<1>2. call'[s] = c /\ \A t \in Others(s) : call'[t] = call[t]
  BY DEF StoreInv, TypeOK, Goto, Others
<1>3. UNCHANGED messages
  BY DEF Goto, tables
<1>4. ASSUME NEW p \in Sessions, call'[p].pc = "send_commit"
      PROVE  /\ \A m \in messages' : m.created_at # call'[p].at
             /\ \A t \in Sessions \ {p} : call'[t].pc = "send_commit" => call'[t].at # call'[p].at
  BY <1>2, <1>3, <1>4 DEF StoreInv, Others
<1>5. ASSUME NEW p \in Sessions, Marks(p)'
      PROVE  /\ \A x \in call'[p].rows : \E m \in messages' : m.created_at = x
             /\ \A m \in messages' : m.created_at \in call'[p].rows => Rank[m.status] < Rank[Target(p)']
  BY <1>2, <1>3, <1>5 DEF StoreInv, Others, Marks, Target
<1>6. ASSUME NEW p \in Sessions, call'[p].pc = "read_stamp"
      PROVE  call'[p].rows = {}
  BY <1>2, <1>6 DEF StoreInv, Others
<1>7. ASSUME NEW p \in Sessions, Marks(p)', NEW t \in Sessions \ {p}
      PROVE  ~Holds(t, call[p].rows)'
  BY <1>2, <1>7 DEF StoreInv, Others, Marks, Holds
<1> QED
  BY <1>1, <1>4, <1>5, <1>6, <1>7 DEF StoreInv

\* The insertion of get_or_create_direct_chat.
LEMMA InvOpenInsert ==
  ASSUME StoreInv, NEW s \in Sessions, OpenInsert(s)
  PROVE  StoreInv'
<1>1. PICK c \in ChatIds :
        /\ chats' = [chats EXCEPT ![c] = call[s].pair]
        /\ last_read_at' = [last_read_at EXCEPT
             ![c] = [v \in Users |-> IF v \in call[s].pair THEN call[s].at ELSE 0]]
  BY DEF OpenInsert
<1>2. call' = [call EXCEPT ![s] = Idle] /\ UNCHANGED messages /\ call[s].pc = "open_insert"
  BY DEF OpenInsert
<1>3. TypeOK'
  <2>1. call[s] \in OpenCalls
    BY <1>2, CallKinds DEF StoreInv
  <2>2. call[s].pair \in Pairs /\ call[s].at \in Times
    BY <2>1 DEF OpenCalls
  <2>3. chats' \in [ChatIds -> Pairs \cup {{}}]
    BY <1>1, <2>2 DEF StoreInv, TypeOK
  <2>4. [v \in Users |-> IF v \in call[s].pair THEN call[s].at ELSE 0] \in [Users -> Times]
    BY <2>2, ChatStoreAssumption DEF Times
  <2>5. last_read_at' \in [ChatIds -> [Users -> Times]]
    BY <1>1, <2>4 DEF StoreInv, TypeOK
  <2>6. call' \in [Sessions -> Calls]
    BY <1>2 DEF StoreInv, TypeOK, Calls
  <2> QED
    BY <1>2, <2>3, <2>5, <2>6 DEF StoreInv, TypeOK
<1>4. call'[s] = Idle /\ \A t \in Sessions \ {s} : call'[t] = call[t]
  BY <1>2 DEF StoreInv, TypeOK
<1> QED
  BY <1>2, <1>3, <1>4 DEF StoreInv, Marks, Holds, Target, Idle

\* The commit of a message: its time names no other message, and no call has
\* updated it yet.
LEMMA InvSendCommit ==
  ASSUME StoreInv, NEW s \in Sessions, SendCommit(s)
  PROVE  StoreInv'
<1> DEFINE new == [chat |-> call[s].chat, sender |-> call[s].by, created_at |-> call[s].at,
                   status |-> "sent"]
<1>1. call[s] \in SendCalls
  BY CallKinds DEF StoreInv, SendCommit
<1>2. new \in Rows
  BY <1>1 DEF SendCalls, Rows, Rank
<1>3. /\ call[s].pc = "send_commit" /\ messages' = messages \cup {new}
      /\ call' = [call EXCEPT ![s] = Idle] /\ UNCHANGED <<chats, last_read_at>>
  BY DEF SendCommit
<1>4. call'[s] = Idle /\ \A t \in Sessions \ {s} : call'[t] = call[t]
  BY <1>3 DEF StoreInv, TypeOK
<1>5. \A m \in messages : m.created_at # new.created_at
  BY <1>3 DEF StoreInv
<1> HIDE DEF new
<1>6. TypeOK'
  BY <1>2, <1>3, <1>5 DEF StoreInv, TypeOK, Calls
<1>7. ASSUME NEW p \in Sessions, call'[p].pc = "send_commit"
      PROVE  /\ \A m \in messages' : m.created_at # call'[p].at
             /\ \A t \in Sessions \ {p} : call'[t].pc = "send_commit" => call'[t].at # call'[p].at
  <2>1. p # s /\ call'[p] = call[p]
    BY <1>4, <1>7 DEF Idle
  <2>2. new.created_at # call[p].at
    BY <1>3, <1>7, <2>1 DEF StoreInv, new
  <2> QED
    BY <1>3, <1>4, <1>7, <2>1, <2>2 DEF StoreInv, Idle
<1>8. ASSUME NEW p \in Sessions, Marks(p)'
      PROVE  /\ \A x \in call'[p].rows : \E m \in messages' : m.created_at = x
             /\ \A m \in messages' : m.created_at \in call'[p].rows => Rank[m.status] < Rank[Target(p)']
             /\ \A t \in Sessions \ {p} : ~Holds(t, call[p].rows)'
  <2>1. Marks(p) /\ call'[p] = call[p]
    BY <1>4, <1>8 DEF Idle, Marks
  <2>2. new.created_at \notin call[p].rows
    BY <1>5, <2>1 DEF StoreInv
  <2>3. Target(p)' = Target(p)
    BY <2>1 DEF Target
  <2>4. \A t \in Sessions \ {p} : ~Holds(t, call[p].rows)'
    BY <1>4, <2>1 DEF StoreInv, Holds, Marks, Idle
  <2> QED
    BY <1>3, <2>1, <2>2, <2>3, <2>4 DEF StoreInv
<1>9. ASSUME NEW p \in Sessions, call'[p].pc = "read_stamp"
      PROVE  call'[p].rows = {}
  BY <1>4, <1>9 DEF StoreInv, Idle
<1> QED
  BY <1>6, <1>7, <1>8, <1>9 DEF StoreInv

\* The commit of mark_chat_as_read or mark_messages_delivered: the rows it
\* changes are those it updated, which no other call has.
LEMMA InvMarkCommit ==
  ASSUME StoreInv, NEW s \in Sessions, MarkCommit(s)
  PROVE  /\ StoreInv'
         /\ \A m \in messages : \E n \in messages' :
              n.created_at = m.created_at /\ Rank[m.status] <= Rank[n.status]
<1> DEFINE marked(m) == IF m.created_at \in call[s].rows THEN [m EXCEPT !.status = Target(s)] ELSE m
<1>1. call[s] \in MarkCalls
  BY CallKinds DEF StoreInv, MarkCommit
<1>2. /\ call[s].pc \in {"read_commit", "delivered_commit"}
      /\ messages' = {marked(m) : m \in messages}
      /\ call' = [call EXCEPT ![s] = Idle] /\ UNCHANGED chats
  BY DEF MarkCommit, Target
<1>3. last_read_at' \in [ChatIds -> [Users -> Times]]
  <2>1. call[s].at \in Times /\ call[s].chat \in ChatIds /\ call[s].by \in Users
    BY <1>1 DEF MarkCalls
  <2>2. \/ last_read_at' = [last_read_at EXCEPT ![call[s].chat][call[s].by] = call[s].at]
        \/ last_read_at' = last_read_at
    BY DEF MarkCommit
  <2>3. last_read_at \in [ChatIds -> [Users -> Times]]
    BY DEF StoreInv, TypeOK
  <2> QED
    BY <2>1, <2>2, <2>3
<1>4. ASSUME NEW m \in messages
      PROVE  /\ marked(m) \in Rows /\ marked(m).created_at = m.created_at
             /\ m.created_at \notin call[s].rows => marked(m) = m
             /\ Rank[m.status] <= Rank[marked(m).status]
  <2>1. m \in Rows /\ Target(s) \in DOMAIN Rank
    BY DEF StoreInv, TypeOK, Target, Rank
  <2>2. ASSUME m.created_at \in call[s].rows
        PROVE  Rank[m.status] < Rank[Target(s)]
    BY <1>2, <2>2 DEF StoreInv, Marks
  <2> QED
    BY <2>1, <2>2 DEF Rows, Rank
<1>5. call'[s] = Idle /\ \A t \in Sessions \ {s} : call'[t] = call[t]
  BY <1>2 DEF StoreInv, TypeOK
<1> HIDE DEF marked
<1>6. TypeOK'
  <2>1. messages' \subseteq Rows
    BY <1>2, <1>4
  <2>2. \A m, n \in messages' : m.created_at = n.created_at => m = n
    BY <1>2, <1>4 DEF StoreInv, TypeOK
  <2>3. call' \in [Sessions -> Calls]
    BY <1>2 DEF StoreInv, TypeOK, Calls
  <2> QED
    BY <1>2, <1>3, <2>1, <2>2, <2>3 DEF StoreInv, TypeOK
<1>7. ASSUME NEW p \in Sessions, call'[p].pc = "send_commit"
      PROVE  /\ \A m \in messages' : m.created_at # call'[p].at
             /\ \A t \in Sessions \ {p} : call'[t].pc = "send_commit" => call'[t].at # call'[p].at
  BY <1>2, <1>4, <1>5, <1>7 DEF StoreInv, Idle
<1>8. ASSUME NEW p \in Sessions, Marks(p)'
      PROVE  /\ \A x \in call'[p].rows : \E m \in messages' : m.created_at = x
             /\ \A m \in messages' : m.created_at \in call'[p].rows => Rank[m.status] < Rank[Target(p)']
             /\ \A t \in Sessions \ {p} : ~Holds(t, call[p].rows)'
  <2>1. Marks(p) /\ call'[p] = call[p] /\ p # s
    BY <1>5, <1>8 DEF Idle, Marks
  <2>2. Target(p)' = Target(p)
    BY <2>1 DEF Target
  <2>3. call[p].rows \cap call[s].rows = {}
    BY <1>2, <2>1 DEF StoreInv, Holds, Marks
  <2>4. \A t \in Sessions \ {p} : ~Holds(t, call[p].rows)'
    BY <1>5, <2>1 DEF StoreInv, Holds, Marks, Idle
  <2>5. \A x \in call'[p].rows : \E m \in messages' : m.created_at = x
    BY <1>2, <1>4, <2>1 DEF StoreInv
  <2>6. \A m \in messages' : m.created_at \in call'[p].rows => Rank[m.status] < Rank[Target(p)']
    BY <1>2, <1>4, <2>1, <2>2, <2>3 DEF StoreInv
  <2> QED
    BY <2>4, <2>5, <2>6
<1>9. \A m \in messages : \E n \in messages' :
        n.created_at = m.created_at /\ Rank[m.status] <= Rank[n.status]
  BY <1>2, <1>4
<1>10. ASSUME NEW p \in Sessions, call'[p].pc = "read_stamp"
      PROVE  call'[p].rows = {}
  BY <1>5, <1>10 DEF StoreInv, Idle
<1> QED
  BY <1>6, <1>7, <1>8, <1>9, <1>10 DEF StoreInv

-------------------------------------------------------------------------------
(* Every step keeps the invariant, and only MarkCommit changes a message.  *)

\* StoreInv is inductive.
LEMMA InvNext ==
  ASSUME StoreInv, [Next]_vars
  PROVE  StoreInv'
<1>1. ASSUME UNCHANGED vars
      PROVE  StoreInv'
  BY <1>1 DEF StoreInv, TypeOK, vars, tables, Marks, Holds, Target
<1>2. ASSUME NEW s \in Sessions, NEW u \in Users, NEW p \in Pairs, OpenRead(s, u, p)
      PROVE  StoreInv'
  <2>1. PICK t \in Times : Goto(s, [pc |-> "open_insert", by |-> u, pair |-> p, at |-> t])
    BY <1>2 DEF OpenRead, Begin
  <2>2. [pc |-> "open_insert", by |-> u, pair |-> p, at |-> t] \in Calls
    BY DEF Calls, OpenCalls
  <2> QED
    BY <2>1, <2>2, InvGoto
<1>3. ASSUME NEW s \in Sessions, NEW u \in Users, NEW c \in ChatIds, Send(s, u, c)
      PROVE  StoreInv'
  <2> DEFINE k(t) == [pc |-> "send_commit", by |-> u, chat |-> c, at |-> t]
  <2>1. PICK t \in Times : IsNow(t) /\ Goto(s, k(t))
    BY <1>3 DEF Send, Begin
  <2>2. /\ t \in Times \ {0} /\ \A m \in messages : m.created_at < t
        /\ \A r \in Sessions : Busy(r) => call[r].at < t
    BY <2>1, NowIsNew
  <2>3. k(t) \in Calls
    BY <2>2 DEF Calls, SendCalls
  <2>4. \A m \in messages : m.created_at # t
    BY <2>2 DEF Times, StoreInv, TypeOK, Rows
  <2>5. \A r \in Others(s) : call[r].pc = "send_commit" => call[r].at # t
    BY <2>2, CallKinds DEF Others, Busy, StoreInv, SendCalls, Times
  <2> QED
    BY <2>1, <2>3, <2>4, <2>5, InvGoto
<1>4. ASSUME NEW s \in Sessions, NEW u \in Users, NEW c \in ChatIds,
             ReadBegin(s, u, c) \/ DeliveredBegin(s, u, c)
      PROVE  StoreInv'
  <2>1. PICK k \in MarkCalls : Goto(s, k) /\ k.rows = {} /\ k.pc \in {"read_stamp", "delivered"}
    <3>1. \A t \in Times : /\ Mark("read_stamp", u, c, t) \in MarkCalls
                           /\ Mark("delivered", u, c, 0) \in MarkCalls
      BY ChatStoreAssumption DEF Mark, MarkCalls, Times
    <3>2. 0 \in Times
      BY ChatStoreAssumption DEF Times
    <3> QED
      BY <1>4, <3>1, <3>2 DEF ReadBegin, DeliveredBegin, Begin, Mark
  <2> QED
    BY <2>1, InvGoto DEF Calls
<1>5. ASSUME NEW s \in Sessions, ReadStamp(s)
      PROVE  StoreInv'
  <2>1. PICK k \in MarkCalls : k.pc = "read_messages" /\ k.rows = {} /\ Goto(s, k)
    <3>1. call[s] \in MarkCalls /\ call[s].rows = {}
      BY <1>5, CallKinds DEF ReadStamp, StoreInv
    <3>2. [call[s] EXCEPT !.pc = "read_messages"] \in MarkCalls
      BY <3>1 DEF MarkCalls
    <3> QED
      BY <1>5, <3>1, <3>2 DEF ReadStamp, MarkCalls
  <2> QED
    BY <2>1, InvGoto DEF Calls, Holds
<1>6. ASSUME NEW s \in Sessions, ReadMessages(s) \/ DeliveredUpdate(s)
      PROVE  StoreInv'
  <2>1. PICK status \in {"seen", "delivered"}, pc \in {"read_commit", "delivered_commit"} :
          LET rows == Below(call[s].chat, call[s].by, status)
          IN  /\ ~\E t \in Others(s) : Holds(t, rows)
              /\ Goto(s, [call[s] EXCEPT !.pc = pc, !.rows = rows])
              /\ status = IF pc = "read_commit" THEN "seen" ELSE "delivered"
    BY <1>6 DEF ReadMessages, DeliveredUpdate
  <2> DEFINE rows == Below(call[s].chat, call[s].by, status)
             k == [call[s] EXCEPT !.pc = pc, !.rows = rows]
  <2>2. call[s] \in MarkCalls
    BY <1>6, CallKinds DEF ReadMessages, DeliveredUpdate, StoreInv
  <2>3. \A x \in rows : \E m \in messages : m.created_at = x /\ Rank[m.status] < Rank[status]
    BY DEF Below, Incoming
  <2>4. rows \subseteq Times
    BY <2>3 DEF StoreInv, TypeOK, Rows
  <2>5. \A m \in messages : m.created_at \in rows => Rank[m.status] < Rank[status]
    BY <2>3 DEF StoreInv, TypeOK
  <2> HIDE DEF rows
  <2>6. k \in MarkCalls /\ k.pc = pc /\ k.rows = rows
    BY <2>2, <2>4 DEF MarkCalls
  <2>7. Goto(s, k) /\ \A t \in Others(s) : ~Holds(t, rows)
    BY <2>1 DEF rows
  <2> HIDE DEF k
  <2> QED
    BY <2>1, <2>3, <2>5, <2>6, <2>7, InvGoto DEF Calls
<1>7. ASSUME NEW s \in Sessions, Rollback(s)
      PROVE  StoreInv'
  BY <1>7, InvGoto DEF Rollback, Calls, Idle
<1> QED
  BY <1>1, <1>2, <1>3, <1>4, <1>5, <1>6, <1>7, InvOpenInsert, InvSendCommit, InvMarkCommit DEF Next

\* StoreInv holds of every reachable state.
LEMMA Invariance == Spec => []StoreInv
<1>1. Init => StoreInv
  BY ChatStoreAssumption DEF Init, StoreInv, TypeOK, Calls, Idle, Times, Marks, Holds
<1> QED
  BY <1>1, InvNext, PTL DEF Spec

\* The chat tables and the calls on them hold values of their types, and no two
\* messages have the same time.
THEOREM TypeCorrect == Spec => []TypeOK
<1>1. StoreInv => TypeOK
  BY DEF StoreInv
<1> QED
  BY <1>1, Invariance, PTL

\* A message's status never goes back, whatever mark_messages_delivered and
\* mark_chat_as_read of any number of tabs overlap.
THEOREM StatusOnlyAdvances == Spec => StatusAdvances
<1> DEFINE Advances == \A m \in messages : \E n \in messages' :
                         n.created_at = m.created_at /\ Rank[m.status] <= Rank[n.status]
<1>1. ASSUME StoreInv, [Next]_vars
      PROVE  [Advances]_vars
  <2>1. \A m \in messages : Rank[m.status] <= Rank[m.status]
    BY <1>1 DEF StoreInv, TypeOK, Rows, Rank
  <2>2. ASSUME messages \subseteq messages'
        PROVE  Advances
    BY <2>1, <2>2
  <2>3. messages \subseteq messages' \/ \E s \in Sessions : MarkCommit(s) \/ UNCHANGED vars
    BY <1>1 DEF Next, vars, tables, OpenRead, OpenInsert, Send, SendCommit, ReadBegin, ReadStamp,
       ReadMessages, DeliveredBegin, DeliveredUpdate, Rollback, Begin, Goto
  <2> QED
    BY <1>1, <2>2, <2>3, InvMarkCommit
<1> QED
  BY <1>1, Invariance, PTL DEF Spec, StatusAdvances

-------------------------------------------------------------------------------
(* Calls that do not overlap on one conversation.                          *)

\* Of a pair, the member that is not u.
LEMMA OtherOfPair ==
  ASSUME NEW p \in Pairs, NEW u \in p, NEW v, v = CHOOSE w \in p : w # u
  PROVE  v \in Users /\ v # u /\ p = {u, v}
<1>1. PICK a \in Users, b \in Users : a # b /\ p = {a, b}
  BY DEF Pairs
<1>2. \E w \in p : w # u
  BY <1>1
<1>3. v \in p /\ v # u
  BY <1>2
<1> QED
  BY <1>1, <1>3

\* A step that only moves a session keeps the invariant if the session's next
\* program point does.
LEMMA ApartGoto ==
  ASSUME StoreInv, DirectInv, ReadInv, NEW s \in Sessions, NEW c \in Calls, Goto(s, c),
         c.pc # "idle" => IF c.pc = "open_insert" THEN DirectChats(c.pair) = {} ELSE c.by \in chats[c.chat],
         c.pc = "send_commit" => \A u \in Users : last_read_at[c.chat][u] < c.at,
         c.pc \in {"read_stamp", "read_messages", "read_commit"} =>
           \A m \in messages : m.chat = c.chat => m.created_at < c.at,
         c.pc \in {"read_commit", "delivered_commit"} =>
           c.rows = Below(c.chat, c.by, IF c.pc = "read_commit" THEN "seen" ELSE "delivered")
  PROVE  DirectInv' /\ ReadInv'
<1>1. call'[s] = c /\ \A t \in Sessions \ {s} : call'[t] = call[t]
  BY DEF StoreInv, TypeOK, Goto
<1>2. UNCHANGED <<chats, messages, last_read_at>>
  BY DEF Goto, tables
<1>3. DirectInv'
  BY <1>1, <1>2 DEF DirectInv, Busy, DirectChats
<1>4. UnreadIsUnseen'
  BY <1>2 DEF ReadInv, UnreadIsUnseen, Receiver
<1> QED
  BY <1>1, <1>2, <1>3, <1>4 DEF ReadInv, Below, Incoming, Target

\* get_or_create_direct_chat inserts the only chat of its pair: no other call is
\* about to.
LEMMA ApartOpenInsert ==
  ASSUME StoreInv, Apart, DirectInv, ReadInv, NEW s \in Sessions, OpenInsert(s)
  PROVE  DirectInv' /\ ReadInv'
<1>1. PICK c \in ChatIds :
        /\ call[s].pc = "open_insert" /\ chats[c] = {}
        /\ chats' = [chats EXCEPT ![c] = call[s].pair]
        /\ last_read_at' = [last_read_at EXCEPT
             ![c] = [v \in Users |-> IF v \in call[s].pair THEN call[s].at ELSE 0]]
        /\ call' = [call EXCEPT ![s] = Idle] /\ UNCHANGED messages
  BY DEF OpenInsert
<1>2. call[s] \in OpenCalls /\ call[s].pair \in Pairs
  BY <1>1, CallKinds DEF StoreInv, OpenCalls
<1>3. call'[s] = Idle /\ \A t \in Sessions \ {s} : call'[t] = call[t]
  BY <1>1 DEF StoreInv, TypeOK
<1>4. /\ chats'[c] = call[s].pair /\ \A d \in ChatIds \ {c} : chats'[d] = chats[d]
      /\ \A d \in ChatIds \ {c} : last_read_at'[d] = last_read_at[d]
  BY <1>1 DEF StoreInv, TypeOK
<1>5. \A d \in ChatIds : chats[d] # call[s].pair
  BY <1>1 DEF DirectInv, Busy, DirectChats
<1>6. \A m \in messages : m.chat \in ChatIds \ {c}
  BY <1>1 DEF DirectInv, StoreInv, TypeOK, Rows
<1>7. ASSUME NEW t \in Sessions, Busy(t)'
      PROVE  /\ t # s /\ call'[t] = call[t] /\ Busy(t)
             /\ call[t].pc = "open_insert" => DirectChats(call[t].pair)' = {}
             /\ call[t].pc # "open_insert" => call[t].chat \in ChatIds \ {c}
  <2>1. t # s /\ call'[t] = call[t] /\ Busy(t)
    BY <1>3, <1>7 DEF Busy, Idle
  <2>2. ASSUME call[t].pc = "open_insert"
        PROVE  DirectChats(call[t].pair)' = {}
    <3>1. call[t].pair # call[s].pair
      BY <1>1, <2>1, <2>2 DEF Apart, Busy, Topic
    <3>2. \A d \in ChatIds : chats[d] # call[t].pair
      BY <2>1, <2>2 DEF DirectInv, DirectChats
    <3> QED
      BY <1>4, <2>1, <3>1, <3>2 DEF DirectChats
  <2>3. ASSUME call[t].pc # "open_insert"
        PROVE  call[t].chat \in ChatIds \ {c}
    <3>1. call[t].by \in chats[call[t].chat]
      BY <2>1, <2>3 DEF DirectInv
    <3>2. call[t].chat \in ChatIds
      BY <2>1, <2>3 DEF StoreInv, TypeOK, Calls, Busy, Idle, OpenCalls, SendCalls, MarkCalls
    <3> QED
      BY <1>1, <3>1, <3>2
  <2> QED
    BY <2>1, <2>2, <2>3
<1>8. DirectInv'
  <2>1. \A d, e \in ChatIds : chats'[d] # {} /\ chats'[d] = chats'[e] => d = e
    BY <1>4, <1>5 DEF DirectInv
  <2>2. \A m \in messages' : m.sender \in chats'[m.chat]
    BY <1>1, <1>4, <1>6 DEF DirectInv
  <2>3. ASSUME NEW t \in Sessions, Busy(t)'
        PROVE  IF call'[t].pc = "open_insert" THEN DirectChats(call[t].pair)' = {}
               ELSE call'[t].by \in chats'[call'[t].chat]
    BY <1>4, <1>7, <2>3 DEF DirectInv
  <2> QED
    BY <2>1, <2>2, <2>3 DEF DirectInv
<1>9. UnreadIsUnseen'
  BY <1>1, <1>4, <1>6 DEF ReadInv, UnreadIsUnseen, Receiver
<1>10. ASSUME NEW t \in Sessions
       PROVE  /\ call'[t].pc = "send_commit" =>
                   \A u \in Users : last_read_at'[call'[t].chat][u] < call'[t].at
              /\ call'[t].pc \in {"read_stamp", "read_messages", "read_commit"} =>
                   \A m \in messages' : m.chat = call'[t].chat => m.created_at < call'[t].at
              /\ call'[t].pc \in {"read_commit", "delivered_commit"} =>
                   call'[t].rows = Below(call[t].chat, call[t].by, Target(t))'
  <2>1. CASE t = s
    BY <1>3, <2>1 DEF Idle
  <2>2. CASE call'[t].pc \notin {"send_commit", "read_stamp", "read_messages", "read_commit", "delivered_commit"}
    BY <2>2
  <2>3. CASE t # s /\ call'[t].pc \in {"send_commit", "read_stamp", "read_messages", "read_commit", "delivered_commit"}
    <3>1. call'[t] = call[t] /\ call[t].chat \in ChatIds \ {c}
      BY <1>7, <2>3 DEF Busy
    <3>2. Below(call[t].chat, call[t].by, Target(t))' = Below(call[t].chat, call[t].by, Target(t))
      BY <1>1, <3>1 DEF Below, Incoming, Target
    <3> QED
      BY <1>1, <1>4, <3>1, <3>2 DEF ReadInv
  <2> QED
    BY <2>1, <2>2, <2>3
<1> QED
  BY <1>8, <1>9, <1>10 DEF ReadInv

\* A message is committed later than every last_read_at of its chat, and no call
\* is marking that chat.
LEMMA ApartSendCommit ==
  ASSUME StoreInv, Apart, DirectInv, ReadInv, NEW s \in Sessions, SendCommit(s)
  PROVE  DirectInv' /\ ReadInv'
<1>0. PICK new : new = [chat |-> call[s].chat, sender |-> call[s].by, created_at |-> call[s].at,
                       status |-> "sent"]
  OBVIOUS
<1>1. /\ call[s].pc = "send_commit" /\ messages' = messages \cup {new}
      /\ UNCHANGED <<chats, last_read_at>>
  BY <1>0 DEF SendCommit
<1>2. call'[s] = Idle /\ \A t \in Sessions \ {s} : call'[t] = call[t]
  BY DEF SendCommit, StoreInv, TypeOK
<1>3. call[s] \in SendCalls /\ call[s].by \in chats[call[s].chat]
  BY <1>1, CallKinds DEF StoreInv, DirectInv, Busy
<1>4. \A t \in Sessions \ {s} : Busy(t) /\ call[t].pc # "open_insert" => call[t].chat # call[s].chat
  BY <1>1 DEF Apart, Busy, Topic
<1>5. DirectInv'
  BY <1>0, <1>1, <1>2, <1>3 DEF DirectInv, Busy, Idle, DirectChats
<1>6. TypeOK'
  BY InvSendCommit DEF StoreInv
<1>7. new.created_at > last_read_at[new.chat][Receiver(new)']
  <2>1. Receiver(new)' \in Users
    <3>1. new \in messages' /\ new.sender \in chats[new.chat] /\ chats[new.chat] \in Pairs
      BY <1>1, <1>5, <1>6 DEF TypeOK, Rows, DirectInv
    <3> QED
      BY <1>1, <3>1, OtherOfPair DEF Receiver
  <2>2. last_read_at[call[s].chat][Receiver(new)'] < call[s].at
    BY <1>0, <1>1, <2>1 DEF ReadInv
  <2>3. last_read_at[call[s].chat][Receiver(new)'] \in Times /\ call[s].at \in Times
    BY <1>3, <2>1 DEF StoreInv, TypeOK, SendCalls
  <2> QED
    BY <1>0, <2>2, <2>3 DEF Times
<1>8. UnreadIsUnseen'
  <2>1. ASSUME NEW m \in messages
        PROVE  m.created_at > last_read_at'[m.chat][Receiver(m)'] <=> m.status # "seen"
    BY <1>1 DEF UnreadIsUnseen, Receiver, ReadInv
  <2>2. new.created_at > last_read_at'[new.chat][Receiver(new)'] /\ new.status # "seen"
    BY <1>0, <1>1, <1>7
  <2>3. \A m \in messages' : m.created_at > last_read_at'[m.chat][Receiver(m)'] <=> m.status # "seen"
    BY <1>1, <2>1, <2>2
  <2> QED
    BY <2>3 DEF UnreadIsUnseen
<1>9. ASSUME NEW t \in Sessions
      PROVE  /\ call'[t].pc = "send_commit" =>
                  \A u \in Users : last_read_at'[call'[t].chat][u] < call'[t].at
             /\ call'[t].pc \in {"read_stamp", "read_messages", "read_commit"} =>
                  \A m \in messages' : m.chat = call'[t].chat => m.created_at < call'[t].at
             /\ call'[t].pc \in {"read_commit", "delivered_commit"} =>
                  call'[t].rows = Below(call[t].chat, call[t].by, Target(t))'
  <2>1. CASE t = s
    BY <1>2, <2>1 DEF Idle
  <2>2. CASE t # s /\ call[t].pc = "send_commit"
    BY <1>1, <1>2, <2>2 DEF ReadInv
  <2>3. CASE t # s /\ call[t].pc \in {"read_stamp", "read_messages", "read_commit", "delivered_commit"}
    <3>1. new.chat # call[t].chat
      BY <1>0, <1>4, <2>3 DEF Busy
    <3>2. Below(call[t].chat, call[t].by, Target(t))' = Below(call[t].chat, call[t].by, Target(t))
      BY <1>1, <1>2, <2>3, <3>1 DEF Below, Incoming, Target
    <3> QED
      BY <1>1, <1>2, <2>3, <3>1, <3>2 DEF ReadInv
  <2> QED
    BY <1>2, <2>1, <2>2, <2>3
<1> QED
  BY <1>5, <1>8, <1>9 DEF ReadInv

\* Which messages Below names.
LEMMA BelowTells ==
  ASSUME TypeOK, NEW m \in messages, NEW c, NEW u, NEW status
  PROVE  m.created_at \in Below(c, u, status) <=>
           m.chat = c /\ m.sender # u /\ Rank[m.status] < Rank[status]
BY DEF TypeOK, Below, Incoming

\* mark_chat_as_read leaves every received message of its chat seen and earlier
\* than last_read_at; mark_messages_delivered makes no message seen.
LEMMA ApartMarkCommit ==
  ASSUME StoreInv, Apart, DirectInv, ReadInv, NEW s \in Sessions, MarkCommit(s)
  PROVE  DirectInv' /\ ReadInv'
<1> DEFINE marked(m) == IF m.created_at \in call[s].rows THEN [m EXCEPT !.status = Target(s)] ELSE m
<1>1. /\ call[s].pc \in {"read_commit", "delivered_commit"}
      /\ messages' = {marked(m) : m \in messages}
      /\ UNCHANGED chats
      /\ last_read_at' = IF call[s].pc = "read_commit"
                         THEN [last_read_at EXCEPT ![call[s].chat][call[s].by] = call[s].at]
                         ELSE last_read_at
  BY DEF MarkCommit, Target
<1>2. call'[s] = Idle /\ \A t \in Sessions \ {s} : call'[t] = call[t]
  BY DEF MarkCommit, StoreInv, TypeOK
<1>3. /\ call[s] \in MarkCalls /\ call[s].by \in chats[call[s].chat]
      /\ call[s].chat \in ChatIds /\ call[s].by \in Users /\ call[s].at \in Times
  BY <1>1, CallKinds DEF StoreInv, DirectInv, Busy, MarkCalls
<1>4. \A t \in Sessions \ {s} : Busy(t) /\ call[t].pc # "open_insert" => call[t].chat # call[s].chat
  BY <1>1 DEF Apart, Busy, Topic
<1>5. ASSUME NEW m \in messages
      PROVE  /\ m \in Rows /\ marked(m).chat = m.chat /\ marked(m).sender = m.sender
             /\ marked(m).created_at = m.created_at
             /\ m.created_at \notin call[s].rows => marked(m) = m
             /\ m.created_at \in call[s].rows => marked(m).status = Target(s)
  BY DEF StoreInv, TypeOK, Rows
<1> HIDE DEF marked
<1>6. DirectInv'
  <2>1. \A m \in messages' : m.sender \in chats'[m.chat]
    BY <1>1, <1>5 DEF DirectInv
  <2> QED
    BY <1>1, <1>2, <2>1 DEF DirectInv, Busy, Idle, DirectChats
<1>7. ASSUME NEW m \in messages
      PROVE  marked(m).created_at > last_read_at'[m.chat][Receiver(m)] <=> marked(m).status # "seen"
  <2>1. m.created_at > last_read_at[m.chat][Receiver(m)] <=> m.status # "seen"
    BY DEF ReadInv, UnreadIsUnseen
  <2>2. /\ Receiver(m) \in Users /\ Receiver(m) # m.sender /\ chats[m.chat] = {m.sender, Receiver(m)}
        /\ m.chat \in ChatIds
    <3>1. m.chat \in ChatIds /\ m.sender \in chats[m.chat] /\ chats[m.chat] \in Pairs
      BY <1>5 DEF StoreInv, TypeOK, DirectInv, Rows
    <3> QED
      BY <3>1, OtherOfPair DEF Receiver
  <2>3. m.created_at \in Nat /\ m.status \in {"sent", "delivered", "seen"}
    BY <1>5 DEF Rows, Times, Rank
  <2>4. CASE call[s].pc = "delivered_commit"
    <3>1. last_read_at' = last_read_at
      BY <1>1, <2>4
    <3>2. m.created_at \in call[s].rows => m.status # "seen"
      BY <1>1, <2>4 DEF StoreInv, Marks, Target, Rank
    <3> QED
      BY <1>5, <2>1, <2>4, <3>1, <3>2 DEF Target
  <2>5. CASE call[s].pc = "read_commit" /\ m.chat = call[s].chat /\ m.sender # call[s].by
    <3>1. Receiver(m) = call[s].by
      BY <1>3, <2>2, <2>5
    <3>2. last_read_at'[m.chat][Receiver(m)] = call[s].at
      BY <1>1, <1>3, <2>5, <3>1 DEF StoreInv, TypeOK
    <3>3. m.created_at < call[s].at
      BY <2>5 DEF ReadInv
    <3>4. m.status # "seen" => m.created_at \in call[s].rows
      BY <2>3, <2>5, BelowTells DEF ReadInv, StoreInv, Target, Rank
    <3>5. call[s].at \in Nat
      BY <1>3 DEF Times
    <3> QED
      BY <1>5, <2>3, <2>5, <3>2, <3>3, <3>4, <3>5 DEF Target
  <2>6. CASE call[s].pc = "read_commit" /\ ~(m.chat = call[s].chat /\ m.sender # call[s].by)
    <3>1. last_read_at'[m.chat][Receiver(m)] = last_read_at[m.chat][Receiver(m)]
      BY <1>1, <1>3, <2>2, <2>6 DEF StoreInv, TypeOK
    <3>2. m.created_at \notin call[s].rows
      BY <2>6, BelowTells DEF ReadInv, StoreInv
    <3> QED
      BY <1>5, <2>1, <3>1, <3>2
  <2> QED
    BY <1>1, <2>4, <2>5, <2>6
<1>8. UnreadIsUnseen'
  <2>1. ASSUME NEW n \in messages'
        PROVE  n.created_at > last_read_at'[n.chat][Receiver(n)'] <=> n.status # "seen"
    <3>1. PICK m \in messages : n = marked(m)
      BY <1>1
    <3>2. Receiver(n)' = Receiver(m)
      BY <1>1, <1>5, <3>1 DEF Receiver
    <3> QED
      BY <1>5, <1>7, <3>1, <3>2
  <2> QED
    BY <2>1 DEF UnreadIsUnseen
<1>9. ASSUME NEW t \in Sessions, t # s, Busy(t), call[t].pc # "open_insert"
      PROVE  /\ \A u \in Users : last_read_at'[call[t].chat][u] = last_read_at[call[t].chat][u]
             /\ Below(call[t].chat, call[t].by, Target(t))' = Below(call[t].chat, call[t].by, Target(t))
  <2>1. call[t].chat # call[s].chat /\ call'[t] = call[t]
    BY <1>2, <1>4, <1>9
  <2>2. call[t].chat \in ChatIds
    BY <1>9 DEF StoreInv, TypeOK, Calls, Busy, Idle, OpenCalls, SendCalls, MarkCalls
  <2>3. \A u \in Users : last_read_at'[call[t].chat][u] = last_read_at[call[t].chat][u]
    BY <1>1, <1>3, <2>1, <2>2 DEF StoreInv, TypeOK
  <2>4. \A m \in messages : m.chat = call[t].chat => marked(m) = m
    <3>1. \A m \in messages : m.created_at \in call[s].rows => m.chat = call[s].chat
      BY <1>1, BelowTells DEF ReadInv, StoreInv
    <3> QED
      BY <1>5, <2>1, <3>1
  <2> QED
    BY <1>1, <1>5, <2>1, <2>3, <2>4 DEF Below, Incoming, Target
<1>10. ASSUME NEW t \in Sessions
       PROVE  /\ call'[t].pc = "send_commit" =>
                   \A u \in Users : last_read_at'[call'[t].chat][u] < call'[t].at
              /\ call'[t].pc \in {"read_stamp", "read_messages", "read_commit"} =>
                   \A m \in messages' : m.chat = call'[t].chat => m.created_at < call'[t].at
              /\ call'[t].pc \in {"read_commit", "delivered_commit"} =>
                   call'[t].rows = Below(call[t].chat, call[t].by, Target(t))'
  <2>1. CASE t = s
    BY <1>2, <2>1 DEF Idle
  <2>2. CASE t # s /\ call[t].pc \in {"send_commit", "read_stamp", "read_messages", "read_commit", "delivered_commit"}
    <3>1. call'[t] = call[t] /\ Busy(t) /\ call[t].pc # "open_insert"
      BY <1>2, <2>2 DEF Busy
    <3> QED
      BY <1>1, <1>5, <1>9, <2>2, <3>1 DEF ReadInv
  <2> QED
    BY <1>2, <2>1, <2>2
<1> QED
  BY <1>6, <1>8, <1>10 DEF ReadInv

\* ApartInv is inductive: as long as calls on one conversation do not overlap.
LEMMA ApartNext ==
  ASSUME StoreInv, ApartInv, [Next /\ overlapped' = (overlapped \/ ~Apart')]_<<vars, overlapped>>
  PROVE  ApartInv'
<1>1. CASE UNCHANGED <<vars, overlapped>>
  <2>1. UNCHANGED <<chats, messages, last_read_at, call, overlapped>>
    BY <1>1 DEF vars, tables
  <2>2. Apart' <=> Apart
    BY <2>1 DEF Apart, Busy, Topic
  <2>3. DirectInv' <=> DirectInv
    BY <2>1 DEF DirectInv, Busy, DirectChats
  <2>4. ReadInv' <=> ReadInv
    BY <2>1 DEF ReadInv, UnreadIsUnseen, Receiver, Below, Incoming, Target
  <2> QED
    BY <2>1, <2>2, <2>3, <2>4 DEF ApartInv
<1> SUFFICES ASSUME Next, ~overlapped, Apart'
             PROVE  DirectInv' /\ ReadInv'
  BY <1>1 DEF ApartInv
<1> USE DEF ApartInv
<1>2. ASSUME NEW s \in Sessions, NEW u \in Users, NEW p \in Pairs, OpenRead(s, u, p)
      PROVE  DirectInv' /\ ReadInv'
  <2>1. PICK t \in Times : /\ DirectChats(p) = {}
                           /\ Goto(s, [pc |-> "open_insert", by |-> u, pair |-> p, at |-> t])
    BY <1>2 DEF OpenRead, Begin
  <2>2. [pc |-> "open_insert", by |-> u, pair |-> p, at |-> t] \in Calls
    BY DEF Calls, OpenCalls
  <2> QED
    BY <2>1, <2>2, ApartGoto
<1>3. ASSUME NEW s \in Sessions, NEW u \in Users, NEW c \in ChatIds, Send(s, u, c)
      PROVE  DirectInv' /\ ReadInv'
  <2>1. PICK t \in Times : /\ IsNow(t) /\ u \in chats[c]
                           /\ Goto(s, [pc |-> "send_commit", by |-> u, chat |-> c, at |-> t])
    BY <1>3 DEF Send, Begin
  <2>2. [pc |-> "send_commit", by |-> u, chat |-> c, at |-> t] \in Calls
    BY <2>1, NowIsNew DEF Calls, SendCalls
  <2>3. \A v \in Users : last_read_at[c][v] < t
    <3>1. \A v \in Users : last_read_at[c][v] \in Stamps
      BY DEF Stamps
    <3> QED
      BY <2>1, <3>1 DEF IsNow
  <2> QED
    BY <2>1, <2>2, <2>3, ApartGoto
<1>4. ASSUME NEW s \in Sessions, NEW u \in Users, NEW c \in ChatIds, ReadBegin(s, u, c)
      PROVE  DirectInv' /\ ReadInv'
  <2>1. PICK t \in Times : IsNow(t) /\ u \in chats[c] /\ Goto(s, Mark("read_stamp", u, c, t))
    BY <1>4 DEF ReadBegin, Begin
  <2>2. Mark("read_stamp", u, c, t) \in Calls
    BY DEF Calls, MarkCalls, Mark
  <2>3. \A m \in messages : m.created_at < t
    BY <2>1, NowIsNew
  <2> QED
    BY <2>1, <2>2, <2>3, ApartGoto DEF Mark
<1>5. ASSUME NEW s \in Sessions, NEW u \in Users, NEW c \in ChatIds, DeliveredBegin(s, u, c)
      PROVE  DirectInv' /\ ReadInv'
  <2>1. Mark("delivered", u, c, 0) \in Calls
    BY ChatStoreAssumption DEF Calls, MarkCalls, Mark, Times
  <2> QED
    BY <1>5, <2>1, ApartGoto DEF DeliveredBegin, Begin, Mark
<1>6. ASSUME NEW s \in Sessions, ReadStamp(s) \/ ReadMessages(s) \/ DeliveredUpdate(s)
      PROVE  DirectInv' /\ ReadInv'
  <2>1. call[s] \in MarkCalls /\ call[s].by \in chats[call[s].chat]
    BY <1>6, CallKinds DEF ReadStamp, ReadMessages, DeliveredUpdate, StoreInv, DirectInv, Busy
  <2>2. \A c, u, status : Below(c, u, status) \subseteq Times
    BY DEF Below, Incoming, StoreInv, TypeOK, Rows
  <2>3. CASE ReadStamp(s)
    <3> DEFINE k == [call[s] EXCEPT !.pc = "read_messages"]
    <3>1. call[s].pc = "read_stamp" /\ Goto(s, k)
      BY <2>3 DEF ReadStamp
    <3>2. k \in Calls /\ k.pc = "read_messages" /\ k.by = call[s].by /\ k.chat = call[s].chat /\ k.at = call[s].at
      BY <2>1 DEF Calls, MarkCalls
    <3>3. \A m \in messages : m.chat = call[s].chat => m.created_at < call[s].at
      BY <3>1 DEF ReadInv
    <3> HIDE DEF k
    <3> QED
      BY <2>1, <3>1, <3>2, <3>3, ApartGoto
  <2>4. CASE ReadMessages(s) \/ DeliveredUpdate(s)
    <3>1. PICK pc \in {"read_commit", "delivered_commit"} :
            LET rows == Below(call[s].chat, call[s].by, IF pc = "read_commit" THEN "seen" ELSE "delivered")
            IN  /\ Goto(s, [call[s] EXCEPT !.pc = pc, !.rows = rows])
                /\ pc = "read_commit" => call[s].pc = "read_messages"
      BY <2>4 DEF ReadMessages, DeliveredUpdate
    <3>2. PICK rows : rows = Below(call[s].chat, call[s].by, IF pc = "read_commit" THEN "seen" ELSE "delivered")
      OBVIOUS
    <3>3. PICK k : k = [call[s] EXCEPT !.pc = pc, !.rows = rows]
      OBVIOUS
    <3>4. /\ k \in Calls /\ k.pc = pc /\ k.rows = rows
          /\ k.by = call[s].by /\ k.chat = call[s].chat /\ k.at = call[s].at
      BY <2>1, <2>2, <3>2, <3>3 DEF Calls, MarkCalls
    <3>5. pc = "read_commit" => \A m \in messages : m.chat = call[s].chat => m.created_at < call[s].at
      BY <3>1 DEF ReadInv
    <3>6. Goto(s, k)
      BY <3>1, <3>2, <3>3
    <3> QED
      BY <2>1, <3>2, <3>4, <3>5, <3>6, ApartGoto
  <2> QED
    BY <1>6, <2>3, <2>4
<1>7. ASSUME NEW s \in Sessions, Rollback(s)
      PROVE  DirectInv' /\ ReadInv'
  BY <1>7, ApartGoto DEF Rollback, Calls, Idle
<1> QED
  BY <1>2, <1>3, <1>4, <1>5, <1>6, <1>7, ApartOpenInsert, ApartSendCommit, ApartMarkCommit DEF Next

\* Both invariants hold of every reachable state.
LEMMA ApartInvariance == SpecBoth => [](StoreInv /\ ApartInv)
<1>1. Init /\ overlapped = FALSE => StoreInv
  BY ChatStoreAssumption DEF Init, StoreInv, TypeOK, Calls, Idle, Times, Marks, Holds
<1>2. Init /\ overlapped = FALSE => ApartInv
  BY DEF Init, ApartInv, Apart, DirectInv, ReadInv, UnreadIsUnseen, Busy, Idle
<1>3. StoreInv /\ ApartInv /\ [Next /\ overlapped' = (overlapped \/ ~Apart')]_<<vars, overlapped>>
        => StoreInv' /\ ApartInv'
  BY InvNext, ApartNext
<1> QED
  BY <1>1, <1>2, <1>3, PTL DEF SpecBoth, InitBoth

\* Until two calls on one conversation overlap, get_or_create_direct_chat gives
\* any two users one chat.
THEOREM OneChatApart == SpecBoth => []OneDirectChatApart
<1>1. ASSUME ApartInv, ~overlapped, NEW p \in Pairs
      PROVE  Cardinality(DirectChats(p)) <= 1
  <2>1. \A c, d \in DirectChats(p) : c = d
    BY <1>1 DEF ApartInv, DirectInv, DirectChats, Pairs
  <2>2. CASE DirectChats(p) = {}
    BY <2>2, FS_EmptySet
  <2>3. CASE DirectChats(p) # {}
    <3>1. PICK c : DirectChats(p) = {c}
      BY <2>1, <2>3
    <3>2. QED
      <4>1. Cardinality({c}) = 1
        BY FS_Singleton
      <4> QED
        BY <3>1, <4>1
  <2> QED
    BY <2>2, <2>3
<1>2. ApartInv => OneDirectChatApart
  BY <1>1 DEF OneDirectChatApart, OneDirectChat
<1> QED
  BY <1>2, ApartInvariance, PTL

\* Until then the unread count of get_user_chats is exact for every user and chat.
THEOREM UnreadApart == SpecBoth => []UnreadIsUnseenApart
<1>1. ApartInv => UnreadIsUnseenApart
  BY DEF ApartInv, ReadInv, UnreadIsUnseenApart
<1> QED
  BY <1>1, ApartInvariance, PTL

===============================================================================
