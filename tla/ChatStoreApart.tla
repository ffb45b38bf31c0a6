---------------------------- MODULE ChatStoreApart ----------------------------
(***************************************************************************)
(* ChatStore with a history variable that tells whether calls on one       *)
(* conversation have overlapped: nothing in the functions keeps two of     *)
(* them apart, and what they promise together holds of calls that are.     *)
(***************************************************************************)
EXTENDS ChatStore

VARIABLE overlapped  \* history: two calls on one conversation have overlapped

InitBoth == Init /\ overlapped = FALSE
SpecBoth ==
  /\ InitBoth
  /\ [][Next /\ overlapped' = (overlapped \/ ~Apart')]_<<vars, overlapped>>

\* As long as calls on one conversation do not overlap, get_or_create_direct_chat
\* gives a pair one chat.
OneDirectChatApart == ~overlapped => OneDirectChat

\* As long as calls on one conversation do not overlap, the unread count of
\* get_user_chats counts exactly the received messages that are not seen.
UnreadIsUnseenApart == ~overlapped => UnreadIsUnseen

-------------------------------------------------------------------------------
(* The inductive invariant behind both.                                    *)

\* A pair has one chat, none while a call is about to insert one, and messages
\* are in a chat of their sender.
DirectInv ==
  /\ \A c, d \in ChatIds : chats[c] # {} /\ chats[c] = chats[d] => c = d
  /\ \A m \in messages : m.sender \in chats[m.chat]
  /\ \A s \in Sessions : Busy(s) =>
       IF call[s].pc = "open_insert" THEN DirectChats(call[s].pair) = {} ELSE call[s].by \in chats[call[s].chat]

\* A message on its way is later than every last_read_at of its chat, a
\* mark_chat_as_read later than every message of its chat; a call that marks has
\* updated all the messages it had to.
ReadInv ==
  /\ UnreadIsUnseen
  /\ \A s \in Sessions :
       /\ call[s].pc = "send_commit" => \A u \in Users : last_read_at[call[s].chat][u] < call[s].at
       /\ call[s].pc \in {"read_stamp", "read_messages", "read_commit"} =>
            \A m \in messages : m.chat = call[s].chat => m.created_at < call[s].at
       /\ call[s].pc \in {"read_commit", "delivered_commit"} =>
            call[s].rows = Below(call[s].chat, call[s].by, Target(s))

ApartInv == ~overlapped => Apart /\ DirectInv /\ ReadInv
===============================================================================
