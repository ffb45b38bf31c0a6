------------------------------ MODULE MCChatPage ------------------------------
(* ChatPage on small sets of conversations and messages. *)
EXTENDS ChatPageOrderly, TLC

\* Bound: after a fault the requests in flight end and the chat is switched.
AfterFault == active' # active \/ (UNCHANGED <<rows, joined>> /\ ~OlderAsk /\ ~SendAsk)

\* Bound: all messages are of one conversation; the others are opened and empty.
OneChatWritten == \A i, j \in DOMAIN rows : rows[i].chat = rows[j].chat

\* Bound: the other participant has the chat open and marks as seen at once;
\* received messages take both steps.
PeerSees == \A i \in DOMAIN rows : ~(rows[i].mine /\ rows[i].status = "delivered")

SpecFaults ==
  /\ InitWatched
  /\ [][WatchedNext /\ (fault => AfterFault) /\ OneChatWritten' /\ PeerSees']_<<vars, fault>>

SpecLive ==
  /\ InitWatched
  /\ [][Steps /\ Orderly /\ UNCHANGED fault]_<<vars, fault>>
  /\ Fairness

Symmetry == Permutations(Chats)
===============================================================================
