------------------------------- MODULE Handoffs -------------------------------
(***************************************************************************)
(* The card handoffs of the requests page: the requests for cards in which *)
(* the user is the owner, the intermediary or the requester, as loaded     *)
(* with everything else, and what the user does with them. RequestFlow     *)
(* models the calls inside the database.                                   *)
(***************************************************************************)
EXTENDS Naturals, FiniteSets

CONSTANTS
  Deals,     \* requests for cards that exist
  NoDeal,    \* no action is busy
  MaxMoves   \* bound: clicks, answers of the others and faults together

ASSUME HandoffsAssumption == NoDeal \notin Deals /\ MaxMoves \in Nat

VARIABLES
  deals,     \* the database: the requests by id
  cards,     \* incomingCards, outgoingCards and referralCards
  reads,     \* loads in flight: not served yet, or what they have read
  asked,     \* calls in flight
  dealBusy,  \* busyActionId
  contacts,  \* contactByRequestId
  lagging,   \* history: the lists may lag behind the database
  moves      \* events so far

handoffVars == <<deals, cards, reads, asked, dealBusy, contacts, lagging, moves>>

Unread == [deal \in {} |-> 0]
Deal == [side : {"owner", "intermediary", "requester"},
         status : {"pending", "approved", "declined", "ignored"},
         referral : {"not_required", "pending", "approved", "declined"}]
Steps == {"approved", "declined", "ignored", "refer", "refuse", "reveal"}
Move == moves < MaxMoves /\ moves' = moves + 1
Marked(d, status, referral) == deals' = [deals EXCEPT ![d].status = status, ![d].referral = referral]

-------------------------------------------------------------------------------
(* What the calls do, and the others.                                      *)

Granted(d, step) ==
  LET r == deals[d]
  IN  CASE step \in {"approved", "declined", "ignored"} ->
             r.side = "owner" /\ r.status = "pending" /\ r.referral \in {"not_required", "approved"}
        [] step \in {"refer", "refuse"} -> r.side = "intermediary"
        [] step = "reveal" -> r.side # "intermediary" /\ r.status = "approved"

Perform(d, step) ==
  CASE step \in {"approved", "declined", "ignored"} -> Marked(d, step, deals[d].referral)
    [] step = "refer" -> Marked(d, deals[d].status, "approved")
    [] step = "refuse" -> Marked(d, deals[d].status, "declined")
    [] step = "reveal" -> UNCHANGED deals

OthersAnswer ==
  \E d \in Deals :
    /\ Move
    /\ \/ /\ deals[d].side # "intermediary" /\ deals[d].referral # "not_required"
          /\ \E r \in {"approved", "declined"} : Marked(d, deals[d].status, r)
       \/ /\ deals[d].side # "owner" /\ deals[d].status = "pending" /\ deals[d].referral \in {"not_required", "approved"}
          /\ \E s \in {"approved", "declined", "ignored"} : Marked(d, s, deals[d].referral)
    /\ lagging' = TRUE
    /\ UNCHANGED <<cards, reads, asked, dealBusy, contacts>>

-------------------------------------------------------------------------------
(* The tab and its handlers.                                               *)

Of(side) == {d \in DOMAIN cards : cards[d].side = side}
Enabled(d) == dealBusy # d
ReferralButtons == {b \in Of("intermediary") \X {"refer", "refuse"} :
                      cards[b[1]].referral = "pending" /\ Enabled(b[1])}
OwnerButtons ==
  {b \in Of("owner") \X {"approved", "declined", "ignored"} : cards[b[1]].status = "pending" /\ Enabled(b[1])}
  \cup {b \in Of("owner") \X {"reveal"} : cards[b[1]].status = "approved" /\ b[1] \notin contacts}
OutgoingRows == Of("requester")     \* without buttons

ClickAnswer ==
  \E b \in ReferralButtons \cup OwnerButtons :
    /\ b[2] # "reveal" /\ Move
    /\ asked' = asked \cup {[deal |-> b[1], step |-> b[2], pc |-> "asked"]} /\ dealBusy' = b[1]
    /\ UNCHANGED <<deals, cards, reads, contacts, lagging>>

ClickReveal ==
  \E b \in OwnerButtons :
    /\ b[2] = "reveal" /\ Move
    /\ asked' = asked \cup {[deal |-> b[1], step |-> b[2], pc |-> "asked"]}
    /\ UNCHANGED <<deals, cards, reads, dealBusy, contacts, lagging>>

\* Served, or refused; or the answer is lost.
AnswerServed ==
  \E c \in asked, pc \in {"ok", "failed"} :
    /\ c.pc = "asked" /\ asked' = (asked \ {c}) \cup {[c EXCEPT !.pc = pc]}
    /\ IF Granted(c.deal, c.step)
       THEN /\ Perform(c.deal, c.step)
            /\ IF pc = "ok" THEN UNCHANGED <<lagging, moves>> ELSE Move /\ lagging' = TRUE
       ELSE pc = "failed" /\ UNCHANGED <<deals, lagging, moves>>
    /\ UNCHANGED <<cards, reads, dealBusy, contacts>>

\* Mutant: the tab does not load again after an answer.
Answered_Unloaded ==
  \E c \in asked :
    /\ c.pc # "asked" /\ c.step # "reveal" /\ asked' = asked \ {c}
    /\ dealBusy' = NoDeal /\ UNCHANGED <<deals, cards, reads, contacts, lagging, moves>>

Answered ==
  \E c \in asked :
    /\ c.pc # "asked" /\ c.step # "reveal" /\ asked' = asked \ {c}
    /\ IF c.pc = "ok"
       THEN reads' = reads \cup {[for |-> "answer", done |-> FALSE, got |-> Unread]} /\ lagging' = (reads # {}) /\ UNCHANGED dealBusy
       ELSE dealBusy' = NoDeal /\ UNCHANGED <<reads, lagging>>
    /\ UNCHANGED <<deals, cards, contacts, moves>>

Revealed ==
  \E c \in asked :
    /\ c.pc # "asked" /\ c.step = "reveal" /\ asked' = asked \ {c}
    /\ contacts' = IF c.pc = "ok" THEN contacts \cup {c.deal} ELSE contacts
    /\ UNCHANGED <<deals, cards, reads, dealBusy, lagging, moves>>

\* getRequests is served; an error of it makes the lists empty.
CardsRead ==
  \E l \in reads, failed \in BOOLEAN :
    /\ ~l.done
    /\ reads' = (reads \ {l}) \cup {[l EXCEPT !.done = TRUE, !.got = IF failed THEN Unread ELSE deals]}
    /\ IF failed THEN Move /\ lagging' = TRUE ELSE UNCHANGED <<lagging, moves>>
    /\ UNCHANGED <<deals, cards, asked, dealBusy, contacts>>

CardsLoaded ==
  \E l \in reads :
    /\ l.done /\ reads' = reads \ {l} /\ cards' = l.got
    /\ dealBusy' = IF l.for = "answer" THEN NoDeal ELSE dealBusy
    /\ UNCHANGED <<deals, asked, contacts, lagging, moves>>

-------------------------------------------------------------------------------
HandoffsQuiet == reads = {} /\ asked = {}

HandoffsMounted ==
  /\ deals \in [Deals -> {d \in Deal : d.status = "pending" /\ d.referral \in {"not_required", "pending"}}]
  /\ \A d \in Deals : deals[d].side = "intermediary" => deals[d].referral = "pending"
  /\ cards = Unread /\ reads = {[for |-> "mount", done |-> FALSE, got |-> Unread]} /\ asked = {}
  /\ dealBusy = NoDeal /\ contacts = {} /\ lagging = FALSE /\ moves = 0

HandoffsNext ==
  OthersAnswer \/ ClickAnswer \/ ClickReveal \/ AnswerServed \/ Answered \/ Revealed \/ CardsRead \/ CardsLoaded

-------------------------------------------------------------------------------
(* The inductive invariant behind what Client says of the tab.             *)

\* A load is for the page or for an answer; a call is asked, served or failed.
LoadShape(l) == l = [for |-> l.for, done |-> l.done, got |-> l.got] /\ l.done \in BOOLEAN
CallShape(c) == c = [deal |-> c.deal, step |-> c.step, pc |-> c.pc]

\* As long as the lists do not lag, an answer that changed a request is still to
\* come, or the only load in flight has read what there is now, or the lists
\* show it.
HandoffsInv ==
  /\ lagging \in BOOLEAN
  /\ \A l \in reads : LoadShape(l)
  /\ \A c \in asked : CallShape(c)
  /\ ~lagging =>
       \/ \E c \in asked : c.pc = "ok" /\ c.step # "reveal"
       \/ reads = {} /\ cards = deals
       \/ \E l \in reads : reads = {l} /\ (l.done => l.got = deals)
  /\ dealBusy # NoDeal => (\E c \in asked : c.step # "reveal") \/ \E l \in reads : l.for = "answer"
===============================================================================
