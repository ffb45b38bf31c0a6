--------------------------------- MODULE Cards ---------------------------------
(***************************************************************************)
(* The page of one's own cards: createCard, which finds the catalogue item *)
(* a typed name stands for and stores the card in steps of its own,        *)
(* updateCard and deleteCard, and the page, its editor and its list around *)
(* them. The user has other tabs open. Filters and wording are left out.   *)
(***************************************************************************)
EXTENDS Naturals, FiniteSets

CONSTANTS
  Items,       \* the catalogue, in the order it is returned
  CardNames,   \* what may be typed
  Fits,        \* the items a name fits exactly, as a part, and by a word
  Closed, New, \* the modal is closed, or edits a new card
  MaxDeeds     \* bound: submits, deletions, loads, other tabs and faults

ASSUME CardsAssumption ==
  /\ Items \subseteq Nat \ {0} /\ Items # {} /\ IsFiniteSet(Items) /\ MaxDeeds \in Nat
  /\ Fits \in [CardNames -> [1..3 -> SUBSET Items]]

VARIABLES
  mine,           \* resources of the user, by item
  made,           \* ids given out
  savedCards, loadingCards, deletingCardId,
  editor,         \* the modal: Closed, or the id of the card it edits, or New
  submitting,     \* isSubmitting of the modal
  saves,          \* createCard and updateCard in flight
  deletes,        \* deleteCard in flight
  listings,       \* loadUserCards in flight
  behind,         \* history: the list may lag behind the table
  raced,          \* history: the table changed during a save, or its read of the cards owned failed
  deeds

cardVars == <<mine, made, savedCards, loadingCards, deletingCardId, editor, submitting, saves, deletes, listings,
              behind, raced, deeds>>
Scopes == {1, 2}     \* DIRECT_FRIENDS, TOTAL_NETWORK
Deed == deeds < MaxDeeds /\ deeds' = deeds + 1

First(S) == CHOOSE i \in S : \A j \in S : i <= j
Listed == {[id |-> mine[i].id, item |-> i, scope |-> mine[i].scope] : i \in DOMAIN mine}
Stored(item, card) == mine' = [i \in DOMAIN mine \cup {item} |-> IF i = item THEN card ELSE mine[i]]
Ids == {mine[i].id : i \in DOMAIN mine}
ItemOf(id) == CHOOSE i \in DOMAIN mine : mine[i].id = id

-------------------------------------------------------------------------------
(* The list.                                                               *)

List(for) ==
  /\ listings' = listings \cup {[for |-> for, done |-> FALSE, got |-> {}]}
  /\ loadingCards' = TRUE /\ behind' = (listings # {})

\* A changed profile loads the list.
ProfileChanged ==
  /\ Deed /\ List("profile")
  /\ UNCHANGED <<mine, made, savedCards, deletingCardId, editor, submitting, saves, deletes, raced>>

\* getCards turns an error into an empty list.
CardsServed ==
  \E l \in listings :
    /\ ~l.done
    /\ \/ listings' = (listings \ {l}) \cup {[l EXCEPT !.done = TRUE, !.got = Listed]} /\ UNCHANGED <<behind, deeds>>
       \/ Deed /\ listings' = (listings \ {l}) \cup {[l EXCEPT !.done = TRUE]} /\ behind' = TRUE
    /\ UNCHANGED <<mine, made, savedCards, loadingCards, deletingCardId, editor, submitting, saves, deletes, raced>>

\* A save that waited for the list closes the modal, and a deletion gives its
\* slot back, whichever card they are about by now.
CardsShown ==
  \E l \in listings :
    /\ l.done /\ listings' = listings \ {l} /\ savedCards' = l.got /\ loadingCards' = FALSE
    /\ editor' = IF l.for = "save" THEN Closed ELSE editor
    /\ submitting' = (submitting /\ l.for # "save")
    /\ deletingCardId' = IF l.for = "delete" THEN 0 ELSE deletingCardId
    /\ UNCHANGED <<mine, made, saves, deletes, behind, raced, deeds>>

-------------------------------------------------------------------------------
(* Adding and editing.                                                     *)

Editor(id) ==
  /\ editor' = id /\ submitting' = FALSE
  /\ UNCHANGED <<mine, made, savedCards, loadingCards, deletingCardId, saves, deletes, listings, behind, raced, deeds>>
OpenAdd == editor = Closed /\ Editor(New)
OpenEdit == editor = Closed /\ ~loadingCards /\ \E card \in savedCards : card.id # deletingCardId /\ Editor(card.id)
CloseEditor == editor # Closed /\ Editor(Closed)

\* The item of a name: of those it fits best the first.
Fitting(name) ==
  LET tiers == {t \in 1..3 : Fits[name][t] # {}}
  IN  IF tiers = {} THEN 0 ELSE First(Fits[name][First(tiers)])

Submit ==
  /\ Deed /\ editor # Closed /\ ~submitting /\ submitting' = TRUE
  /\ \E name \in CardNames, scope \in Scopes :
       saves' = saves \cup
         {[edits |-> editor, name |-> name, scope |-> scope, row |-> 0, n |-> deeds,
           item |-> IF editor = New THEN Fitting(name) ELSE 0,
           pc |-> IF editor # New THEN "update" ELSE IF Fitting(name) = 0 THEN "owned" ELSE "existing"]}
  /\ raced' = (saves # {})
  /\ UNCHANGED <<mine, made, savedCards, loadingCards, deletingCardId, editor, deletes, listings, behind>>

Goes(c, pc) == saves' = (saves \ {c}) \cup {[c EXCEPT !.pc = pc]}

\* Mutant: the cards one owns already are not asked for.
ReadsOwned_First ==
  \E c \in saves :
    /\ c.pc = "owned" /\ saves' = (saves \ {c}) \cup {[c EXCEPT !.item = First(Items), !.pc = "existing"]}
    /\ UNCHANGED <<mine, made, savedCards, loadingCards, deletingCardId, editor, submitting, deletes, listings, behind, raced, deeds>>

\* A name that fits nothing takes the first item not owned, or else the first. A
\* read that fails counts as owning nothing.
ReadsOwned ==
  \E c \in saves, owned \in {DOMAIN mine, {}} :
    /\ c.pc = "owned"
    /\ LET unowned == Items \ owned
       IN  saves' = (saves \ {c}) \cup
             {[c EXCEPT !.item = First(IF unowned = {} THEN Items ELSE unowned), !.pc = "existing"]}
    /\ IF owned = DOMAIN mine THEN UNCHANGED <<raced, deeds>> ELSE Deed /\ raced' = TRUE
    /\ UNCHANGED <<mine, made, savedCards, loadingCards, deletingCardId, editor, submitting, deletes, listings, behind>>

\* A read that fails counts as finding nothing.
ReadsExisting ==
  \E c \in saves, found \in BOOLEAN :
    /\ c.pc = "existing" /\ (found => c.item \in DOMAIN mine)
    /\ saves' = (saves \ {c}) \cup
         {[c EXCEPT !.row = IF found THEN mine[c.item].id ELSE 0, !.pc = IF found THEN "reuse" ELSE "insert"]}
    /\ IF found \/ c.item \notin DOMAIN mine THEN UNCHANGED deeds ELSE Deed
    /\ UNCHANGED <<mine, made, savedCards, loadingCards, deletingCardId, editor, submitting, deletes, listings, behind, raced>>

\* The user or the catalogue cannot be read, or the call that stores is lost.
SaveLost ==
  \E c \in saves :
    /\ c.pc \in {"owned", "update", "reuse", "insert"} \/ (c.pc = "existing" /\ Fitting(c.name) # 0)
    /\ Deed /\ Goes(c, "failed")
    /\ UNCHANGED <<mine, made, savedCards, loadingCards, deletingCardId, editor, submitting, deletes, listings, behind, raced>>

\* The row found is updated in place, or else one is inserted. Neither a row
\* that is gone nor an item that is owned by now passes.
StoresCard ==
  \E c \in saves :
    LET id == IF c.pc = "update" THEN c.edits ELSE c.row
        updates == c.pc \in {"update", "reuse"} /\ id \in Ids
        inserts == c.pc = "insert" /\ c.item \notin DOMAIN mine
    IN  /\ c.pc \in {"update", "reuse", "insert"}
        /\ \/ updates /\ Stored(ItemOf(id), [id |-> id, name |-> c.name, scope |-> c.scope]) /\ UNCHANGED made
           \/ inserts /\ Stored(c.item, [id |-> made + 1, name |-> c.name, scope |-> c.scope]) /\ made' = made + 1
           \/ ~updates /\ ~inserts /\ UNCHANGED <<mine, made>>
        /\ Goes(c, IF updates \/ inserts THEN "ok" ELSE "failed")
        /\ UNCHANGED <<savedCards, loadingCards, deletingCardId, editor, submitting, deletes, listings, behind, raced, deeds>>

\* Mutant: a saved card is not listed.
SaveDone_Unlisted ==
  \E c \in saves :
    /\ c.pc = "ok" /\ saves' = saves \ {c} /\ editor' = Closed /\ submitting' = FALSE
    /\ UNCHANGED <<mine, made, savedCards, loadingCards, deletingCardId, deletes, listings, behind, raced, deeds>>

SaveDone ==
  \E c \in saves :
    /\ c.pc = "ok" /\ saves' = saves \ {c} /\ List("save")
    /\ UNCHANGED <<mine, made, savedCards, deletingCardId, editor, submitting, deletes, raced, deeds>>

\* Refused, or the answer of a stored card is lost: the modal stays open.
SaveFailed ==
  \E c \in saves :
    /\ \/ c.pc = "failed" /\ UNCHANGED <<behind, deeds>>
       \/ c.pc = "ok" /\ Deed /\ behind' = TRUE
    /\ saves' = saves \ {c} /\ submitting' = FALSE
    /\ UNCHANGED <<mine, made, savedCards, loadingCards, deletingCardId, editor, deletes, listings, raced>>

-------------------------------------------------------------------------------
(* Deleting, and the other tabs.                                           *)

Delete ==
  /\ Deed /\ editor = Closed /\ ~loadingCards
  /\ \E card \in savedCards :
       /\ card.id # deletingCardId
       /\ deletingCardId' = card.id /\ deletes' = deletes \cup {[id |-> card.id, n |-> deeds, pc |-> "asked"]}
  /\ UNCHANGED <<mine, made, savedCards, loadingCards, editor, submitting, saves, listings, behind, raced>>

\* The card is gone, or was not there any more, or the call is lost.
DeleteServed ==
  \E d \in deletes, gone \in BOOLEAN :
    /\ d.pc = "asked" /\ (gone => d.id \in Ids)
    /\ deletes' = (deletes \ {d}) \cup {[d EXCEPT !.pc = IF gone THEN "ok" ELSE "failed"]}
    /\ IF gone THEN mine' = [i \in DOMAIN mine \ {ItemOf(d.id)} |-> mine[i]] /\ raced' = TRUE
       ELSE UNCHANGED <<mine, raced>>
    /\ IF gone \/ d.id \notin Ids THEN UNCHANGED deeds ELSE Deed
    /\ UNCHANGED <<made, savedCards, loadingCards, deletingCardId, editor, submitting, saves, listings, behind>>

DeleteDone ==
  \E d \in deletes :
    /\ d.pc = "ok" /\ deletes' = deletes \ {d} /\ List("delete")
    /\ UNCHANGED <<mine, made, savedCards, deletingCardId, editor, submitting, saves, raced, deeds>>

\* Refused, or the answer of a deletion carried out is lost: the slot is given
\* back and the list is not loaded.
DeleteFailed ==
  \E d \in deletes :
    /\ \/ d.pc = "failed" /\ UNCHANGED <<behind, deeds>>
       \/ d.pc = "ok" /\ Deed /\ behind' = TRUE
    /\ deletes' = deletes \ {d} /\ deletingCardId' = 0
    /\ UNCHANGED <<mine, made, savedCards, loadingCards, editor, submitting, saves, listings, raced>>

OtherTab ==
  /\ Deed
  /\ \/ \E i \in Items \ DOMAIN mine, name \in CardNames :
          Stored(i, [id |-> made + 1, name |-> name, scope |-> 1]) /\ made' = made + 1
     \/ \E i \in DOMAIN mine : mine' = [j \in DOMAIN mine \ {i} |-> mine[j]] /\ UNCHANGED made
  /\ behind' = TRUE /\ raced' = TRUE
  /\ UNCHANGED <<savedCards, loadingCards, deletingCardId, editor, submitting, saves, deletes, listings>>

-------------------------------------------------------------------------------
CardsQuiet == saves = {} /\ deletes = {} /\ listings = {}

CardsMounted ==
  /\ \E owned \in SUBSET Items : mine = [i \in owned |-> [id |-> i, name |-> "old", scope |-> 1]]
  /\ made = (CHOOSE i \in Items : \A j \in Items : j <= i) /\ savedCards = Listed /\ loadingCards = FALSE /\ deletingCardId = 0
  /\ editor = Closed /\ submitting = FALSE /\ saves = {} /\ deletes = {} /\ listings = {}
  /\ behind = FALSE /\ raced = FALSE /\ deeds = 0

CardsNext ==
  ProfileChanged \/ CardsServed \/ CardsShown \/ OpenAdd \/ OpenEdit \/ CloseEditor \/ Submit \/ ReadsOwned
  \/ ReadsExisting \/ StoresCard \/ SaveLost \/ SaveDone \/ SaveFailed \/ Delete \/ DeleteServed \/ DeleteDone
  \/ DeleteFailed \/ OtherTab

-------------------------------------------------------------------------------
(* The inductive invariant behind what Client says of the cards.           *)

FitsName(item, name) == item \in UNION {Fits[name][t] : t \in 1..3}

\* As long as the list does not lag, a card stored or deleted is still to be listed,
\* or the only load in flight has read what there is now, or the list shows it.
ListFollows ==
  \/ (\E c \in saves : c.pc = "ok") \/ \E d \in deletes : d.pc = "ok"
  \/ listings = {} /\ savedCards = Listed
  \/ \E l \in listings : listings = {l} /\ (l.done => l.got = Listed)

\* The only save in flight knows its item: it fits the name, or is free, or
\* none is; and the row found there is still there.
ItemChosen(c) ==
  /\ saves = {c}
  /\ c.pc \in {"existing", "reuse", "insert"} =>
       FitsName(c.item, c.name) \/ c.item \notin DOMAIN mine \/ DOMAIN mine = Items
  /\ c.pc = "reuse" => c.item \in DOMAIN mine /\ mine[c.item].id = c.row

SaveCall ==
  [edits : Nat \cup {Closed, New}, name : CardNames, scope : Scopes, row : Nat, n : Nat,
   item : {0} \cup Items, pc : {"owned", "existing", "update", "reuse", "insert", "ok", "failed"}]
ListCall == [for : {"profile", "save", "delete"}, done : BOOLEAN, got : SUBSET [id : Nat, item : Items, scope : Scopes]]
DeleteCall == [id : Nat, n : Nat, pc : {"asked", "ok", "failed"}]

CardsInv ==
  /\ made \in Nat /\ deeds \in Nat /\ behind \in BOOLEAN /\ raced \in BOOLEAN
  /\ mine \in [DOMAIN mine -> [id : 1..made, name : CardNames \cup {"old"}, scope : Scopes]]
  /\ DOMAIN mine \subseteq Items
  /\ \A i, j \in DOMAIN mine : mine[i].id = mine[j].id => i = j
  /\ editor \in Nat \cup {Closed, New} /\ savedCards \subseteq [id : Nat, item : Items, scope : Scopes]
  /\ saves \subseteq SaveCall /\ listings \subseteq ListCall /\ deletes \subseteq DeleteCall
  /\ \A c \in saves : c.pc \in {"existing", "reuse", "insert"} => c.item # 0
  /\ ~behind => ListFollows
  /\ ~raced => \A c \in saves : ItemChosen(c)
  /\ loadingCards => listings # {}
  /\ submitting => saves # {} \/ \E l \in listings : l.for = "save"
  /\ deletingCardId # 0 => deletes # {} \/ \E l \in listings : l.for = "delete"
===============================================================================
