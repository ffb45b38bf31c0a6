----------------------------- MODULE PersonPanel -----------------------------
(***************************************************************************)
(* The pointer that picks a person in the constellation of the network     *)
(* page, and the panel and the modal about the person picked. Pan and zoom *)
(* are left out: the pointer may hit any node.                             *)
(***************************************************************************)
EXTENDS Constellation

CONSTANTS
  Persons,      \* who may be in the graph
  Self,         \* the node in the middle
  NoOne,        \* null
  MaxGestures   \* bound: clicks and graphs loaded

ASSUME PersonPanelAssumption ==
  Self \notin Persons /\ NoOne \notin Persons \cup {Self} /\ MaxGestures \in Nat

VARIABLES
  drawn,           \* the friends prop: who is drawn around the middle
  hovered, active, dragged,       \* hoveredNode, activeNode, draggedNode
  selected,        \* selectedGraphNode
  personCards,     \* whose cards are held
  personProfile,   \* whose profile
  cardsLoading,
  showCardsModal,
  fetches,         \* fetchPersonCards in flight, numbered
  overlapped,      \* history: someone was picked while a fetch was in flight
  gestures

pointer == <<hovered, active, dragged>>
panel == <<selected, personCards, personProfile, cardsLoading, showCardsModal, fetches, overlapped>>
panelVars == <<drawn, pointer, panel, gestures>>

-------------------------------------------------------------------------------
\* A node under the pointer, or else the active one, lights up its neighbours.
Highlighted(links) ==
  LET id == IF hovered # NoOne THEN hovered ELSE active
  IN  IF id = NoOne THEN {} ELSE {id} \cup UNION {l \in links : id \in l}
HoverCard == IF hovered # NoOne THEN hovered ELSE active

-------------------------------------------------------------------------------
(* Picking a person.                                                       *)

Gesture == gestures < MaxGestures /\ gestures' = gestures + 1

\* The effect on the id selected: nothing for the same person again.
Select(p) ==
  IF p = selected THEN UNCHANGED <<selected, personCards, personProfile, cardsLoading, fetches, overlapped>>
  ELSE /\ selected' = p /\ personCards' = NoOne /\ personProfile' = NoOne
       /\ IF p = NoOne THEN UNCHANGED <<cardsLoading, fetches, overlapped>>
          ELSE /\ cardsLoading' = TRUE /\ fetches' = fetches \cup {<<p, gestures>>}
               /\ overlapped' = (fetches # {})

PointerDown ==
  /\ Gesture /\ dragged = NoOne /\ ~showCardsModal
  /\ \E n \in drawn \cup {Self} :
       dragged' = n /\ active' = n /\ Select(n)
  /\ UNCHANGED <<drawn, hovered, showCardsModal>>

\* The pointer moves without a node in its grip.
PointerMove ==
  /\ dragged = NoOne /\ hovered' \in (drawn \cup {Self, NoOne}) \ {hovered}
  /\ UNCHANGED <<drawn, active, dragged, panel, gestures>>

PointerUp == dragged # NoOne /\ dragged' = NoOne /\ UNCHANGED <<drawn, hovered, active, panel, gestures>>
ResetView == active # NoOne /\ active' = NoOne /\ UNCHANGED <<drawn, hovered, dragged, panel, gestures>>

\* A graph arrives; the nodes picked of the last one are kept.
GraphArrives ==
  /\ Gesture /\ drawn' \in SUBSET Persons \ {drawn} /\ UNCHANGED <<pointer, panel>>

\* "View Cards" of a friend in the list below.
ViewCardsOf ==
  /\ Gesture /\ ~showCardsModal /\ showCardsModal' = TRUE
  /\ \E p \in drawn : Select(p)
  /\ UNCHANGED <<drawn, pointer>>

\* The buttons of the panel.
ViewCards ==
  /\ Gesture /\ selected # NoOne /\ ~showCardsModal /\ showCardsModal' = TRUE
  /\ UNCHANGED <<drawn, pointer, selected, personCards, personProfile, cardsLoading, fetches, overlapped>>
Clear == Gesture /\ selected # NoOne /\ ~showCardsModal /\ Select(NoOne) /\ UNCHANGED <<drawn, pointer, showCardsModal>>

\* Escape, the backdrop, the close button, or a message sent from the modal.
CloseModal ==
  /\ showCardsModal /\ showCardsModal' = FALSE
  /\ UNCHANGED <<drawn, pointer, selected, personCards, personProfile, cardsLoading, fetches, overlapped, gestures>>

\* Mutant: a profile that cannot be read fails the whole fetch.
PersonFetched_Strict ==
  \E f \in fetches, known \in BOOLEAN :
    /\ fetches' = fetches \ {f} /\ cardsLoading' = FALSE
    /\ IF known THEN personCards' = f[1] /\ personProfile' = f[1] ELSE UNCHANGED <<personCards, personProfile>>
    /\ UNCHANGED <<drawn, pointer, selected, showCardsModal, overlapped, gestures>>

\* Cards never fail, they are empty; a profile that fails leaves the last one.
\* Nothing asks whether the person is still the one selected.
PersonFetched ==
  \E f \in fetches, known \in BOOLEAN :
    /\ fetches' = fetches \ {f} /\ cardsLoading' = FALSE
    /\ personCards' = f[1] /\ personProfile' = IF known THEN f[1] ELSE personProfile
    /\ UNCHANGED <<drawn, pointer, selected, showCardsModal, overlapped, gestures>>

-------------------------------------------------------------------------------
PanelMounted ==
  /\ drawn = {} /\ hovered = NoOne /\ active = NoOne /\ dragged = NoOne /\ gestures = 0
  /\ selected = NoOne /\ personCards = NoOne /\ personProfile = NoOne
  /\ cardsLoading = FALSE /\ showCardsModal = FALSE /\ fetches = {} /\ overlapped = FALSE

PanelNext ==
  PointerDown \/ PointerMove \/ PointerUp \/ ResetView \/ GraphArrives \/ ViewCardsOf \/ ViewCards
  \/ Clear \/ CloseModal \/ PersonFetched

-------------------------------------------------------------------------------
(* The inductive invariant behind what Client says of the panel.           *)

\* As long as no fetch overlapped another, the one in flight is for the person
\* selected, or it has come.
PanelInv ==
  /\ overlapped \in BOOLEAN
  /\ ~overlapped /\ selected # NoOne =>
       \/ fetches = {} /\ personCards = selected /\ personProfile \in {selected, NoOne}
       \/ \E f \in fetches : fetches = {f} /\ f[1] = selected /\ personProfile = NoOne
  /\ cardsLoading => fetches # {}
===============================================================================
