----------------------------- MODULE Client_proofs -----------------------------
(***************************************************************************)
(* What the pages settle on, for every instance: each page has an          *)
(* inductive invariant of its own, and a step of one page leaves the       *)
(* others alone.                                                           *)
(***************************************************************************)
EXTENDS Client, FiniteSetTheorems, WellFoundedInduction, TLAPS

-------------------------------------------------------------------------------
(* The tab of card handoffs.                                               *)

LEMMA HandoffsStart ==
  ASSUME HandoffsMounted \/ HandoffsClosed
  PROVE  HandoffsInv
<1>1. CASE HandoffsMounted
  <2>1. PICK l : l = [for |-> "mount", done |-> FALSE, got |-> Unread]
    OBVIOUS
  <2>2. LoadShape(l) /\ ~l.done /\ reads = {l}
    BY <1>1, <2>1 DEF LoadShape, HandoffsMounted
  <2> QED
    BY <1>1, <2>2 DEF HandoffsInv, HandoffsMounted
<1>2. CASE HandoffsClosed
  BY <1>2 DEF HandoffsClosed, HandoffsInv
<1> QED
  BY <1>1, <1>2

LEMMA HandoffsServed ==
  ASSUME HandoffsInv, AnswerServed
  PROVE  HandoffsInv'
<1>1. PICK c \in asked, pc \in {"ok", "failed"} :
        /\ c.pc = "asked" /\ asked' = (asked \ {c}) \cup {[c EXCEPT !.pc = pc]}
        /\ IF Granted(c.deal, c.step)
           THEN /\ Perform(c.deal, c.step)
                /\ IF pc = "ok" THEN UNCHANGED <<lagging, moves>> ELSE Move /\ lagging' = TRUE
           ELSE pc = "failed" /\ UNCHANGED <<deals, lagging, moves>>
        /\ UNCHANGED <<cards, reads, dealBusy, contacts>>
  BY DEF AnswerServed
<1>2. PICK k : k = [c EXCEPT !.pc = pc]
  OBVIOUS
<1>3. CallShape(k) /\ k.pc = pc /\ k.step = c.step /\ k.deal = c.deal
  BY <1>2 DEF HandoffsInv, CallShape
<1>4. asked' = (asked \ {c}) \cup {k}
  BY <1>1, <1>2
<1>5. \A d \in asked' : CallShape(d)
  BY <1>3, <1>4 DEF HandoffsInv
<1>6. \A d \in asked : d.pc = "ok" => d \in asked'
  BY <1>1, <1>4
<1>7. (\E d \in asked : d.step # "reveal") => \E d \in asked' : d.step # "reveal"
  BY <1>3, <1>4
<1>8. ~lagging' => (\E d \in asked' : d.pc = "ok" /\ d.step # "reveal") \/ UNCHANGED <<deals, lagging>>
  BY <1>1, <1>3, <1>4 DEF Perform
<1> QED
  BY <1>1, <1>5, <1>6, <1>7, <1>8 DEF HandoffsInv

LEMMA HandoffsAnswered ==
  ASSUME HandoffsInv, Answered
  PROVE  HandoffsInv'
<1>1. PICK c \in asked :
        /\ c.pc # "asked" /\ c.step # "reveal" /\ asked' = asked \ {c}
        /\ IF c.pc = "ok"
           THEN /\ reads' = reads \cup {[for |-> "answer", done |-> FALSE, got |-> Unread]}
                /\ lagging' = (reads # {}) /\ UNCHANGED dealBusy
           ELSE dealBusy' = NoDeal /\ UNCHANGED <<reads, lagging>>
        /\ UNCHANGED <<deals, cards, contacts, moves>>
  BY DEF Answered
<1>2. CASE c.pc = "ok"
  <2>1. PICK l : l = [for |-> "answer", done |-> FALSE, got |-> Unread]
    OBVIOUS
  <2>2. reads' = reads \cup {l} /\ LoadShape(l) /\ l.for = "answer" /\ ~l.done
    BY <1>1, <1>2, <2>1 DEF LoadShape
  <2>3. ~lagging' => reads' = {l}
    BY <1>1, <1>2, <2>2
  <2> QED
    BY <1>1, <1>2, <2>2, <2>3 DEF HandoffsInv
<1>3. CASE c.pc # "ok"
  BY <1>1, <1>3 DEF HandoffsInv
<1> QED
  BY <1>2, <1>3

LEMMA HandoffsRead ==
  ASSUME HandoffsInv, CardsRead
  PROVE  HandoffsInv'
<1>1. PICK l \in reads, failed \in BOOLEAN :
        /\ ~l.done
        /\ reads' = (reads \ {l}) \cup {[l EXCEPT !.done = TRUE, !.got = IF failed THEN Unread ELSE deals]}
        /\ IF failed THEN Move /\ lagging' = TRUE ELSE UNCHANGED <<lagging, moves>>
        /\ UNCHANGED <<deals, cards, asked, dealBusy, contacts>>
  BY DEF CardsRead
<1>2. PICK k : k = [l EXCEPT !.done = TRUE, !.got = IF failed THEN Unread ELSE deals]
  OBVIOUS
<1>3. LoadShape(k) /\ k.for = l.for /\ (~failed => k.got = deals)
  <2>1. l = [for |-> l.for, done |-> l.done, got |-> l.got]
    BY DEF HandoffsInv, LoadShape
  <2>2. k = [for |-> l.for, done |-> TRUE, got |-> IF failed THEN Unread ELSE deals]
    BY <1>2, <2>1
  <2> QED
    BY <2>2 DEF LoadShape
<1>4. reads' = (reads \ {l}) \cup {k}
  BY <1>1, <1>2
<1>5. \A m \in reads : reads = {m} => reads' = {k}
  BY <1>4
<1>6. (\E m \in reads : m.for = "answer") => \E m \in reads' : m.for = "answer"
  BY <1>3, <1>4
<1>7. \A m \in reads' : LoadShape(m)
  BY <1>3, <1>4 DEF HandoffsInv
<1> QED
  BY <1>1, <1>3, <1>4, <1>5, <1>6, <1>7 DEF HandoffsInv

LEMMA HandoffsStep ==
  ASSUME HandoffsInv, [HandoffsNext]_handoffVars
  PROVE  HandoffsInv'
<1>1. CASE UNCHANGED handoffVars
  BY <1>1 DEF HandoffsInv, handoffVars
<1>2. CASE OthersAnswer
  BY <1>2 DEF OthersAnswer, HandoffsInv
<1>3. CASE ClickAnswer
  <2>1. PICK c : /\ c = [deal |-> c.deal, step |-> c.step, pc |-> "asked"] /\ c.step # "reveal"
                 /\ asked' = asked \cup {c}
    BY <1>3 DEF ClickAnswer
  <2> QED
    BY <1>3, <2>1 DEF ClickAnswer, HandoffsInv, CallShape
<1>4. CASE ClickReveal
  <2>1. PICK c : c = [deal |-> c.deal, step |-> c.step, pc |-> "asked"] /\ asked' = asked \cup {c}
    BY <1>4 DEF ClickReveal
  <2> QED
    BY <1>4, <2>1 DEF ClickReveal, HandoffsInv, CallShape
<1>5. CASE Revealed
  BY <1>5 DEF Revealed, HandoffsInv
<1>6. CASE CardsLoaded
  <2>1. PICK l \in reads :
          /\ l.done /\ reads' = reads \ {l} /\ cards' = l.got
          /\ dealBusy' = IF l.for = "answer" THEN NoDeal ELSE dealBusy
          /\ UNCHANGED <<deals, asked, contacts, lagging, moves>>
    BY <1>6 DEF CardsLoaded
  <2> QED
    BY <2>1 DEF HandoffsInv
<1> QED
  BY <1>1, <1>2, <1>3, <1>4, <1>5, <1>6, HandoffsServed, HandoffsAnswered, HandoffsRead DEF HandoffsNext

-------------------------------------------------------------------------------
(* The panel about a person.                                               *)

LEMMA PanelStart ==
  ASSUME PanelMounted
  PROVE  PanelInv
BY DEF PanelMounted, PanelInv

LEMMA PanelSelect ==
  ASSUME PanelInv, NEW p, Select(p)
  PROVE  PanelInv'
<1>1. CASE p = selected
  BY <1>1 DEF Select, PanelInv
<1>2. CASE p # selected /\ p = NoOne
  BY <1>2 DEF Select, PanelInv
<1>3. CASE p # selected /\ p # NoOne
  <2>1. PICK f : f = <<p, gestures>>
    OBVIOUS
  <2>2. /\ f[1] = p /\ fetches' = fetches \cup {f} /\ selected' = p /\ personProfile' = NoOne
        /\ overlapped' = (fetches # {})
    BY <1>3, <2>1 DEF Select
  <2>3. ~overlapped' => fetches' = {f}
    BY <2>2
  <2> QED
    BY <2>2, <2>3 DEF PanelInv
<1> QED
  BY <1>1, <1>2, <1>3

LEMMA PanelStep ==
  ASSUME PanelInv, [PanelNext]_panelVars
  PROVE  PanelInv'
<1>1. ASSUME UNCHANGED <<selected, personCards, personProfile, cardsLoading, fetches, overlapped>>
      PROVE  PanelInv'
  BY <1>1 DEF PanelInv
<1>2. CASE UNCHANGED panelVars
  BY <1>1, <1>2 DEF panelVars, panel
<1>3. CASE PointerDown \/ ViewCardsOf \/ Clear
  BY <1>3, PanelSelect DEF PointerDown, ViewCardsOf, Clear
<1>4. CASE PointerMove \/ PointerUp \/ ResetView \/ GraphArrives
  BY <1>1, <1>4 DEF PointerMove, PointerUp, ResetView, GraphArrives, panel
<1>5. CASE ViewCards \/ CloseModal
  BY <1>1, <1>5 DEF ViewCards, CloseModal
<1>6. CASE PersonFetched
  <2>1. PICK f \in fetches, known \in BOOLEAN :
          /\ fetches' = fetches \ {f} /\ cardsLoading' = FALSE
          /\ personCards' = f[1] /\ personProfile' = IF known THEN f[1] ELSE personProfile
          /\ UNCHANGED <<drawn, pointer, selected, showCardsModal, overlapped, gestures>>
    BY <1>6 DEF PersonFetched
  <2> QED
    BY <2>1 DEF PanelInv
<1> QED
  BY <1>2, <1>3, <1>4, <1>5, <1>6 DEF PanelNext
-------------------------------------------------------------------------------
(* The session and the profile.                                            *)

LEMMA RowForm ==
  ASSUME NEW row \in Rows \cup {NoRow}
  PROVE  row.avatar \in Avatars /\ [name |-> row.name, handle |-> Handle(row)] \in Forms
<1>1. CASE row \in Rows
  BY <1>1 DEF Rows, Forms, Handles, Handle
<1>2. CASE row = NoRow
  BY <1>2 DEF Avatars, NoRow, Forms, Handles, Handle
<1> QED
  BY <1>1, <1>2

LEMMA AccountStart ==
  ASSUME AccountAssumption, AccountMounted \/ AccountClosed
  PROVE  AccountInv
<1>1. /\ AccountTypes /\ syncs = {} /\ entering = {} /\ updating = {} /\ said = Nothing /\ crossed = FALSE
      /\ registered = {u \in Accounts : profiles[u] # NoRow}
  <2>1. NoRow \in {NoRow} /\ FirstRow \in Rows /\ [name |-> 1, avatar |-> "photo"] \in Rows /\ Nothing \in Forms
    BY DEF FirstRow, Rows, Avatars, Forms, Nothing, Names, Handles
  <2>2. CASE AccountMounted
    <3>1. profiles \in [Accounts -> Rows \cup {NoRow}]
      BY <2>1, <2>2 DEF AccountMounted, FirstRow
    <3>2. /\ profile \in Rows \cup {NoRow}
          /\ signedIn \in Accounts \cup {Guest} /\ session \in Accounts \cup {Guest}
      BY <2>2, <3>1 DEF AccountMounted
    <3>3. form \in Forms /\ said \in Forms
      BY <2>1, <2>2, <3>2, RowForm DEF AccountMounted, Handle
    <3>4. /\ authLoading \in BOOLEAN /\ boot \in {{}, {"session", "event"}} /\ tries \in {0, 1}
      BY <2>2 DEF AccountMounted
    <3>6. registered = {u \in Accounts : profiles[u] # NoRow}
      BY <2>2 DEF AccountMounted
    <3>5. syncs = {} /\ entering = {} /\ updating = {} /\ said = Nothing /\ crossed = FALSE
      BY <2>2 DEF AccountMounted
    <3> QED
      <4>1. registered \subseteq Accounts /\ boot \subseteq {"session", "event"} /\ tries \in Nat
        BY <3>4, <3>6
      <4> QED
        BY <3>1, <3>2, <3>3, <3>4, <3>5, <3>6, <4>1 DEF AccountTypes
  <2>3. CASE AccountClosed
    BY <2>1, <2>3 DEF AccountClosed, AccountTypes
  <2> QED
    BY <2>2, <2>3
<1>2. \/ session = Guest /\ profile = NoRow /\ boot \in {{}, {"session", "event"}}
      \/ /\ session # Guest /\ session = signedIn /\ profile = profiles[session] /\ boot = {}
         /\ avatarPreview = profile.avatar
  BY DEF AccountMounted, AccountClosed
<1>3. /\ signedIn \in registered \cup {Guest} /\ (boot = {} => signedIn = session)
      /\ authLoading => "session" \in boot
  BY DEF AccountMounted, AccountClosed
<1>4. UpToDate \/ session = Guest
  BY <1>1, <1>2 DEF UpToDate
<1> QED
  BY <1>1, <1>2, <1>3, <1>4 DEF AccountInv

LEMMA MemberOrNot ==
  ASSUME NEW x, NEW A
  PROVE  (x \in A) \in BOOLEAN
OBVIOUS

\* What a call carries when it is made.
LEMMA SyncMade ==
  ASSUME AccountTypes, NEW for \in Reasons,
         NEW user \in Accounts, NEW name \in {0} \cup Names, NEW avatar \in Avatars
  PROVE  /\ Sync(for, user, name, avatar) \in SyncCall
         /\ Sync(for, user, name, avatar).for = for /\ Sync(for, user, name, avatar).user = user
         /\ Sync(for, user, name, avatar).name = name /\ Sync(for, user, name, avatar).avatar = avatar
         /\ Sync(for, user, name, avatar).pc = "asked"
         /\ Sync(for, user, name, avatar).here <=> for \in {"profile", "avatar", "password"}
         /\ for = "profile" => Sync(for, user, name, avatar).form = form
         /\ for = "avatar" => Sync(for, user, name, avatar).last = profile.avatar
<1>1. (IF for = "profile" THEN form ELSE Nothing) \in Forms
  <2>1. Nothing \in Forms
    BY DEF Forms, Nothing, Names, Handles
  <2> QED
    BY <2>1 DEF AccountTypes
<1>2. (IF for = "avatar" THEN profile.avatar ELSE "null") \in Avatars
  <2>1. profile.avatar \in Avatars
    BY RowForm DEF AccountTypes
  <2> QED
    BY <2>1 DEF Avatars
<1>3. tries \in Nat
  BY DEF AccountTypes
<1>4. (for \in {"profile", "avatar", "password"}) \in BOOLEAN
  BY MemberOrNot
<1>5. Sync(for, user, name, avatar) \in SyncCall
  BY <1>1, <1>2, <1>3, <1>4 DEF Sync, SyncCall
<1>6. Sync(for, user, name, avatar).for = for /\ Sync(for, user, name, avatar).user = user
  BY DEF Sync
<1>7. Sync(for, user, name, avatar).name = name /\ Sync(for, user, name, avatar).avatar = avatar
  BY DEF Sync
<1>8. Sync(for, user, name, avatar).pc = "asked"
  BY DEF Sync
<1>9. Sync(for, user, name, avatar).here <=> for \in {"profile", "avatar", "password"}
  BY <1>4 DEF Sync
<1>10. for = "profile" => Sync(for, user, name, avatar).form = form
  BY DEF Sync
<1>11. for = "avatar" => Sync(for, user, name, avatar).last = profile.avatar
  BY DEF Sync
<1> QED
  BY <1>5, <1>6, <1>7, <1>8, <1>9, <1>10, <1>11

\* A call the page makes.
LEMMA PageCall ==
  ASSUME AccountTypes, NEW for \in {"profile", "avatar", "password"}, NEW user \in Accounts,
         NEW name \in {0} \cup Names, NEW avatar \in Avatars
  PROVE  /\ Sync(for, user, name, avatar) \in SyncCall
         /\ Sync(for, user, name, avatar).for = for /\ Sync(for, user, name, avatar).user = user
         /\ Sync(for, user, name, avatar).name = name /\ Sync(for, user, name, avatar).avatar = avatar
         /\ Sync(for, user, name, avatar).pc = "asked" /\ Sync(for, user, name, avatar).here
         /\ for = "profile" => Sync(for, user, name, avatar).form = form
         /\ for = "avatar" => Sync(for, user, name, avatar).last = profile.avatar
<1>1. for \in Reasons
  BY DEF Reasons
<1> QED
  BY <1>1, SyncMade

\* The call that follows an auth event.
LEMMA EventCall ==
  ASSUME AccountTypes, NEW for \in {"init", "event"}, NEW user \in Accounts
  PROVE  /\ Sync(for, user, 0, "null") \in SyncCall
         /\ Sync(for, user, 0, "null").for = for /\ Sync(for, user, 0, "null").user = user
         /\ Sync(for, user, 0, "null").avatar = "null" /\ Sync(for, user, 0, "null").pc = "asked"
         /\ ~Sync(for, user, 0, "null").here
         /\ WellFormed(Sync(for, user, 0, "null")) /\ ~Writes(Sync(for, user, 0, "null"))
<1>1. for \in Reasons /\ 0 \in {0} \cup Names /\ "null" \in Avatars
  BY DEF Reasons, Avatars
<1>2. /\ Sync(for, user, 0, "null") \in SyncCall
      /\ Sync(for, user, 0, "null").for = for /\ Sync(for, user, 0, "null").user = user
      /\ Sync(for, user, 0, "null").name = 0 /\ Sync(for, user, 0, "null").avatar = "null"
      /\ Sync(for, user, 0, "null").pc = "asked"
      /\ Sync(for, user, 0, "null").here <=> for \in {"profile", "avatar", "password"}
  BY <1>1, SyncMade
<1>3. ~(for \in {"profile", "avatar", "password"})
  OBVIOUS
<1>4. ~Sync(for, user, 0, "null").here
  BY <1>2, <1>3
<1>5. WellFormed(Sync(for, user, 0, "null")) /\ ~Writes(Sync(for, user, 0, "null"))
  BY <1>2, <1>4 DEF WellFormed, Writes
<1> QED
  BY <1>2, <1>4, <1>5

\* Calls made for who is signed in, once the session has been read.
LEMMA AccountStarted ==
  ASSUME AccountInv, NEW new \in SUBSET SyncCall, new # {}, Start(new),
         UNCHANGED <<profiles, registered, signedIn, profile, entering>>,
         signedIn # Guest, session \in {Guest, signedIn}, session' = signedIn,
         boot' \subseteq boot,
         form' \in Forms, tries' \in Nat, authLoading' \in BOOLEAN,
         \A s \in new : /\ WellFormed(s) /\ s.user = signedIn /\ s.for # "signup"
                        /\ s.pc = "asked" \/ (s.pc = "failed" /\ s.for = "avatar" /\ session # Guest)
                        /\ s.for = "profile" => said' = Nothing
                        /\ Writes(s) => new = {s}
                        /\ s.avatar = "photo" => s.here /\ s.last = profile.avatar
                        /\ s.pc = "failed" => s.avatar = "photo",
         said' \in {said, Nothing},
         updating' \subseteq updating \cup {s.for : s \in {x \in new : x.here}},
         authLoading' => "session" \in boot' \/ \E s \in syncs \cup new : s.for = "init"
  PROVE  AccountInv'
<1>1. syncs' = syncs \cup new /\ crossed' = (crossed \/ (syncs # {} /\ \E s \in syncs \cup new : Writes(s)))
  BY DEF Start
<1>2. AccountTypes'
  <2>1. said' \in Forms
    BY DEF AccountInv, AccountTypes, Forms, Nothing, Names, Handles
  <2>2. updating' \subseteq {"profile", "avatar", "password"}
    BY DEF AccountInv, AccountTypes, WellFormed
  <2> QED
    BY <1>1, <2>1, <2>2 DEF AccountInv, AccountTypes
<1>3. session' # Guest /\ entering = {}
  BY DEF AccountInv
<1>4. \A s \in syncs' : WellFormed(s)' /\ s.user \in registered'
  BY <1>1 DEF AccountInv, WellFormed, Writes
<1>5. \A x \in updating' : \E s \in syncs' : s.for = x /\ s.here
  BY <1>1 DEF AccountInv
<1>6. ASSUME ~crossed'
      PROVE  /\ \A s \in syncs' : Current(s)'
             /\ said' # Nothing => profiles'[session'].name = said'.name
             /\ (\E s \in syncs' : s.pc # "failed") \/ UpToDate'
  <2>1. ~crossed /\ (syncs = {} \/ \A s \in syncs' : ~Writes(s))
    BY <1>1, <1>6
  <2>2. session = Guest => syncs = {} /\ said = Nothing
    BY <2>1 DEF AccountInv
  <2>3. ASSUME NEW s \in syncs'
        PROVE  Current(s)'
    <3>1. CASE s \in syncs
      BY <1>1, <2>1, <2>2, <3>1 DEF AccountInv, Current, Writes, FirstRow
    <3>2. CASE s \in new
      BY <1>1, <2>1, <3>2 DEF Current, Writes
    <3> QED
      BY <1>1, <2>3, <3>1, <3>2
  <2>4. said' # Nothing => profiles'[session'].name = said'.name
    BY <2>1, <2>2 DEF AccountInv
  <2>5. ASSUME \A s \in syncs' : s.pc = "failed"
        PROVE  UpToDate'
    <3>1. PICK s \in new : s.pc = "failed" /\ s.for = "avatar" /\ session # Guest /\ new = {s}
                           /\ s.avatar = "photo" /\ s.here /\ s.last = profile.avatar
      BY <1>1, <2>5 DEF Writes
    <3>2. syncs = {} /\ syncs' = {s}
      BY <1>1, <2>1, <3>1 DEF Writes
    <3>3. UpToDate
      BY <2>1, <3>1, <3>2 DEF AccountInv
    <3> QED
      BY <3>1, <3>2, <3>3 DEF UpToDate
  <2> QED
    BY <2>3, <2>4, <2>5
<1>7. /\ \A u \in Accounts : profiles'[u] # NoRow => u \in registered'
      /\ signedIn' \in registered'
      /\ \A e \in entering' : e.mode = "sign-up" => e.user \notin registered'
      /\ said' # Nothing => said'.name # 0
  BY DEF AccountInv
<1> QED
  BY <1>1, <1>2, <1>3, <1>4, <1>5, <1>6, <1>7 DEF AccountInv
\* The session that has been read is the one that is stored.
LEMMA SessionIsStored ==
  ASSUME AccountInv, session # Guest
  PROVE  session = signedIn /\ signedIn # Guest /\ signedIn \in Accounts
BY DEF AccountInv, AccountTypes

LEMMA FormsHere ==
  Nothing \in Forms
BY DEF Forms, Nothing, Names, Handles

LEMMA SessionReadKeeps ==
  ASSUME AccountInv, SessionRead
  PROVE  AccountInv'
<1>1. CASE signedIn = Guest
  <2>1. /\ session' = Guest /\ session = Guest /\ authLoading' = FALSE /\ boot' = boot \ {"session"}
        /\ UNCHANGED <<syncs, crossed, profiles, registered, signedIn, profile, entering, pageState, tries>>
    BY <1>1 DEF SessionRead, AccountInv
  <2>2. AccountTypes'
    BY <2>1 DEF AccountInv, AccountTypes, pageState
  <2>3. \A s \in syncs' : WellFormed(s)'
    BY <2>1 DEF AccountInv, WellFormed, Writes
  <2> QED
    BY <1>1, <2>1, <2>2, <2>3 DEF AccountInv, pageState
<1>2. CASE signedIn # Guest
  <2>1. signedIn \in Accounts /\ session \in {Guest, signedIn}
    BY <1>2 DEF SessionRead, AccountInv, AccountTypes
  <2>2. PICK s : s = Sync("init", signedIn, 0, "null")
    OBVIOUS
  <2>3. Start({s})
    BY <1>2, <2>2 DEF SessionRead
  <2>4. /\ s \in SyncCall /\ s.for = "init" /\ s.user = signedIn /\ s.avatar = "null"
        /\ s.pc = "asked" /\ ~s.here /\ WellFormed(s) /\ ~Writes(s)
    BY <2>1, <2>2, EventCall DEF AccountInv
  <2>6. /\ UNCHANGED <<profiles, registered, signedIn, profile, entering, updating, form, said, authLoading, tries>>
        /\ session' = signedIn /\ boot' \subseteq boot
    BY <1>2 DEF SessionRead, pageState
  <2>7. form' \in Forms /\ tries' \in Nat /\ authLoading' \in BOOLEAN
    BY <2>6 DEF AccountInv, AccountTypes
  <2> QED
    BY <1>2, <2>1, <2>3, <2>4, <2>6, <2>7, AccountStarted
<1> QED
  BY <1>1, <1>2

LEMMA InitialEventKeeps ==
  ASSUME AccountInv, InitialEvent
  PROVE  AccountInv'
<1>1. CASE signedIn = Guest
  <2>1. /\ session' = Guest /\ session = Guest /\ profile' = NoRow /\ boot' = boot \ {"event"}
        /\ UNCHANGED <<syncs, crossed, form, avatarPreview, profiles, registered, signedIn, authLoading,
                       entering, updating, said, tries>>
    BY <1>1 DEF InitialEvent, AccountInv
  <2>2. AccountTypes'
    BY <2>1 DEF AccountInv, AccountTypes
  <2>3. \A s \in syncs' : WellFormed(s)'
    BY <2>1 DEF AccountInv, WellFormed, Writes
  <2> QED
    BY <1>1, <2>1, <2>2, <2>3 DEF AccountInv
<1>2. CASE signedIn # Guest
  <2>1. signedIn \in Accounts /\ session \in {Guest, signedIn}
    BY <1>2 DEF InitialEvent, AccountInv, AccountTypes
  <2>2. PICK s : s = Sync("event", signedIn, 0, "null")
    OBVIOUS
  <2>3. Start({s})
    BY <1>2, <2>2 DEF InitialEvent
  <2>4. /\ s \in SyncCall /\ s.for = "event" /\ s.user = signedIn /\ s.avatar = "null"
        /\ s.pc = "asked" /\ ~s.here /\ WellFormed(s) /\ ~Writes(s)
    BY <2>1, <2>2, EventCall DEF AccountInv
  <2>5. /\ UNCHANGED <<profiles, registered, signedIn, profile, entering, updating, form, said, authLoading, tries>>
        /\ session' = signedIn /\ boot' = boot \ {"event"}
    BY <1>2 DEF InitialEvent
  <2>6. form' \in Forms /\ tries' \in Nat /\ authLoading' \in BOOLEAN /\ boot' \subseteq boot
    BY <2>5 DEF AccountInv, AccountTypes
  <2>7. authLoading' => "session" \in boot' \/ \E x \in syncs \cup {s} : x.for = "init"
    BY <2>5 DEF AccountInv
  <2> QED
    BY <1>2, <2>1, <2>3, <2>4, <2>5, <2>6, <2>7, AccountStarted
<1> QED
  BY <1>1, <1>2

\* Calls made while somebody is signed in.
LEMMA AccountActed ==
  ASSUME AccountInv, session # Guest, NEW new \in SUBSET SyncCall, new # {}, Start(new),
         UNCHANGED <<profiles, authVars>>, form' \in Forms, tries' \in Nat,
         \A s \in new : /\ WellFormed(s) /\ s.user = session /\ s.for # "signup"
                        /\ s.pc = "asked" \/ (s.pc = "failed" /\ s.for = "avatar")
                        /\ s.for = "profile" => said' = Nothing
                        /\ Writes(s) => new = {s}
                        /\ s.avatar = "photo" => s.here /\ s.last = profile.avatar
                        /\ s.pc = "failed" => s.avatar = "photo",
         said' \in {said, Nothing},
         updating' \subseteq updating \cup {s.for : s \in {x \in new : x.here}}
  PROVE  AccountInv'
<1>1. session = signedIn /\ signedIn # Guest
  BY SessionIsStored
<1>2. /\ UNCHANGED <<profiles, registered, signedIn, profile, entering>> /\ session' = signedIn /\ boot' = boot
      /\ authLoading' = authLoading
  BY <1>1 DEF authVars
<1>3. /\ boot' \subseteq boot /\ authLoading' \in BOOLEAN
      /\ authLoading' => "session" \in boot' \/ \E s \in syncs \cup new : s.for = "init"
  BY <1>2 DEF AccountInv, AccountTypes
<1>4. session \in {Guest, signedIn}
  BY <1>1
<1> QED
  BY <1>1, <1>2, <1>3, <1>4, AccountStarted

LEMMA TriesCount ==
  ASSUME AccountTypes, Tries
  PROVE  tries' \in Nat
BY DEF AccountTypes, Tries

LEMMA TokenRefreshedKeeps ==
  ASSUME AccountInv, TokenRefreshed
  PROVE  AccountInv'
<1>1. session # Guest /\ session \in Accounts
  BY DEF TokenRefreshed, AccountInv, AccountTypes
<1>2. PICK s : s = Sync("event", session, 0, "null")
  OBVIOUS
<1>3. /\ s \in SyncCall /\ s.for = "event" /\ s.user = session /\ s.avatar = "null"
      /\ s.pc = "asked" /\ ~s.here /\ WellFormed(s) /\ ~Writes(s)
  BY <1>1, <1>2, EventCall DEF AccountInv
<1>4. Start({s}) /\ UNCHANGED <<profiles, authVars, updating, form, said>>
  BY <1>2 DEF TokenRefreshed, pageState
<1>5. form' \in Forms /\ tries' \in Nat
  BY <1>4, TriesCount DEF TokenRefreshed, AccountInv, AccountTypes
<1> QED
  BY <1>1, <1>3, <1>4, <1>5, AccountActed

LEMMA ProfileSubmitKeeps ==
  ASSUME AccountInv, ProfileSubmit
  PROVE  AccountInv'
<1>1. session # Guest /\ session \in Accounts
  BY DEF ProfileSubmit, AccountInv, AccountTypes
<1>2. PICK s : s = Sync("profile", session, form.name, "null")
  OBVIOUS
<1>3. form \in Forms /\ form.name \in Names
  BY DEF ProfileSubmit, AccountInv, AccountTypes, Forms
<1>4. "null" \in Avatars /\ form.name \in {0} \cup Names
  BY <1>3 DEF Avatars
<1>5. /\ s \in SyncCall /\ s.for = "profile" /\ s.user = session /\ s.name = form.name /\ s.avatar = "null"
      /\ s.pc = "asked" /\ s.form = form /\ s.here
  <2>1. AccountTypes /\ "profile" \in {"profile", "avatar", "password"}
    BY DEF AccountInv
  <2>2. \A name \in {0} \cup Names, avatar \in Avatars :
          LET c == Sync("profile", session, name, avatar)
          IN  c \in SyncCall /\ c.user = session /\ c.pc = "asked" /\ c.here
    BY <1>1, <2>1, PageCall
  <2>3. s \in SyncCall /\ s.user = session /\ s.pc = "asked" /\ s.here
    BY <1>2, <1>4, <2>2
  <2>4. s.for = "profile" /\ s.name = form.name /\ s.avatar = "null" /\ s.form = form
    BY <1>2 DEF Sync
  <2> QED
    BY <2>3, <2>4
<1>6. s.here
  BY <1>5
<1>7. WellFormed(s)
  BY <1>5 DEF ProfileSubmit, WellFormed, Writes
<1>8. Start({s}) /\ said' = Nothing /\ UNCHANGED <<profiles, authVars, form>>
  BY <1>2 DEF ProfileSubmit
<1>9. updating' \subseteq updating \cup {x.for : x \in {y \in {s} : y.here}}
  BY <1>5, <1>6 DEF ProfileSubmit
<1>10. form' \in Forms /\ tries' \in Nat
  BY <1>3, <1>8, TriesCount DEF ProfileSubmit, AccountInv
<1> QED
  BY <1>1, <1>5, <1>7, <1>8, <1>9, <1>10, AccountActed

LEMMA PhotoSelectedKeeps ==
  ASSUME AccountInv, PhotoSelected
  PROVE  AccountInv'
<1>1. session # Guest /\ session \in Accounts
  BY DEF PhotoSelected, AccountInv, AccountTypes
<1>2. PICK s : s = Sync("avatar", session, 0, "photo")
  OBVIOUS
<1>3. "photo" \in Avatars /\ 0 \in {0} \cup Names
  BY DEF Avatars
<1>4. /\ s \in SyncCall /\ s.for = "avatar" /\ s.user = session /\ s.name = 0 /\ s.avatar = "photo"
      /\ s.pc = "asked" /\ s.last = profile.avatar /\ s.here
  BY <1>1, <1>2, <1>3, PageCall DEF AccountInv
<1>5. s.here
  BY <1>4
<1>6. PICK k : k = [s EXCEPT !.pc = "failed"]
  OBVIOUS
<1>7. /\ k \in SyncCall /\ k.for = "avatar" /\ k.user = session /\ k.name = 0 /\ k.avatar = "photo"
      /\ k.pc = "failed" /\ k.last = profile.avatar /\ k.here
  BY <1>4, <1>5, <1>6 DEF SyncCall
<1>8. PICK c \in {s, k} : Start({c})
  BY <1>2, <1>6 DEF PhotoSelected
<1>9. /\ c \in SyncCall /\ c.for = "avatar" /\ c.user = session /\ c.name = 0 /\ c.avatar = "photo"
      /\ c.pc \in {"asked", "failed"} /\ c.last = profile.avatar /\ c.here
  BY <1>4, <1>5, <1>7, <1>8
<1>10. WellFormed(c)
  BY <1>9 DEF WellFormed, Writes
<1>11. updating' = updating \cup {"avatar"} /\ UNCHANGED <<profiles, authVars, form, said>>
  BY DEF PhotoSelected
<1>12. updating' \subseteq updating \cup {x.for : x \in {y \in {c} : y.here}}
  BY <1>9, <1>11
<1>13. form' \in Forms /\ tries' \in Nat
  BY <1>11, TriesCount DEF PhotoSelected, AccountInv, AccountTypes
<1> QED
  BY <1>1, <1>8, <1>9, <1>10, <1>11, <1>12, <1>13, AccountActed

LEMMA RemovePhotoKeeps ==
  ASSUME AccountInv, RemovePhoto
  PROVE  AccountInv'
<1>1. session # Guest /\ session \in Accounts
  BY DEF RemovePhoto, AccountInv, AccountTypes
<1>2. PICK s : s = Sync("avatar", session, 0, "")
  OBVIOUS
<1>3. "" \in Avatars /\ 0 \in {0} \cup Names
  BY DEF Avatars
<1>4. /\ s \in SyncCall /\ s.for = "avatar" /\ s.user = session /\ s.name = 0 /\ s.avatar = ""
      /\ s.pc = "asked" /\ s.here
  <2>1. AccountTypes /\ "avatar" \in {"profile", "avatar", "password"}
    BY DEF AccountInv
  <2>2. \A name \in {0} \cup Names, avatar \in Avatars :
          LET c == Sync("avatar", session, name, avatar)
          IN  c \in SyncCall /\ c.user = session /\ c.pc = "asked" /\ c.here
    BY <1>1, <2>1, PageCall
  <2>3. s \in SyncCall /\ s.user = session /\ s.pc = "asked" /\ s.here
    BY <1>2, <1>3, <2>2
  <2>4. s.for = "avatar" /\ s.name = 0 /\ s.avatar = ""
    BY <1>2 DEF Sync
  <2> QED
    BY <2>3, <2>4
<1>5. s.here
  BY <1>4
<1>6. WellFormed(s)
  BY <1>4 DEF WellFormed, Writes
<1>7. Start({s}) /\ updating' = updating \cup {"avatar"} /\ UNCHANGED <<profiles, authVars, form, said>>
  BY <1>2 DEF RemovePhoto
<1>8. updating' \subseteq updating \cup {x.for : x \in {y \in {s} : y.here}}
  BY <1>4, <1>5, <1>7
<1>9. form' \in Forms /\ tries' \in Nat
  BY <1>7, TriesCount DEF RemovePhoto, AccountInv, AccountTypes
<1> QED
  BY <1>1, <1>4, <1>6, <1>7, <1>8, <1>9, AccountActed

LEMMA PasswordSubmitKeeps ==
  ASSUME AccountInv, PasswordSubmit
  PROVE  AccountInv'
<1>1. session # Guest /\ session \in Accounts
  BY DEF PasswordSubmit, AccountInv, AccountTypes
<1>2. CASE UNCHANGED <<updating, syncs, crossed>>
  <2>1. UNCHANGED <<profiles, authVars, pageState, syncs, crossed>>
    BY <1>2 DEF PasswordSubmit, pageState
  <2>2. AccountTypes'
    BY <2>1, TriesCount DEF PasswordSubmit, AccountInv, AccountTypes, authVars, pageState
  <2>3. /\ \A s \in syncs' : WellFormed(s)' /\ (Current(s)' <=> Current(s))
        /\ UpToDate' <=> UpToDate
    BY <2>1 DEF AccountInv, WellFormed, Writes, Current, UpToDate, authVars, pageState
  <2> QED
    BY <2>1, <2>2, <2>3 DEF AccountInv, authVars, pageState
<1>3. CASE /\ updating' = updating \cup {"password"}
           /\ Start({Sync("event", session, 0, "null"), Sync("password", session, 0, "null")})
  <2>1. PICK s, k : s = Sync("event", session, 0, "null") /\ k = Sync("password", session, 0, "null")
    OBVIOUS
  <2>2. /\ s \in SyncCall /\ s.for = "event" /\ s.user = session /\ s.avatar = "null"
        /\ s.pc = "asked" /\ ~s.here /\ WellFormed(s) /\ ~Writes(s)
    BY <1>1, <2>1, EventCall DEF AccountInv
  <2>3. "null" \in Avatars /\ 0 \in {0} \cup Names
    BY DEF Avatars
  <2>4. /\ k \in SyncCall /\ k.for = "password" /\ k.user = session /\ k.name = 0 /\ k.avatar = "null"
        /\ k.pc = "asked" /\ k.here
    BY <1>1, <2>1, <2>3, PageCall DEF AccountInv
  <2>5. k.here
    BY <2>4
  <2>6. WellFormed(k) /\ ~Writes(k)
    BY <2>4 DEF WellFormed, Writes
  <2>7. Start({s, k}) /\ UNCHANGED <<profiles, authVars, form, said>>
    BY <1>3, <2>1 DEF PasswordSubmit
  <2>8. updating' \subseteq updating \cup {x.for : x \in {y \in {s, k} : y.here}}
    BY <1>3, <2>4, <2>5
  <2>9. form' \in Forms /\ tries' \in Nat
    BY <2>7, TriesCount DEF PasswordSubmit, AccountInv, AccountTypes
  <2>10. \A c \in {s, k} : /\ WellFormed(c) /\ c.user = session /\ c.for \in {"event", "password"} /\ ~Writes(c)
                           /\ c.pc = "asked" /\ c.avatar = "null"
    BY <2>2, <2>4, <2>6
  <2>11. {s, k} \in SUBSET SyncCall /\ {s, k} # {}
    BY <2>2, <2>4
  <2> QED
    BY <1>1, <2>7, <2>8, <2>9, <2>10, <2>11, AccountActed
<1> QED
  BY <1>2, <1>3 DEF PasswordSubmit

LEMMA FormTypedKeeps ==
  ASSUME AccountInv, FormTyped
  PROVE  AccountInv'
<1>1. /\ UNCHANGED <<profiles, authVars, syncs, updating, avatarPreview, said, crossed>>
      /\ form' \in Forms /\ tries' \in Nat
  BY TriesCount DEF FormTyped, AccountInv, Forms, Names, Handles
<1>2. AccountTypes'
  BY <1>1 DEF AccountInv, AccountTypes, authVars
<1>3. /\ \A s \in syncs' : WellFormed(s)' /\ (Current(s)' <=> Current(s))
      /\ UpToDate' <=> UpToDate
  BY <1>1 DEF AccountInv, WellFormed, Writes, Current, UpToDate, authVars
<1> QED
  BY <1>1, <1>2, <1>3 DEF AccountInv, authVars

LEMMA LoginSubmittedKeeps ==
  ASSUME AccountInv, LoginSubmitted
  PROVE  AccountInv'
<1>1. PICK u \in Accounts : entering' = {[mode |-> IF u \in registered THEN "sign-in" ELSE "sign-up", user |-> u]}
  BY DEF LoginSubmitted
<1>2. PICK e : e = [mode |-> IF u \in registered THEN "sign-in" ELSE "sign-up", user |-> u]
  OBVIOUS
<1>3. /\ e \in [mode : {"sign-in", "sign-up"}, user : Accounts]
      /\ e.mode = "sign-up" => e.user \notin registered
  BY <1>2
<1>4. /\ UNCHANGED <<profiles, registered, signedIn, session, profile, authLoading, boot, syncs, pageState, crossed>>
      /\ entering' = {e} /\ boot = {} /\ session = Guest /\ tries' \in Nat
  BY <1>1, <1>2, TriesCount DEF LoginSubmitted, View, AccountInv
<1>5. AccountTypes'
  BY <1>3, <1>4 DEF AccountInv, AccountTypes, pageState
<1>6. /\ \A s \in syncs' : WellFormed(s)' /\ (Current(s)' <=> Current(s))
      /\ UpToDate' <=> UpToDate
  BY <1>4 DEF AccountInv, WellFormed, Writes, Current, UpToDate, pageState
<1> QED
  BY <1>3, <1>4, <1>5, <1>6 DEF AccountInv, pageState

\* A call the page that asked has left.
LEMMA Orphaned ==
  ASSUME NEW s \in SyncCall, NEW k, k = [s EXCEPT !.here = FALSE]
  PROVE  /\ k \in SyncCall /\ ~k.here /\ k.for = s.for /\ k.user = s.user /\ k.name = s.name
         /\ k.avatar = s.avatar /\ k.row = s.row /\ k.pc = s.pc /\ k.form = s.form /\ k.last = s.last
         /\ Writes(k) <=> Writes(s)
         /\ WellFormed(s) => WellFormed(k)
<1>1. /\ k \in SyncCall /\ ~k.here /\ k.for = s.for /\ k.user = s.user /\ k.name = s.name
      /\ k.avatar = s.avatar /\ k.row = s.row /\ k.pc = s.pc /\ k.form = s.form /\ k.last = s.last
  BY DEF SyncCall
<1> QED
  BY <1>1 DEF Writes, WellFormed

LEMMA PageLeft ==
  ASSUME AccountInv, NEW row, Left(row)
  PROVE  \A k \in syncs' : /\ k \in SyncCall /\ WellFormed(k) /\ ~k.here
                           /\ \E s \in syncs : /\ k = [s EXCEPT !.here = FALSE] /\ k.user = s.user
                                               /\ k.for = s.for /\ k.row = s.row /\ k.pc = s.pc
                                               /\ Writes(k) <=> Writes(s)
<1>1. SUFFICES ASSUME NEW s \in syncs, NEW k, k = [s EXCEPT !.here = FALSE]
               PROVE  /\ k \in SyncCall /\ WellFormed(k) /\ ~k.here /\ k.user = s.user
                      /\ k.for = s.for /\ k.row = s.row /\ k.pc = s.pc /\ (Writes(k) <=> Writes(s))
  BY DEF Left
<1>2. s \in SyncCall /\ WellFormed(s)
  BY DEF AccountInv, AccountTypes
<1> QED
  BY <1>1, <1>2, Orphaned

LEMMA SignOutKeeps ==
  ASSUME AccountInv, SignOut
  PROVE  AccountInv'
<1>1. /\ Left(NoRow) /\ boot = {} /\ session # Guest /\ signedIn' = Guest /\ session' = Guest /\ profile' = NoRow
      /\ UNCHANGED <<profiles, registered, authLoading, boot, entering>> /\ crossed' = (syncs # {})
      /\ ~authLoading /\ tries' \in Nat
  BY TriesCount DEF SignOut, Entered, View, AccountInv
<1>2. /\ form' \in Forms /\ updating' = {} /\ said' = Nothing /\ said' \in Forms
      /\ syncs' = {[s EXCEPT !.here = FALSE] : s \in syncs}
  BY <1>1, RowForm, FormsHere DEF Left
<1>3. \A k \in syncs' : /\ k \in SyncCall /\ WellFormed(k) /\ ~k.here /\ k.user \in registered
  BY <1>1, PageLeft DEF AccountInv
<1>4. AccountTypes'
  BY <1>1, <1>2, <1>3 DEF AccountInv, AccountTypes
<1>5. \A k \in syncs' : WellFormed(k)'
  BY <1>3 DEF WellFormed, Writes
<1>6. ~crossed' => syncs' = {}
  BY <1>1, <1>2
<1> QED
  BY <1>1, <1>2, <1>3, <1>4, <1>5, <1>6 DEF AccountInv

\* A sign-out that fails: the session keeps its calls, the profile is gone.
LEMMA SignOutFailsKeeps ==
  ASSUME AccountInv, SignOutFails
  PROVE  AccountInv'
<1>1. /\ boot = {} /\ session # Guest /\ profile' = NoRow /\ crossed' = TRUE
      /\ UNCHANGED <<profiles, registered, signedIn, session, authLoading, boot, entering>>
      /\ ~authLoading /\ tries' \in Nat
  BY TriesCount DEF SignOutFails, View, AccountInv
<1>2. CASE Left(NoRow)
  <2>1. /\ form' \in Forms /\ updating' = {} /\ said' = Nothing /\ said' \in Forms
    BY <1>2, RowForm, FormsHere DEF Left
  <2>2. \A k \in syncs' : /\ k \in SyncCall /\ WellFormed(k) /\ ~k.here /\ k.user \in registered
    BY <1>2, PageLeft DEF AccountInv
  <2>3. AccountTypes'
    BY <1>1, <2>1, <2>2 DEF AccountInv, AccountTypes
  <2>4. \A k \in syncs' : WellFormed(k)'
    BY <2>2 DEF WellFormed, Writes
  <2> QED
    BY <1>1, <2>1, <2>2, <2>3, <2>4 DEF AccountInv
<1>3. CASE UNCHANGED <<syncs, pageState>>
  <2>1. AccountTypes'
    BY <1>1, <1>3 DEF AccountInv, AccountTypes, pageState
  <2>2. \A s \in syncs' : WellFormed(s)'
    BY <1>3 DEF AccountInv, WellFormed, Writes
  <2> QED
    BY <1>1, <1>3, <2>1, <2>2 DEF AccountInv, pageState
<1> QED
  BY <1>2, <1>3 DEF SignOutFails

LEMMA PageReopenedKeeps ==
  ASSUME AccountInv, PageReopened
  PROVE  AccountInv'
<1>1. /\ Left(profile) /\ UNCHANGED <<profiles, authVars, crossed>> /\ ~authLoading /\ tries' \in Nat
  BY TriesCount DEF PageReopened, View, AccountInv
<1>2. /\ form' \in Forms /\ updating' = {} /\ said' = Nothing /\ said' \in Forms /\ avatarPreview' = profile.avatar
      /\ syncs' = {[s EXCEPT !.here = FALSE] : s \in syncs}
  BY <1>1, RowForm, FormsHere DEF Left, AccountInv, AccountTypes
<1>3. \A k \in syncs' : /\ k \in SyncCall /\ WellFormed(k) /\ ~k.here /\ k.user \in registered
  BY <1>1, PageLeft DEF AccountInv
<1>4. AccountTypes'
  BY <1>1, <1>2, <1>3 DEF AccountInv, AccountTypes, authVars
<1>5. \A k \in syncs' : WellFormed(k)'
  BY <1>3 DEF WellFormed, Writes
<1>6. ASSUME ~crossed
      PROVE  /\ \A k \in syncs' : Current(k)'
             /\ session # Guest => (\E k \in syncs' : k.pc # "failed") \/ UpToDate'
  <2>1. ASSUME NEW k \in syncs'
        PROVE  Current(k)'
    <3>1. PICK s \in syncs : /\ k = [s EXCEPT !.here = FALSE] /\ k.user = s.user
                             /\ k.for = s.for /\ k.row = s.row /\ k.pc = s.pc /\ (Writes(k) <=> Writes(s))
      BY <1>1, PageLeft
    <3>2. Current(s)
      BY <1>6 DEF AccountInv
    <3>3. Writes(k) => syncs' = {k}
      BY <1>2, <3>1, <3>2 DEF Current
    <3> QED
      BY <1>1, <1>2, <3>1, <3>2, <3>3 DEF Current, Writes, authVars
  <2>2. ASSUME NEW s \in syncs, s.pc # "failed"
        PROVE  \E k \in syncs' : k.pc # "failed"
    <3>1. PICK k : k = [s EXCEPT !.here = FALSE]
      OBVIOUS
    <3>2. k \in syncs' /\ k.pc = s.pc
      BY <1>2, <3>1, Orphaned DEF AccountInv, AccountTypes
    <3> QED
      BY <2>2, <3>2
  <2>3. session # Guest /\ UpToDate => UpToDate'
    BY <1>1, <1>2, <1>3 DEF UpToDate, authVars
  <2> QED
    BY <1>6, <2>1, <2>2, <2>3 DEF AccountInv
<1> QED
  BY <1>1, <1>2, <1>3, <1>4, <1>5, <1>6 DEF AccountInv, authVars

\* The call that follows a sign-up.
LEMMA SignUpCall ==
  ASSUME AccountTypes, NEW user \in Accounts, NEW k, k = Sync("signup", user, 1, "null")
  PROVE  /\ k \in SyncCall /\ k.for = "signup" /\ k.user = user /\ k.pc = "asked" /\ ~k.here
         /\ k.avatar = "null" /\ WellFormed(k) /\ ~Writes(k)
<1>1. "signup" \in Reasons /\ 1 \in {0} \cup Names /\ "null" \in Avatars
  BY DEF Reasons, Avatars, Names
<1>2. \A for \in Reasons, name \in {0} \cup Names, avatar \in Avatars :
        LET c == Sync(for, user, name, avatar)
        IN  c \in SyncCall /\ c.user = user /\ c.pc = "asked"
  BY SyncMade
<1>3. k \in SyncCall /\ k.user = user /\ k.pc = "asked"
  BY <1>1, <1>2
<1>4. k.for = "signup" /\ k.name = 1 /\ k.avatar = "null" /\ ~k.here
  BY DEF Sync
<1>5. WellFormed(k) /\ ~Writes(k)
  BY <1>3, <1>4 DEF WellFormed, Writes
<1> QED
  BY <1>3, <1>4, <1>5

LEMMA LoginAnsweredKeeps ==
  ASSUME AccountInv, LoginAnswered
  PROVE  AccountInv'
<1>1. PICK e \in entering :
        /\ entering' = {}
        /\ \/ /\ signedIn' = e.user /\ session' = e.user /\ Entered /\ registered' = registered \cup {e.user}
              /\ syncs' = syncs \cup {Sync("event", e.user, 0, "null")}
                                \cup IF e.mode = "sign-up" THEN {Sync("signup", e.user, 1, "null")} ELSE {}
           \/ registered' \in {registered, registered \cup {e.user}} /\ UNCHANGED <<signedIn, session, syncs, crossed>>
        /\ UNCHANGED <<profiles, profile, authLoading, boot, pageState, tries>>
  BY DEF LoginAnswered
<1>2. /\ e.user \in Accounts /\ session = Guest /\ boot = {} /\ registered \subseteq registered'
      /\ registered' \subseteq registered \cup {e.user}
      /\ e.mode = "sign-up" => e.user \notin registered
  BY <1>1 DEF AccountInv, AccountTypes
<1>3. CASE UNCHANGED <<signedIn, session, syncs, crossed>>
  <2>1. AccountTypes'
    BY <1>1, <1>2, <1>3 DEF AccountInv, AccountTypes, pageState
  <2>2. \A s \in syncs' : WellFormed(s)'
    BY <1>1, <1>3 DEF AccountInv, WellFormed, Writes
  <2>3. ~crossed' => syncs' = {} /\ profile' = NoRow /\ session' = Guest
    BY <1>1, <1>2, <1>3 DEF AccountInv
  <2> QED
    BY <1>1, <1>2, <1>3, <2>1, <2>2, <2>3 DEF AccountInv, pageState
<1>4. CASE /\ signedIn' = e.user /\ session' = e.user /\ Entered /\ registered' = registered \cup {e.user}
           /\ syncs' = syncs \cup {Sync("event", e.user, 0, "null")}
                             \cup IF e.mode = "sign-up" THEN {Sync("signup", e.user, 1, "null")} ELSE {}
  <2>1. PICK s, k : s = Sync("event", e.user, 0, "null") /\ k = Sync("signup", e.user, 1, "null")
    OBVIOUS
  <2>2. /\ s \in SyncCall /\ s.for = "event" /\ s.user = e.user /\ s.avatar = "null"
        /\ s.pc = "asked" /\ ~s.here /\ WellFormed(s) /\ ~Writes(s)
    BY <1>2, <2>1, EventCall DEF AccountInv
  <2>3. /\ k \in SyncCall /\ k.for = "signup" /\ k.user = e.user /\ k.pc = "asked" /\ ~k.here
        /\ k.avatar = "null" /\ WellFormed(k) /\ ~Writes(k)
    BY <1>2, <2>1, SignUpCall DEF AccountInv
  <2>4. /\ syncs' = syncs \cup {s} \/ (syncs' = syncs \cup {s, k} /\ e.mode = "sign-up")
        /\ syncs \subseteq syncs' /\ s \in syncs'
    BY <1>4, <2>1
  <2>5. AccountTypes'
    BY <1>1, <1>2, <1>4, <2>2, <2>3, <2>4 DEF AccountInv, AccountTypes, pageState, Entered
  <2>6. \A c \in syncs' : WellFormed(c)' /\ c.user \in registered'
    BY <1>2, <1>4, <2>2, <2>3, <2>4 DEF AccountInv, WellFormed, Writes
  <2>7. session' # Guest
    <3>1. e.user # Guest
      BY <1>2, AccountAssumption
    <3> QED
      BY <1>4, <3>1
  <2>8. /\ e.user \notin registered => profiles[e.user] = NoRow
        /\ said = Nothing
    BY <1>2 DEF AccountInv
  <2>9. ASSUME ~crossed'
        PROVE  /\ \A c \in syncs' : Current(c)'
               /\ \E c \in syncs' : c.pc # "failed"
    <3>1. syncs = {}
      BY <1>4, <2>9 DEF Entered
    <3>2. \A c \in syncs' : /\ c.user = session' /\ ~Writes(c) /\ c.pc = "asked" /\ c.for \in {"event", "signup"}
                            /\ c.for = "signup" => e.mode = "sign-up"
      BY <1>4, <2>2, <2>3, <2>4, <3>1
    <3>3. profiles'[session'] = profiles[e.user]
      BY <1>1, <1>4
    <3>4. ASSUME NEW c \in syncs'
          PROVE  Current(c)'
      BY <1>2, <2>8, <3>2, <3>3 DEF Current, Writes
    <3> QED
      BY <2>2, <2>4, <3>4
  <2>10. /\ \A x \in updating' : \E c \in syncs' : c.for = x /\ c.here
         /\ authLoading' => "session" \in boot' \/ \E c \in syncs' : c.for = "init"
    BY <1>1, <2>4 DEF AccountInv, pageState
  <2> QED
    BY <1>1, <1>2, <1>4, <2>5, <2>6, <2>7, <2>8, <2>9, <2>10 DEF AccountInv, pageState
<1> QED
  BY <1>1, <1>3, <1>4

LEMMA SyncReadsKeeps ==
  ASSUME AccountInv, SyncReads
  PROVE  AccountInv'
<1>1. PICK s \in syncs :
        /\ s.pc = "asked" /\ syncs' = (syncs \ {s}) \cup {[s EXCEPT !.row = profiles[s.user], !.pc = "read"]}
        /\ UNCHANGED <<profiles, authVars, pageState, crossed, tries>>
  BY DEF SyncReads
<1>2. PICK k : k = [s EXCEPT !.row = profiles[s.user], !.pc = "read"]
  OBVIOUS
<1>3. s \in SyncCall /\ WellFormed(s) /\ s.user \in registered /\ profiles[s.user] \in Rows \cup {NoRow}
  BY DEF AccountInv, AccountTypes, SyncCall
<1>4. /\ k \in SyncCall /\ k.for = s.for /\ k.user = s.user /\ k.name = s.name /\ k.avatar = s.avatar
      /\ k.form = s.form /\ k.last = s.last /\ (k.here <=> s.here)
      /\ k.pc = "read" /\ k.row = profiles[s.user]
  BY <1>2, <1>3 DEF SyncCall
<1>5. WellFormed(k) /\ (Writes(k) <=> Writes(s))
  BY <1>1, <1>3, <1>4 DEF WellFormed, Writes
<1>6. syncs' = (syncs \ {s}) \cup {k}
  BY <1>1, <1>2
<1>7. AccountTypes'
  BY <1>1, <1>4, <1>6 DEF AccountInv, AccountTypes, authVars, pageState
<1>8. \A c \in syncs' : WellFormed(c)' /\ c.user \in registered'
  BY <1>1, <1>3, <1>4, <1>5, <1>6 DEF AccountInv, WellFormed, Writes, authVars
<1>9. ASSUME ~crossed
      PROVE  \A c \in syncs' : Current(c)'
  <2>1. Current(s)
    BY <1>9 DEF AccountInv
  <2>2. ASSUME NEW c \in syncs', c # k
        PROVE  Current(c)'
    <3>1. c \in syncs /\ c # s
      BY <1>6, <2>2
    <3>2. Current(c) /\ ~Writes(c)
      BY <1>9, <3>1 DEF AccountInv, Current
    <3> QED
      BY <1>1, <3>2 DEF Current, Writes, authVars, pageState
  <2>3. Current(k)'
    <3>1. Writes(k) => syncs' = {k}
      BY <1>5, <1>6, <2>1 DEF Current
    <3> QED
      BY <1>1, <1>4, <1>5, <2>1, <3>1 DEF Current, Writes, authVars, pageState
  <2> QED
    BY <2>2, <2>3
<1>10. /\ \A x \in updating' : \E c \in syncs' : c.for = x /\ c.here
       /\ authLoading' => "session" \in boot' \/ \E c \in syncs' : c.for = "init"
       /\ session' = Guest => \A c \in syncs' : ~c.here
       /\ k \in syncs' /\ k.pc # "failed"
  BY <1>1, <1>4, <1>6 DEF AccountInv, authVars, pageState
<1> QED
  BY <1>1, <1>6, <1>7, <1>8, <1>9, <1>10 DEF AccountInv, authVars, pageState

LEMMA SyncLostKeeps ==
  ASSUME AccountInv, SyncLost
  PROVE  AccountInv'
<1>1. PICK s \in syncs :
        /\ s.pc \in {"asked", "ok"} /\ syncs' = (syncs \ {s}) \cup {[s EXCEPT !.pc = "failed"]}
        /\ crossed' = TRUE /\ UNCHANGED <<profiles, authVars, pageState>>
  BY DEF SyncLost
<1>2. PICK k : k = [s EXCEPT !.pc = "failed"]
  OBVIOUS
<1>3. s \in SyncCall /\ WellFormed(s) /\ s.user \in registered
  BY DEF AccountInv, AccountTypes
<1>4. /\ k \in SyncCall /\ k.for = s.for /\ k.user = s.user /\ k.name = s.name /\ k.avatar = s.avatar
      /\ k.form = s.form /\ (k.here <=> s.here) /\ k.pc = "failed"
  BY <1>2, <1>3 DEF SyncCall
<1>5. WellFormed(k)
  BY <1>3, <1>4 DEF WellFormed, Writes
<1>6. syncs' = (syncs \ {s}) \cup {k} /\ tries' \in Nat
  BY <1>1, <1>2, TriesCount DEF SyncLost, AccountInv
<1>7. AccountTypes'
  BY <1>1, <1>4, <1>6 DEF AccountInv, AccountTypes, authVars, pageState
<1>8. \A c \in syncs' : WellFormed(c)' /\ c.user \in registered'
  BY <1>1, <1>3, <1>4, <1>5, <1>6 DEF AccountInv, WellFormed, Writes, authVars
<1>9. /\ \A x \in updating' : \E c \in syncs' : c.for = x /\ c.here
      /\ authLoading' => "session" \in boot' \/ \E c \in syncs' : c.for = "init"
      /\ session' = Guest => \A c \in syncs' : ~c.here
  BY <1>1, <1>4, <1>6 DEF AccountInv, authVars, pageState
<1> QED
  BY <1>1, <1>6, <1>7, <1>8, <1>9 DEF AccountInv, authVars, pageState

\* The row written is one, with the name that was given.
LEMMA UpsertedIsRow ==
  ASSUME AccountInv, NEW s \in syncs
  PROVE  /\ Upserted(s) \in Rows /\ Upserted(s) # NoRow
         /\ s.name # 0 => Upserted(s).name = s.name
<1>1. PICK nm : nm = IF s.name # 0 THEN s.name ELSE IF s.row # NoRow THEN s.row.name ELSE 1
  OBVIOUS
<1>2. PICK av : av = IF s.avatar # "null" THEN s.avatar
                     ELSE IF s.row.avatar # "null" THEN s.row.avatar ELSE profiles[s.user].avatar
  OBVIOUS
<1>3. /\ s.name \in {0} \cup Names /\ s.avatar \in Avatars /\ s.row \in Rows \cup {NoRow}
      /\ profiles[s.user] \in Rows \cup {NoRow}
  BY DEF AccountInv, AccountTypes, SyncCall
<1>4. s.row.avatar \in Avatars /\ profiles[s.user].avatar \in Avatars
  BY <1>3, RowForm
<1>5. nm \in Names
  <2>1. s.row # NoRow => s.row.name \in Names
    BY <1>3 DEF Rows
  <2> QED
    BY <1>1, <1>3, <2>1 DEF Names
<1>6. av \in Avatars
  BY <1>2, <1>3, <1>4
<1>7. Upserted(s) = [name |-> nm, avatar |-> av]
  BY <1>1, <1>2 DEF Upserted
<1>8. Upserted(s) \in Rows /\ Upserted(s).name = nm
  BY <1>5, <1>6, <1>7 DEF Rows
<1>9. Upserted(s) # NoRow
  BY <1>5, <1>8 DEF NoRow, Names
<1> QED
  BY <1>1, <1>8, <1>9

\* What a call that only reads the profile writes: the row there is, or the first.
LEMMA UpsertedKeeps ==
  ASSUME AccountInv, NEW s \in syncs, s.pc = "read", Current(s), ~Writes(s)
  PROVE  Upserted(s) = IF profiles[session] = NoRow THEN FirstRow ELSE profiles[session]
<1>1. /\ s.user = session /\ s.avatar = "null" /\ (s.name = 0 \/ (s.for = "signup" /\ s.name = 1))
      /\ s.row = profiles[session] \/ (s.row = NoRow /\ profiles[session] = FirstRow)
      /\ s.for = "signup" => profiles[session] \in {NoRow, FirstRow}
      /\ profiles[session] \in Rows \cup {NoRow}
  BY DEF AccountInv, AccountTypes, SyncCall, WellFormed, Current
<1>2. NoRow.avatar = "null" /\ FirstRow.avatar = "null" /\ FirstRow.name = 1 /\ FirstRow # NoRow
  BY DEF NoRow, FirstRow
<1>3. CASE profiles[session] \in {NoRow, FirstRow}
  BY <1>1, <1>2, <1>3 DEF Upserted, FirstRow
<1>4. CASE profiles[session] \notin {NoRow, FirstRow}
  <2>1. /\ s.row = profiles[session] /\ s.name = 0 /\ profiles[session] # NoRow
        /\ profiles[session] \in Rows
    BY <1>1, <1>4
  <2>2. Upserted(s) = [name |-> profiles[session].name, avatar |-> profiles[session].avatar]
    BY <1>1, <2>1 DEF Upserted
  <2> QED
    BY <2>1, <2>2 DEF Rows
<1> QED
  BY <1>3, <1>4

LEMMA SyncWritesKeeps ==
  ASSUME AccountInv, SyncWrites
  PROVE  AccountInv'
<1>1. PICK s \in syncs :
        /\ s.pc = "read" /\ profiles' = [profiles EXCEPT ![s.user] = Upserted(s)]
        /\ syncs' = (syncs \ {s}) \cup {[s EXCEPT !.row = Upserted(s), !.pc = "ok"]}
        /\ UNCHANGED <<authVars, pageState, crossed, tries>>
  BY DEF SyncWrites
<1>2. PICK r : r = Upserted(s)
  OBVIOUS
<1>3. PICK k : k = [s EXCEPT !.row = r, !.pc = "ok"]
  OBVIOUS
<1>4. r \in Rows /\ r # NoRow /\ (s.name # 0 => r.name = s.name)
  BY <1>2, UpsertedIsRow
<1>5. s \in SyncCall /\ WellFormed(s) /\ s.user \in registered /\ s.user \in Accounts
  BY DEF AccountInv, AccountTypes, SyncCall
<1>6. /\ k \in SyncCall /\ k.for = s.for /\ k.user = s.user /\ k.name = s.name /\ k.avatar = s.avatar
      /\ k.form = s.form /\ k.last = s.last /\ (k.here <=> s.here) /\ k.pc = "ok" /\ k.row = r
  BY <1>3, <1>4, <1>5 DEF SyncCall
<1>7. WellFormed(k) /\ (Writes(k) <=> Writes(s))
  BY <1>4, <1>5, <1>6 DEF WellFormed, Writes
<1>8. /\ syncs' = (syncs \ {s}) \cup {k} /\ profiles' = [profiles EXCEPT ![s.user] = r]
  BY <1>1, <1>2, <1>3
<1>9. AccountTypes'
  BY <1>1, <1>4, <1>6, <1>8 DEF AccountInv, AccountTypes, authVars, pageState
<1>10. \A c \in syncs' : WellFormed(c)' /\ c.user \in registered'
  BY <1>1, <1>5, <1>6, <1>7, <1>8 DEF AccountInv, WellFormed, Writes, authVars
<1>11. \A u \in Accounts : profiles'[u] # NoRow => u \in registered'
  BY <1>1, <1>5, <1>8 DEF AccountInv, AccountTypes, authVars
<1>12. ASSUME ~crossed
       PROVE  /\ \A c \in syncs' : Current(c)'
              /\ said' # Nothing => profiles'[session'].name = said'.name
  <2>1. Current(s) /\ s.user = session /\ session \in Accounts /\ profiles'[session] = r
    BY <1>5, <1>8, <1>12 DEF AccountInv, AccountTypes, Current
  <2>2. said # Nothing => profiles[session].name = said.name /\ said.name # 0 /\ profiles[session] # NoRow
    BY <1>5, <1>12, <2>1, AccountAssumption DEF AccountInv, NoRow
  <2>3. CASE Writes(s)
    <3>1. syncs' = {k}
      BY <1>8, <2>1, <2>3 DEF Current
    <3>2. Current(k)'
      BY <1>1, <1>6, <1>7, <2>1, <2>3, <3>1 DEF Current, Writes, authVars, pageState
    <3>3. said # Nothing => r.name = profiles[session].name
      <4>1. CASE s.for = "profile"
        BY <2>1, <4>1 DEF Current
      <4>2. CASE s.for = "avatar"
        <5>1. s.name = 0 /\ s.row = profiles[session]
          BY <1>1, <1>5, <2>1, <2>3, <4>2 DEF WellFormed, Current
        <5>2. profiles[session] # NoRow => r.name = profiles[session].name
          BY <1>2, <5>1 DEF Upserted
        <5> QED
          BY <2>2, <5>2
      <4> QED
        BY <2>3, <4>1, <4>2 DEF Writes
    <3> QED
      BY <1>1, <2>1, <2>2, <3>1, <3>2, <3>3 DEF authVars, pageState
  <2>4. CASE ~Writes(s)
    <3>1. r = IF profiles[session] = NoRow THEN FirstRow ELSE profiles[session]
      BY <1>1, <1>2, <2>1, <2>4, UpsertedKeeps
    <3>2. Current(k)'
      BY <1>1, <1>6, <1>7, <2>1, <2>4, <3>1 DEF Current, Writes, authVars, pageState
    <3>3. ASSUME NEW c \in syncs', c # k
          PROVE  Current(c)'
      <4>1. c \in syncs /\ c # s
        BY <1>8, <3>3
      <4>2. Current(c) /\ ~Writes(c) /\ WellFormed(c)
        BY <1>12, <4>1 DEF AccountInv, Current
      <4>3. FirstRow # NoRow
        BY DEF FirstRow, NoRow
      <4> QED
        BY <1>1, <2>1, <3>1, <4>2, <4>3 DEF Current, Writes, WellFormed, authVars, pageState
    <3>4. said # Nothing => r = profiles[session]
      BY <2>2, <3>1
    <3> QED
      BY <1>1, <2>1, <2>2, <3>2, <3>3, <3>4 DEF authVars, pageState
  <2> QED
    BY <2>3, <2>4
<1>13. /\ \A x \in updating' : \E c \in syncs' : c.for = x /\ c.here
       /\ authLoading' => "session" \in boot' \/ \E c \in syncs' : c.for = "init"
       /\ session' = Guest => \A c \in syncs' : ~c.here
       /\ k \in syncs' /\ k.pc # "failed"
  BY <1>1, <1>6, <1>8 DEF AccountInv, authVars, pageState
<1> QED
  BY <1>1, <1>8, <1>9, <1>10, <1>11, <1>12, <1>13 DEF AccountInv, authVars, pageState

LEMMA SyncDoneKeeps ==
  ASSUME AccountInv, SyncDone
  PROVE  AccountInv'
<1>1. PICK s \in syncs :
        /\ s.pc \in {"ok", "failed"} /\ syncs' = syncs \ {s}
        /\ IF s.pc = "ok" THEN Profile(s.row)
           ELSE /\ UNCHANGED <<profile, form>>
                /\ avatarPreview' = IF s.avatar = "photo" /\ s.here THEN s.last ELSE avatarPreview
        /\ authLoading' = (authLoading /\ s.for # "init")
        /\ updating' = IF s.here THEN updating \ {s.for} ELSE updating
        /\ said' = IF s.for = "profile" /\ s.pc = "ok" /\ s.here THEN s.form ELSE said
        /\ UNCHANGED <<profiles, registered, signedIn, session, boot, entering, crossed, tries>>
  BY DEF SyncDone
<1>2. s \in SyncCall /\ WellFormed(s) /\ s.row \in Rows \cup {NoRow} /\ s.form \in Forms
  BY DEF AccountInv, AccountTypes, SyncCall
<1>3. s.pc = "ok" => profile' = s.row /\ s.row # NoRow /\ avatarPreview' = s.row.avatar
  BY <1>1, <1>2 DEF Profile, WellFormed
<1>4. profile' \in Rows \cup {NoRow} /\ form' \in Forms
  <2>1. CASE s.pc = "ok"
    BY <1>1, <1>2, <1>3, <2>1, RowForm DEF Profile
  <2>2. CASE s.pc # "ok"
    BY <1>1, <2>2 DEF AccountInv, AccountTypes
  <2> QED
    BY <2>1, <2>2
<1>5. AccountTypes'
  <2>1. said' \in Forms /\ authLoading' \in BOOLEAN /\ updating' \subseteq updating
    BY <1>1, <1>2 DEF AccountInv, AccountTypes
  <2> QED
    BY <1>1, <1>4, <2>1 DEF AccountInv, AccountTypes
<1>6. \A c \in syncs' : WellFormed(c)' /\ c.user \in registered' /\ c \in syncs
  BY <1>1 DEF AccountInv, WellFormed, Writes
<1>7. /\ \A x \in updating' : \E c \in syncs' : c.for = x /\ c.here
      /\ authLoading' => "session" \in boot' \/ \E c \in syncs' : c.for = "init"
      /\ session' = Guest => said' = Nothing /\ \A c \in syncs' : ~c.here
      /\ said' # Nothing => said'.name # 0
  <2>1. \A x \in updating' : \E c \in syncs' : c.for = x /\ c.here
    <3>1. ASSUME NEW x \in updating'
          PROVE  \E c \in syncs' : c.for = x /\ c.here
      <4>1. x \in updating /\ (s.here => x # s.for)
        BY <1>1, <3>1
      <4>2. PICK c \in syncs : c.for = x /\ c.here
        BY <4>1 DEF AccountInv
      <4> QED
        BY <1>1, <4>1, <4>2
    <3> QED
      BY <3>1
  <2>2. authLoading' => "session" \in boot' \/ \E c \in syncs' : c.for = "init"
    BY <1>1 DEF AccountInv
  <2>3. session' = Guest => said' = Nothing /\ \A c \in syncs' : ~c.here
    BY <1>1 DEF AccountInv
  <2>4. said' # Nothing => said'.name # 0
    BY <1>1, <1>2 DEF AccountInv, WellFormed
  <2> QED
    BY <2>1, <2>2, <2>3, <2>4
<1>8. ASSUME ~crossed
      PROVE  /\ \A c \in syncs' : Current(c)'
             /\ said' # Nothing => profiles'[session'].name = said'.name
             /\ (\E c \in syncs' : c.pc # "failed") \/ UpToDate'
             /\ session # Guest
  <2>1. Current(s) /\ session # Guest
    BY <1>8 DEF AccountInv
  <2>2. \A c \in syncs' : Current(c)'
    <3>1. ASSUME NEW c \in syncs'
          PROVE  Current(c)'
      <4>1. Current(c) /\ c \in syncs /\ c # s
        BY <1>1, <1>6, <1>8 DEF AccountInv
      <4>2. ~Writes(c) /\ ~Writes(s)
        BY <2>1, <4>1 DEF Current
      <4> QED
        BY <1>1, <4>1, <4>2 DEF Current, Writes
    <3> QED
      BY <3>1
  <2>3. said' # Nothing => profiles'[session'].name = said'.name
    BY <1>1, <1>2, <1>8, <2>1 DEF AccountInv, WellFormed, Current
  <2>4. \A c \in syncs' : c.avatar # "photo"
    <3>1. ASSUME NEW c \in syncs', c.avatar = "photo"
          PROVE  FALSE
      <4>1. c \in syncs /\ c # s /\ Writes(c) /\ Current(c)
        BY <1>1, <1>6, <1>8, <3>1 DEF AccountInv, WellFormed
      <4> QED
        BY <4>1 DEF Current
    <3> QED
      BY <3>1
  <2>5. CASE s.pc = "ok"
    <3>1. profile' = profiles'[session'] /\ avatarPreview' = profile'.avatar
      BY <1>1, <1>3, <2>1, <2>5 DEF Current
    <3> QED
      BY <2>1, <2>2, <2>3, <2>4, <3>1 DEF UpToDate
  <2>6. CASE s.pc # "ok"
    <3>1. Writes(s) /\ syncs = {s} /\ s.pc = "failed"
      BY <1>1, <2>1, <2>6 DEF Current
    <3>2. UpToDate
      BY <1>8, <2>1, <3>1 DEF AccountInv
    <3>3. profile' = profile /\ avatarPreview' = profile.avatar
      BY <1>1, <3>1, <3>2 DEF UpToDate
    <3>4. UpToDate'
      BY <1>1, <2>4, <3>2, <3>3 DEF UpToDate
    <3> QED
      BY <2>1, <2>2, <2>3, <3>4
  <2> QED
    BY <1>1, <2>5, <2>6
<1> QED
  BY <1>1, <1>5, <1>6, <1>7, <1>8 DEF AccountInv

LEMMA AccountStep ==
  ASSUME AccountInv, [AccountNext]_accountVars
  PROVE  AccountInv'
<1>1. CASE UNCHANGED accountVars
  <2>1. AccountTypes'
    BY <1>1 DEF AccountInv, AccountTypes, accountVars, authVars, pageState
  <2>2. /\ \A s \in syncs' : WellFormed(s)' /\ (Current(s)' <=> Current(s))
        /\ UpToDate' <=> UpToDate
    BY <1>1 DEF AccountInv, WellFormed, Writes, Current, UpToDate, accountVars, authVars, pageState
  <2> QED
    BY <1>1, <2>1, <2>2 DEF AccountInv, accountVars, authVars, pageState
<1> QED
  BY <1>1, SyncReadsKeeps, SyncWritesKeeps, SyncLostKeeps, SessionReadKeeps, InitialEventKeeps,
     TokenRefreshedKeeps, LoginSubmittedKeeps, LoginAnsweredKeeps, SignOutKeeps, SignOutFailsKeeps, PageReopenedKeeps,
     FormTypedKeeps, ProfileSubmitKeeps, PhotoSelectedKeeps, RemovePhotoKeeps, PasswordSubmitKeeps,
     SyncDoneKeeps DEF AccountNext

-------------------------------------------------------------------------------
(* The page of one's own cards.                                            *)

\* A finite set that an order without cycles orders has an element with none before it.
LEMMA MinimalExists ==
  ASSUME NEW S, S # {}, IsFiniteSet(S), NEW O,
         \A i \in S : <<i, i>> \notin O,
         \A i, j, k \in S : <<i, j>> \in O /\ <<j, k>> \in O => <<i, k>> \in O
  PROVE  \E i \in S : \A j \in S : <<j, i>> \notin O
<1> DEFINE B(i) == {j \in S : j = i \/ <<j, i>> \in O}
<1>1. PICK R : R = StrictSubsetOrdering(S)
  OBVIOUS
<1>2. IsWellFoundedOn(R, SUBSET S)
  BY <1>1, FS_StrictSubsetOrderingWellFounded, FS_FiniteSubsetsOfFinite
<1>3. PICK T : T = {B(i) : i \in S}
  OBVIOUS
<1>4. T \subseteq SUBSET S /\ T # {}
  <2>1. \A i \in S : B(i) \in SUBSET S
    OBVIOUS
  <2> HIDE DEF B
  <2> QED
    BY <1>3, <2>1
<1>5. PICK x \in T : \A y \in T : ~(<<y, x>> \in R)
  BY <1>2, <1>4, WFMin
<1>6. PICK i \in S : x = B(i)
  BY <1>3, <1>5
<1>7. ASSUME NEW k \in S, <<k, i>> \in O
      PROVE  FALSE
  <2>1. B(k) \subseteq B(i) /\ B(i) \subseteq S
    BY <1>7
  <2>2. i \in B(i) /\ i \notin B(k)
    BY <1>7
  <2>3. B(k) # B(i)
    BY <2>2
  <2>4. <<B(k), B(i)>> \in StrictSubsetOrdering(S)
    <3> HIDE DEF B
    <3> QED
      BY <2>1, <2>3 DEF StrictSubsetOrdering
  <2> QED
    BY <1>1, <1>3, <1>5, <1>6, <2>4
<1> QED
  BY <1>7

LEMMA FirstOf ==
  ASSUME NEW S \in SUBSET Nat, S # {}, IsFiniteSet(S)
  PROVE  First(S) \in S /\ \A j \in S : First(S) <= j
<1>1. PICK O : O = {q \in Nat \X Nat : q[1] < q[2]}
  OBVIOUS
<1>2. \A i, j \in Nat : <<i, j>> \in O <=> i < j
  BY <1>1
<1>3. \A i \in S : <<i, i>> \notin O
  BY <1>2
<1>4. \A i, j, k \in S : <<i, j>> \in O /\ <<j, k>> \in O => <<i, k>> \in O
  BY <1>2
<1>5. PICK i \in S : \A j \in S : <<j, i>> \notin O
  BY <1>3, <1>4, MinimalExists
<1>6. ASSUME NEW j \in S
      PROVE  i <= j
  <2>1. i \in Nat /\ j \in Nat /\ ~(j < i)
    BY <1>2, <1>5
  <2> QED
    BY <2>1
<1> QED
  BY <1>6 DEF First

LEMMA LastExists ==
  ASSUME NEW S \in SUBSET Nat, S # {}, IsFiniteSet(S)
  PROVE  \E i \in S : \A j \in S : j <= i
<1>1. PICK O : O = {q \in Nat \X Nat : q[1] > q[2]}
  OBVIOUS
<1>2. \A i, j \in Nat : <<i, j>> \in O <=> i > j
  BY <1>1
<1>3. \A i \in S : <<i, i>> \notin O
  BY <1>2
<1>4. \A i, j, k \in S : <<i, j>> \in O /\ <<j, k>> \in O => <<i, k>> \in O
  BY <1>2
<1>5. PICK i \in S : \A j \in S : <<j, i>> \notin O
  BY <1>3, <1>4, MinimalExists
<1>6. ASSUME NEW j \in S
      PROVE  j <= i
  <2>1. i \in Nat /\ j \in Nat /\ ~(j > i)
    BY <1>2, <1>5
  <2> QED
    BY <2>1
<1> QED
  BY <1>6

\* The item of a name is one of the catalogue that the name fits.
LEMMA FittingItem ==
  ASSUME CardsAssumption, NEW name \in CardNames, Fitting(name) # 0
  PROVE  Fitting(name) \in Items /\ FitsName(Fitting(name), name)
<1>1. PICK tiers : tiers = {t \in 1..3 : Fits[name][t] # {}}
  OBVIOUS
<1>2. Fitting(name) = IF tiers = {} THEN 0 ELSE First(Fits[name][First(tiers)])
  BY <1>1 DEF Fitting
<1>3. tiers # {} /\ tiers \in SUBSET Nat /\ tiers \subseteq 1..3
  BY <1>1, <1>2
<1>4. IsFiniteSet(tiers)
  <2>1. \A a, b \in Int : IsFiniteSet(a..b)
    BY FS_Interval
  <2>2. 1 \in Int /\ 3 \in Int
    OBVIOUS
  <2>3. IsFiniteSet(1..3)
    BY <2>1, <2>2, Zenon
  <2> QED
    BY <1>3, <2>3, FS_Subset
<1>5. First(tiers) \in 1..3 /\ Fits[name][First(tiers)] # {}
  <2>1. First(tiers) \in tiers
    BY <1>3, <1>4, FirstOf
  <2> QED
    BY <1>1, <2>1
<1>6. Fits[name][First(tiers)] \subseteq Items
  BY <1>5 DEF CardsAssumption
<1>7. Fits[name][First(tiers)] \in SUBSET Nat /\ IsFiniteSet(Fits[name][First(tiers)])
  BY <1>6, FS_Subset DEF CardsAssumption
<1>8. First(Fits[name][First(tiers)]) \in Fits[name][First(tiers)]
  BY <1>5, <1>7, FirstOf
<1> QED
  BY <1>2, <1>3, <1>5, <1>6, <1>8 DEF FitsName

LEMMA ListedShape ==
  ASSUME CardsInv
  PROVE  Listed \subseteq [id : Nat, item : Items, scope : Scopes]
<1>1. ASSUME NEW i \in DOMAIN mine
      PROVE  [id |-> mine[i].id, item |-> i, scope |-> mine[i].scope] \in [id : Nat, item : Items, scope : Scopes]
  <2>1. mine[i].id \in Nat /\ i \in Items /\ mine[i].scope \in Scopes
    BY DEF CardsInv
  <2> QED
    BY <2>1
<1> QED
  BY <1>1 DEF Listed

LEMMA CardsStart ==
  ASSUME CardsAssumption, CardsMounted \/ CardsClosed
  PROVE  CardsInv
<1>1. CASE CardsMounted
  <2>1. PICK owned \in SUBSET Items : mine = [i \in owned |-> [id |-> i, name |-> "old", scope |-> 1]]
    BY <1>1 DEF CardsMounted
  <2>2. made \in Items /\ \A j \in Items : j <= made
    <3>1. \E i \in Items : \A j \in Items : j <= i
      BY LastExists DEF CardsAssumption
    <3>2. made = CHOOSE i \in Items : \A j \in Items : j <= i
      BY <1>1 DEF CardsMounted
    <3> QED
      BY <3>1, <3>2
  <2>3. DOMAIN mine = owned /\ made \in Nat /\ \A i \in owned : i \in 1..made
    BY <2>1, <2>2 DEF CardsAssumption
  <2>4. mine \in [DOMAIN mine -> [id : 1..made, name : CardNames \cup {"old"}, scope : Scopes]]
    BY <2>1, <2>3 DEF Scopes
  <2>5. \A i, j \in DOMAIN mine : mine[i].id = mine[j].id => i = j
    BY <2>1, <2>3
  <2>6. savedCards = Listed
    BY <1>1 DEF CardsMounted
  <2>7. Listed \subseteq [id : Nat, item : Items, scope : Scopes]
    <3>1. ASSUME NEW i \in DOMAIN mine
          PROVE  [id |-> mine[i].id, item |-> i, scope |-> mine[i].scope] \in [id : Nat, item : Items, scope : Scopes]
      <4>1. mine[i].id \in Nat /\ i \in Items /\ mine[i].scope \in Scopes
        BY <2>1, <2>3, <2>4
      <4> QED
        BY <4>1
    <3> QED
      BY <3>1 DEF Listed
  <2> QED
    BY <1>1, <2>3, <2>4, <2>5, <2>6, <2>7 DEF CardsMounted, CardsInv, ListFollows
<1>2. CASE CardsClosed
  <2>1. mine = <<>> /\ DOMAIN mine = {} /\ savedCards = {} /\ Listed = {}
    BY <1>2 DEF CardsClosed, Listed
  <2>2. mine \in [DOMAIN mine -> [id : 1..made, name : CardNames \cup {"old"}, scope : Scopes]]
    BY <2>1
  <2> QED
    BY <1>2, <2>1, <2>2 DEF CardsClosed, CardsInv, ListFollows
<1> QED
  BY <1>1, <1>2

\* The list alone changes.
LEMMA CardsListOnly ==
  ASSUME CardsInv, UNCHANGED <<mine, made, saves, raced>>, deeds' \in Nat, behind' \in BOOLEAN,
         editor' \in Nat \cup {Closed, New}, savedCards' \subseteq [id : Nat, item : Items, scope : Scopes],
         listings' \subseteq ListCall, deletes' \subseteq DeleteCall, ~behind' => ListFollows',
         loadingCards' => listings' # {},
         submitting' => saves # {} \/ \E l \in listings' : l.for = "save",
         deletingCardId' # 0 => deletes' # {} \/ \E l \in listings' : l.for = "delete"
  PROVE  CardsInv'
<1>1. \A c \in saves : ItemChosen(c)' <=> ItemChosen(c)
  BY DEF ItemChosen, FitsName
<1> QED
  BY <1>1 DEF CardsInv

LEMMA DeedCounts ==
  ASSUME CardsInv, Deed
  PROVE  deeds' \in Nat
BY DEF CardsInv, Deed

\* A load of the list that starts.
LEMMA ListStarts ==
  ASSUME CardsInv, NEW for \in {"profile", "save", "delete"}, List(for)
  PROVE  /\ listings' \subseteq ListCall /\ behind' \in BOOLEAN /\ listings' # {} /\ loadingCards'
         /\ \E l \in listings' : l.for = for
         /\ listings \subseteq listings'
         /\ ~behind' => ListFollows'
<1>1. PICK l : l = [for |-> for, done |-> FALSE, got |-> {}]
  OBVIOUS
<1>2. listings' = listings \cup {l} /\ loadingCards' = TRUE /\ behind' = (listings # {})
  BY <1>1 DEF List
<1>3. l \in ListCall /\ l.for = for /\ ~l.done
  BY <1>1 DEF ListCall
<1>4. ~behind' => listings' = {l}
  BY <1>2
<1>5. ~behind' => ListFollows'
  BY <1>3, <1>4 DEF ListFollows
<1> QED
  BY <1>2, <1>3, <1>5 DEF CardsInv

LEMMA ProfileChangedKeeps ==
  ASSUME CardsInv, ProfileChanged
  PROVE  CardsInv'
<1>1. /\ List("profile") /\ deeds' \in Nat
      /\ UNCHANGED <<mine, made, savedCards, deletingCardId, editor, submitting, saves, deletes, raced>>
  BY DeedCounts DEF ProfileChanged
<1>2. /\ listings' \subseteq ListCall /\ behind' \in BOOLEAN /\ listings' # {}
      /\ listings \subseteq listings' /\ (~behind' => ListFollows')
  BY <1>1, ListStarts
<1>3. /\ editor' \in Nat \cup {Closed, New} /\ savedCards' \subseteq [id : Nat, item : Items, scope : Scopes]
      /\ deletes' \subseteq DeleteCall
      /\ submitting' => saves # {} \/ \E l \in listings' : l.for = "save"
      /\ deletingCardId' # 0 => deletes' # {} \/ \E l \in listings' : l.for = "delete"
  BY <1>1, <1>2 DEF CardsInv
<1> QED
  BY <1>1, <1>2, <1>3, CardsListOnly

LEMMA CardsServedKeeps ==
  ASSUME CardsInv, CardsServed
  PROVE  CardsInv'
<1>1. PICK l \in listings :
        /\ ~l.done
        /\ \/ listings' = (listings \ {l}) \cup {[l EXCEPT !.done = TRUE, !.got = Listed]} /\ UNCHANGED <<behind, deeds>>
           \/ Deed /\ listings' = (listings \ {l}) \cup {[l EXCEPT !.done = TRUE]} /\ behind' = TRUE
        /\ UNCHANGED <<mine, made, savedCards, loadingCards, deletingCardId, editor, submitting, saves, deletes, raced>>
  BY DEF CardsServed
<1>2. PICK k : listings' = (listings \ {l}) \cup {k} /\ k \in ListCall /\ k.for = l.for
               /\ (~behind' => k.got = Listed /\ behind' = behind) /\ behind' \in BOOLEAN /\ deeds' \in Nat
  <2>1. l \in ListCall
    BY DEF CardsInv
  <2>2. CASE listings' = (listings \ {l}) \cup {[l EXCEPT !.done = TRUE, !.got = Listed]} /\ UNCHANGED <<behind, deeds>>
    <3>1. PICK k : k = [l EXCEPT !.done = TRUE, !.got = Listed]
      OBVIOUS
    <3>2. k \in ListCall /\ k.for = l.for /\ k.got = Listed
      BY <2>1, <3>1, ListedShape DEF ListCall
    <3>3. behind' \in BOOLEAN /\ deeds' \in Nat /\ behind' = behind
      BY <2>2 DEF CardsInv
    <3>4. listings' = (listings \ {l}) \cup {k}
      BY <2>2, <3>1
    <3> QED
      BY <3>2, <3>3, <3>4
  <2>3. CASE Deed /\ listings' = (listings \ {l}) \cup {[l EXCEPT !.done = TRUE]} /\ behind' = TRUE
    <3>1. PICK k : k = [l EXCEPT !.done = TRUE]
      OBVIOUS
    <3>2. k \in ListCall /\ k.for = l.for
      BY <2>1, <3>1 DEF ListCall
    <3> QED
      BY <2>3, <3>1, <3>2, DeedCounts
  <2> QED
    BY <1>1, <2>2, <2>3
<1>3. \A m \in listings : listings = {m} => listings' = {k}
  BY <1>2
<1>4. Listed' = Listed
  BY <1>1 DEF Listed
<1>5. ~behind' => ListFollows'
  BY <1>1, <1>2, <1>3, <1>4 DEF CardsInv, ListFollows
<1>6. /\ listings' \subseteq ListCall /\ listings' # {}
      /\ submitting' => saves # {} \/ \E m \in listings' : m.for = "save"
      /\ deletingCardId' # 0 => deletes' # {} \/ \E m \in listings' : m.for = "delete"
  BY <1>1, <1>2 DEF CardsInv
<1>7. /\ editor' \in Nat \cup {Closed, New} /\ savedCards' \subseteq [id : Nat, item : Items, scope : Scopes]
      /\ deletes' \subseteq DeleteCall
  BY <1>1 DEF CardsInv
<1> QED
  BY <1>1, <1>2, <1>5, <1>6, <1>7, CardsListOnly

LEMMA CardsShownKeeps ==
  ASSUME CardsInv, CardsShown
  PROVE  CardsInv'
<1>1. PICK l \in listings :
        /\ l.done /\ listings' = listings \ {l} /\ savedCards' = l.got /\ loadingCards' = FALSE
        /\ editor' = IF l.for = "save" THEN Closed ELSE editor
        /\ submitting' = (submitting /\ l.for # "save")
        /\ deletingCardId' = IF l.for = "delete" THEN 0 ELSE deletingCardId
        /\ UNCHANGED <<mine, made, saves, deletes, behind, raced, deeds>>
  BY DEF CardsShown
<1>2. l \in ListCall /\ l.got \subseteq [id : Nat, item : Items, scope : Scopes]
  BY DEF CardsInv, ListCall
<1>3. Listed' = Listed
  BY <1>1 DEF Listed
<1>4. ~behind' => ListFollows'
  BY <1>1, <1>3 DEF CardsInv, ListFollows
<1>5. /\ listings' \subseteq ListCall /\ deletes' \subseteq DeleteCall
      /\ submitting' => saves # {} \/ \E m \in listings' : m.for = "save"
      /\ deletingCardId' # 0 => deletes' # {} \/ \E m \in listings' : m.for = "delete"
  BY <1>1 DEF CardsInv
<1>6. /\ editor' \in Nat \cup {Closed, New} /\ savedCards' \subseteq [id : Nat, item : Items, scope : Scopes]
      /\ behind' \in BOOLEAN /\ deeds' \in Nat
  BY <1>1, <1>2 DEF CardsInv
<1> QED
  BY <1>1, <1>4, <1>5, <1>6, CardsListOnly

LEMMA EditorKeeps ==
  ASSUME CardsInv, OpenAdd \/ OpenEdit \/ CloseEditor
  PROVE  CardsInv'
<1>1. PICK id \in Nat \cup {Closed, New} : Editor(id)
  BY DEF OpenAdd, OpenEdit, CloseEditor, CardsInv
<1>2. /\ editor' = id /\ submitting' = FALSE
      /\ UNCHANGED <<mine, made, savedCards, loadingCards, deletingCardId, saves, deletes, listings, behind, raced, deeds>>
  BY <1>1 DEF Editor
<1>3. ~behind' => ListFollows'
  BY <1>2 DEF CardsInv, ListFollows, Listed
<1>4. /\ editor' \in Nat \cup {Closed, New} /\ savedCards' \subseteq [id : Nat, item : Items, scope : Scopes]
      /\ listings' \subseteq ListCall /\ deletes' \subseteq DeleteCall /\ deeds' \in Nat /\ behind' \in BOOLEAN
      /\ loadingCards' => listings' # {}
      /\ deletingCardId' # 0 => deletes' # {} \/ \E l \in listings' : l.for = "delete"
  BY <1>2 DEF CardsInv
<1> QED
  BY <1>2, <1>3, <1>4, CardsListOnly

\* A step of a save that leaves the cards alone: c becomes k.
LEMMA SaveSteps ==
  ASSUME CardsInv, NEW c \in saves, NEW k \in SaveCall,
         saves' = (saves \ {c}) \cup {k}, c.pc # "ok",
         UNCHANGED <<mine, made, savedCards, loadingCards, deletingCardId, editor, submitting, deletes, listings,
                     behind>>,
         deeds' \in Nat, raced' \in {raced, TRUE},
         k.pc \in {"existing", "reuse", "insert"} => k.item # 0,
         ~raced' =>
           /\ k.pc \in {"existing", "reuse", "insert"} =>
                FitsName(k.item, k.name) \/ k.item \notin DOMAIN mine \/ DOMAIN mine = Items
           /\ k.pc = "reuse" => k.item \in DOMAIN mine /\ mine[k.item].id = k.row
  PROVE  CardsInv'
<1>1. ~behind' => ListFollows'
  <2>1. \A s \in saves : s.pc = "ok" => s \in saves'
    OBVIOUS
  <2> QED
    BY <2>1 DEF CardsInv, ListFollows, Listed
<1>2. ASSUME ~raced'
      PROVE  \A s \in saves' : ItemChosen(s)'
  <2>1. saves' = {k}
    <3>1. saves = {c}
      BY <1>2 DEF CardsInv, ItemChosen
    <3> QED
      BY <3>1
  <2> QED
    BY <1>2, <2>1 DEF ItemChosen, FitsName
<1>3. saves' \subseteq SaveCall /\ saves' # {}
  BY DEF CardsInv
<1>4. \A s \in saves' : s.pc \in {"existing", "reuse", "insert"} => s.item # 0
  BY DEF CardsInv
<1> QED
  BY <1>1, <1>2, <1>3, <1>4 DEF CardsInv

LEMMA SubmitKeeps ==
  ASSUME CardsAssumption, CardsInv, Submit
  PROVE  CardsInv'
<1>1. PICK name \in CardNames, scope \in Scopes :
        saves' = saves \cup
          {[edits |-> editor, name |-> name, scope |-> scope, row |-> 0, n |-> deeds,
            item |-> IF editor = New THEN Fitting(name) ELSE 0,
            pc |-> IF editor # New THEN "update" ELSE IF Fitting(name) = 0 THEN "owned" ELSE "existing"]}
  BY DEF Submit
<1>2. PICK item : item = IF editor = New THEN Fitting(name) ELSE 0
  OBVIOUS
<1>3. PICK pc : pc = IF editor # New THEN "update" ELSE IF Fitting(name) = 0 THEN "owned" ELSE "existing"
  OBVIOUS
<1>4. PICK c : c = [edits |-> editor, name |-> name, scope |-> scope, row |-> 0, n |-> deeds, item |-> item, pc |-> pc]
  OBVIOUS
<1>5. /\ saves' = saves \cup {c} /\ raced' = (saves # {}) /\ deeds' \in Nat
      /\ UNCHANGED <<mine, made, savedCards, loadingCards, deletingCardId, editor, deletes, listings, behind>>
  BY <1>1, <1>2, <1>3, <1>4, DeedCounts DEF Submit
<1>6. /\ item \in {0} \cup Items /\ (pc = "existing" => item # 0 /\ FitsName(item, name))
      /\ pc \in {"owned", "existing", "update"}
  BY <1>2, <1>3, FittingItem
<1>7. c \in SaveCall /\ c.pc = pc /\ c.item = item /\ c.name = name
  <2>1. pc \in {"owned", "existing", "update", "reuse", "insert", "ok", "failed"}
    BY <1>6
  <2>2. editor \in Nat \cup {Closed, New} /\ deeds \in Nat /\ 0 \in Nat
    BY DEF CardsInv
  <2>3. c \in SaveCall
    BY <1>4, <1>6, <2>1, <2>2 DEF SaveCall
  <2> QED
    BY <1>4, <2>3
<1>8. ~behind' => ListFollows'
  BY <1>5 DEF CardsInv, ListFollows, Listed
<1>9. ASSUME ~raced'
      PROVE  \A s \in saves' : ItemChosen(s)'
  <2>1. saves' = {c}
    BY <1>5, <1>9
  <2> QED
    BY <1>6, <1>7, <2>1 DEF ItemChosen, FitsName
<1>10. saves' \subseteq SaveCall /\ saves' # {} /\ raced' \in BOOLEAN
  BY <1>5, <1>7 DEF CardsInv
<1>11. \A s \in saves' : s.pc \in {"existing", "reuse", "insert"} => s.item # 0
  BY <1>5, <1>6, <1>7 DEF CardsInv
<1> QED
  BY <1>5, <1>8, <1>9, <1>10, <1>11 DEF CardsInv

LEMMA ReadsOwnedKeeps ==
  ASSUME CardsAssumption, CardsInv, ReadsOwned
  PROVE  CardsInv'
<1>1. PICK c \in saves, owned \in {DOMAIN mine, {}} :
        /\ c.pc = "owned"
        /\ saves' = (saves \ {c}) \cup
             {[c EXCEPT !.item = First(IF Items \ owned = {} THEN Items ELSE Items \ owned), !.pc = "existing"]}
        /\ IF owned = DOMAIN mine THEN UNCHANGED <<raced, deeds>> ELSE Deed /\ raced' = TRUE
        /\ UNCHANGED <<mine, made, savedCards, loadingCards, deletingCardId, editor, submitting, deletes, listings,
                       behind>>
  BY DEF ReadsOwned
<1>2. PICK S : S = IF Items \ owned = {} THEN Items ELSE Items \ owned
  OBVIOUS
<1>3. /\ S \subseteq Items /\ S # {}
      /\ owned = DOMAIN mine => S \cap DOMAIN mine = {} \/ DOMAIN mine = Items
  BY <1>2 DEF CardsAssumption, CardsInv
<1>4. First(S) \in S
  <2>1. S \in SUBSET Nat /\ IsFiniteSet(S)
    BY <1>3, FS_Subset DEF CardsAssumption
  <2> QED
    BY <1>3, <2>1, FirstOf
<1>5. PICK i \in S : i = First(S)
  BY <1>4
<1>6. PICK k : k = [c EXCEPT !.item = i, !.pc = "existing"]
  OBVIOUS
<1>7. c \in SaveCall /\ i \in Items /\ i # 0
  BY <1>3 DEF CardsInv, CardsAssumption
<1>8. k \in SaveCall /\ k.item = i /\ k.pc = "existing"
  BY <1>6, <1>7 DEF SaveCall
<1>9. saves' = (saves \ {c}) \cup {k}
  BY <1>1, <1>2, <1>5, <1>6
<1>10. deeds' \in Nat /\ raced' \in {raced, TRUE} /\ (~raced' => owned = DOMAIN mine)
  BY <1>1, DeedCounts DEF CardsInv
<1>11. ~raced' => i \notin DOMAIN mine \/ DOMAIN mine = Items
  BY <1>3, <1>10
<1> QED
  BY <1>1, <1>7, <1>8, <1>9, <1>10, <1>11, SaveSteps

LEMMA ReadsExistingKeeps ==
  ASSUME CardsAssumption, CardsInv, ReadsExisting
  PROVE  CardsInv'
<1>1. PICK c \in saves, found \in BOOLEAN :
        /\ c.pc = "existing" /\ (found => c.item \in DOMAIN mine)
        /\ saves' = (saves \ {c}) \cup
             {[c EXCEPT !.row = IF found THEN mine[c.item].id ELSE 0, !.pc = IF found THEN "reuse" ELSE "insert"]}
        /\ IF found \/ c.item \notin DOMAIN mine THEN UNCHANGED deeds ELSE Deed
        /\ UNCHANGED <<mine, made, savedCards, loadingCards, deletingCardId, editor, submitting, deletes, listings,
                       behind, raced>>
  BY DEF ReadsExisting
<1>2. PICK row : row = IF found THEN mine[c.item].id ELSE 0
  OBVIOUS
<1>3. PICK pc : pc = IF found THEN "reuse" ELSE "insert"
  OBVIOUS
<1>4. PICK k : k = [c EXCEPT !.row = row, !.pc = pc]
  OBVIOUS
<1>5. c \in SaveCall /\ c.item # 0 /\ c.item \in Items
  <2>1. c \in SaveCall /\ c.item # 0
    BY <1>1 DEF CardsInv
  <2> QED
    BY <2>1 DEF SaveCall
<1>6. row \in Nat /\ pc \in {"reuse", "insert"}
  BY <1>1, <1>2, <1>3 DEF CardsInv
<1>7. k \in SaveCall /\ k.item = c.item /\ k.pc = pc /\ k.row = row /\ k.name = c.name
  BY <1>4, <1>5, <1>6 DEF SaveCall
<1>8. saves' = (saves \ {c}) \cup {k}
  BY <1>1, <1>2, <1>3, <1>4
<1>9. ~raced => FitsName(c.item, c.name) \/ c.item \notin DOMAIN mine \/ DOMAIN mine = Items
  BY <1>1 DEF CardsInv, ItemChosen
<1>10. pc = "reuse" => c.item \in DOMAIN mine /\ mine[c.item].id = row
  BY <1>1, <1>2, <1>3
<1>11. deeds' \in Nat
  BY <1>1, DeedCounts DEF CardsInv
<1> QED
  BY <1>1, <1>5, <1>7, <1>8, <1>9, <1>10, <1>11, SaveSteps

LEMMA SaveLostKeeps ==
  ASSUME CardsInv, SaveLost
  PROVE  CardsInv'
<1>1. PICK c \in saves :
        /\ c.pc # "ok" /\ saves' = (saves \ {c}) \cup {[c EXCEPT !.pc = "failed"]} /\ deeds' \in Nat
        /\ UNCHANGED <<mine, made, savedCards, loadingCards, deletingCardId, editor, submitting, deletes, listings,
                       behind, raced>>
  BY DeedCounts DEF SaveLost, Goes
<1>2. PICK k : k = [c EXCEPT !.pc = "failed"]
  OBVIOUS
<1>3. k \in SaveCall /\ k.pc = "failed"
  BY <1>2 DEF CardsInv, SaveCall
<1>4. saves' = (saves \ {c}) \cup {k}
  BY <1>1, <1>2
<1> QED
  BY <1>1, <1>3, <1>4, SaveSteps

LEMMA SaveDoneKeeps ==
  ASSUME CardsInv, SaveDone
  PROVE  CardsInv'
<1>1. PICK c \in saves :
        /\ c.pc = "ok" /\ saves' = saves \ {c} /\ List("save")
        /\ UNCHANGED <<mine, made, savedCards, deletingCardId, editor, submitting, deletes, raced, deeds>>
  BY DEF SaveDone
<1>2. /\ listings' \subseteq ListCall /\ behind' \in BOOLEAN /\ listings' # {}
      /\ \E l \in listings' : l.for = "save"
      /\ listings \subseteq listings' /\ (~behind' => ListFollows')
  BY <1>1, ListStarts
<1>3. ~raced' => \A s \in saves' : ItemChosen(s)'
  <2>1. ~raced => saves' = {}
    BY <1>1 DEF CardsInv, ItemChosen
  <2> QED
    BY <1>1, <2>1
<1> QED
  BY <1>1, <1>2, <1>3 DEF CardsInv

LEMMA SaveFailedKeeps ==
  ASSUME CardsInv, SaveFailed
  PROVE  CardsInv'
<1>1. PICK c \in saves :
        /\ \/ c.pc = "failed" /\ UNCHANGED <<behind, deeds>>
           \/ c.pc = "ok" /\ Deed /\ behind' = TRUE
        /\ saves' = saves \ {c} /\ submitting' = FALSE
        /\ UNCHANGED <<mine, made, savedCards, loadingCards, deletingCardId, editor, deletes, listings, raced>>
  BY DEF SaveFailed
<1>2. behind' \in BOOLEAN /\ deeds' \in Nat
  BY <1>1, DeedCounts DEF CardsInv
<1>3. ~behind' => ListFollows'
  <2>1. ~behind' => ~behind /\ \A s \in saves : s.pc = "ok" => s \in saves'
    BY <1>1
  <2> QED
    BY <1>1, <2>1 DEF CardsInv, ListFollows, Listed
<1>4. ~raced' => \A s \in saves' : ItemChosen(s)'
  <2>1. ~raced => saves' = {}
    BY <1>1 DEF CardsInv, ItemChosen
  <2> QED
    BY <1>1, <2>1
<1> QED
  BY <1>1, <1>2, <1>3, <1>4 DEF CardsInv

LEMMA DeleteKeeps ==
  ASSUME CardsInv, Delete
  PROVE  CardsInv'
<1>1. PICK card \in savedCards :
        /\ deletes' = deletes \cup {[id |-> card.id, n |-> deeds, pc |-> "asked"]} /\ deeds' \in Nat
        /\ UNCHANGED <<mine, made, savedCards, loadingCards, editor, submitting, saves, listings, behind, raced>>
  BY DeedCounts DEF Delete
<1>2. /\ deletes \subseteq deletes' /\ deletes' # {} /\ deletes' \subseteq DeleteCall
      /\ ~behind' => ListFollows'
  <2>1. [id |-> card.id, n |-> deeds, pc |-> "asked"] \in DeleteCall
    BY DEF CardsInv, DeleteCall
  <2> QED
    BY <1>1, <2>1 DEF CardsInv, ListFollows, Listed
<1>3. /\ editor' \in Nat \cup {Closed, New} /\ savedCards' \subseteq [id : Nat, item : Items, scope : Scopes]
      /\ listings' \subseteq ListCall /\ behind' \in BOOLEAN
      /\ loadingCards' => listings' # {}
      /\ submitting' => saves # {} \/ \E l \in listings' : l.for = "save"
  BY <1>1 DEF CardsInv
<1> QED
  BY <1>1, <1>2, <1>3, CardsListOnly

\* The cards change, and with them nothing but the calls in flight.
LEMMA ItemOfId ==
  ASSUME CardsInv, NEW id \in Ids
  PROVE  /\ ItemOf(id) \in DOMAIN mine /\ mine[ItemOf(id)].id = id
         /\ \A i \in DOMAIN mine : mine[i].id = id => i = ItemOf(id)
<1>1. \E i \in DOMAIN mine : mine[i].id = id
  BY DEF Ids
<1>2. ItemOf(id) \in DOMAIN mine /\ mine[ItemOf(id)].id = id
  BY <1>1 DEF ItemOf
<1> QED
  BY <1>2 DEF CardsInv

\* The table after a card of an item is stored: the id is its own already, or new.
LEMMA CardStored ==
  ASSUME CardsInv, NEW item \in Items, NEW name \in CardNames, NEW scope \in Scopes, NEW id \in Nat,
         Stored(item, [id |-> id, name |-> name, scope |-> scope]),
         \/ item \in DOMAIN mine /\ id = mine[item].id /\ made' = made
         \/ item \notin DOMAIN mine /\ id = made + 1 /\ made' = made + 1
  PROVE  /\ made' \in Nat /\ DOMAIN mine' = DOMAIN mine \cup {item}
         /\ mine' \in [DOMAIN mine' -> [id : 1..made', name : CardNames \cup {"old"}, scope : Scopes]]
         /\ DOMAIN mine' \subseteq Items
         /\ \A i, j \in DOMAIN mine' : mine'[i].id = mine'[j].id => i = j
         /\ mine'[item].name = name /\ \A i \in DOMAIN mine : i # item => mine'[i] = mine[i]
<1>1. PICK card : card = [id |-> id, name |-> name, scope |-> scope]
  OBVIOUS
<1>2. mine' = [i \in DOMAIN mine \cup {item} |-> IF i = item THEN card ELSE mine[i]]
  BY <1>1 DEF Stored
<1>3. made \in Nat /\ made' \in Nat /\ made <= made' /\ id \in 1..made'
  BY DEF CardsInv
<1>4. card \in [id : 1..made', name : CardNames \cup {"old"}, scope : Scopes] /\ card.id = id /\ card.name = name
  BY <1>1, <1>3
<1>5. \A i \in DOMAIN mine : mine[i] \in [id : 1..made, name : CardNames \cup {"old"}, scope : Scopes]
  BY DEF CardsInv
<1>6. \A i \in DOMAIN mine : mine[i] \in [id : 1..made', name : CardNames \cup {"old"}, scope : Scopes]
  BY <1>3, <1>5
<1>7. DOMAIN mine' = DOMAIN mine \cup {item} /\ DOMAIN mine' \subseteq Items
  BY <1>2 DEF CardsInv
<1>8. mine' \in [DOMAIN mine' -> [id : 1..made', name : CardNames \cup {"old"}, scope : Scopes]]
  BY <1>2, <1>4, <1>6, <1>7
<1>9. \A i \in DOMAIN mine : i # item => mine[i].id # id
  BY <1>3, <1>5 DEF CardsInv
<1>10. \A i, j \in DOMAIN mine' : mine'[i].id = mine'[j].id => i = j
  BY <1>2, <1>4, <1>7, <1>9 DEF CardsInv
<1> QED
  BY <1>2, <1>3, <1>4, <1>7, <1>8, <1>10

\* What a save stores, and where.
LEMMA StoredByCall ==
  ASSUME CardsInv, StoresCard
  PROVE  \E c \in saves, k \in SaveCall :
           /\ c.pc \in {"update", "reuse", "insert"} /\ saves' = (saves \ {c}) \cup {k}
           /\ k.pc \in {"ok", "failed"} /\ (k.pc = "failed" => UNCHANGED <<mine, made>>)
           /\ UNCHANGED <<savedCards, loadingCards, deletingCardId, editor, submitting, deletes, listings, behind,
                          raced, deeds>>
           /\ \/ UNCHANGED <<mine, made>>
              \/ \E item \in Items :
                   LET id == IF item \in DOMAIN mine THEN mine[item].id ELSE made + 1
                   IN  /\ Stored(item, [id |-> id, name |-> c.name, scope |-> c.scope])
                       /\ id \in Nat /\ made' = IF item \in DOMAIN mine THEN made ELSE made + 1
                       /\ item \in DOMAIN mine => id = IF c.pc = "update" THEN c.edits ELSE c.row
                       /\ item \in DOMAIN mine => c.pc \in {"update", "reuse"}
<1>1. PICK c \in saves :
        /\ c.pc \in {"update", "reuse", "insert"}
        /\ LET id == IF c.pc = "update" THEN c.edits ELSE c.row
               updates == c.pc \in {"update", "reuse"} /\ id \in Ids
               inserts == c.pc = "insert" /\ c.item \notin DOMAIN mine
           IN  /\ \/ updates /\ Stored(ItemOf(id), [id |-> id, name |-> c.name, scope |-> c.scope]) /\ UNCHANGED made
                  \/ inserts /\ Stored(c.item, [id |-> made + 1, name |-> c.name, scope |-> c.scope]) /\ made' = made + 1
                  \/ ~updates /\ ~inserts /\ UNCHANGED <<mine, made>>
               /\ Goes(c, IF updates \/ inserts THEN "ok" ELSE "failed")
        /\ UNCHANGED <<savedCards, loadingCards, deletingCardId, editor, submitting, deletes, listings, behind, raced, deeds>>
  BY DEF StoresCard
<1>2. PICK id : id = IF c.pc = "update" THEN c.edits ELSE c.row
  OBVIOUS
<1>3. PICK updates \in BOOLEAN : updates <=> (c.pc \in {"update", "reuse"} /\ id \in Ids)
  OBVIOUS
<1>4. PICK inserts \in BOOLEAN : inserts <=> (c.pc = "insert" /\ c.item \notin DOMAIN mine)
  OBVIOUS
<1>5. PICK pc : pc = IF updates \/ inserts THEN "ok" ELSE "failed"
  OBVIOUS
<1>6. PICK k : k = [c EXCEPT !.pc = pc]
  OBVIOUS
<1>7. c \in SaveCall /\ pc \in {"ok", "failed"}
  BY <1>5 DEF CardsInv
<1>8. k \in SaveCall /\ k.pc = pc
  BY <1>6, <1>7 DEF SaveCall
<1>9. saves' = (saves \ {c}) \cup {k}
  BY <1>1, <1>2, <1>3, <1>4, <1>5, <1>6 DEF Goes
<1>10. CASE updates
  <2>1. Stored(ItemOf(id), [id |-> id, name |-> c.name, scope |-> c.scope]) /\ UNCHANGED made
    BY <1>1, <1>2, <1>3, <1>10
  <2>2. ItemOf(id) \in DOMAIN mine /\ mine[ItemOf(id)].id = id
    BY <1>3, <1>10, ItemOfId
  <2>3. PICK item \in DOMAIN mine : item = ItemOf(id) /\ mine[item].id = id
    BY <2>2
  <2>4. item \in Items /\ id \in Nat
    BY <2>3 DEF CardsInv
  <2> QED
    BY <1>1, <1>2, <1>3, <1>5, <1>8, <1>9, <1>10, <2>1, <2>3, <2>4
<1>11. CASE ~updates /\ inserts
  <2>1. Stored(c.item, [id |-> made + 1, name |-> c.name, scope |-> c.scope]) /\ made' = made + 1
    BY <1>1, <1>2, <1>3, <1>4, <1>11
  <2>2. c.item \in Items /\ c.item \notin DOMAIN mine /\ made + 1 \in Nat
    BY <1>4, <1>7, <1>11 DEF CardsInv, SaveCall
  <2> QED
    BY <1>1, <1>5, <1>8, <1>9, <1>11, <2>1, <2>2
<1>12. CASE ~updates /\ ~inserts
  <2>1. UNCHANGED <<mine, made>>
    BY <1>1, <1>2, <1>3, <1>4, <1>12
  <2> QED
    BY <1>1, <1>5, <1>8, <1>9, <1>12, <2>1
<1> QED
  BY <1>10, <1>11, <1>12

LEMMA StoresCardKeeps ==
  ASSUME CardsInv, StoresCard
  PROVE  CardsInv'
<1>1. PICK c \in saves, k \in SaveCall :
        /\ c.pc \in {"update", "reuse", "insert"} /\ saves' = (saves \ {c}) \cup {k}
        /\ k.pc \in {"ok", "failed"} /\ (k.pc = "failed" => UNCHANGED <<mine, made>>)
        /\ UNCHANGED <<savedCards, loadingCards, deletingCardId, editor, submitting, deletes, listings, behind,
                       raced, deeds>>
        /\ \/ UNCHANGED <<mine, made>>
           \/ \E item \in Items :
                LET id == IF item \in DOMAIN mine THEN mine[item].id ELSE made + 1
                IN  /\ Stored(item, [id |-> id, name |-> c.name, scope |-> c.scope])
                    /\ id \in Nat /\ made' = IF item \in DOMAIN mine THEN made ELSE made + 1
  BY StoredByCall
<1>2. c.name \in CardNames /\ c.scope \in Scopes
  BY DEF CardsInv, SaveCall
<1>3. /\ made' \in Nat /\ DOMAIN mine' \subseteq Items
      /\ mine' \in [DOMAIN mine' -> [id : 1..made', name : CardNames \cup {"old"}, scope : Scopes]]
      /\ \A i, j \in DOMAIN mine' : mine'[i].id = mine'[j].id => i = j
  <2>1. CASE UNCHANGED <<mine, made>>
    BY <2>1 DEF CardsInv
  <2>2. CASE ~UNCHANGED <<mine, made>>
    <3>1. PICK item \in Items, id \in Nat :
            /\ Stored(item, [id |-> id, name |-> c.name, scope |-> c.scope])
            /\ \/ item \in DOMAIN mine /\ id = mine[item].id /\ made' = made
               \/ item \notin DOMAIN mine /\ id = made + 1 /\ made' = made + 1
      BY <1>1, <2>2
    <3> QED
      BY <1>2, <3>1, CardStored
  <2> QED
    BY <2>1, <2>2
<1>4. ~behind' => ListFollows'
  <2>1. \A s \in saves : s.pc = "ok" => s \in saves'
    BY <1>1
  <2>2. k \in saves' /\ (k.pc # "ok" => UNCHANGED <<mine, made>>)
    BY <1>1
  <2>3. CASE k.pc = "ok"
    BY <2>2, <2>3 DEF ListFollows
  <2>4. CASE k.pc # "ok"
    BY <1>1, <2>1, <2>2, <2>4 DEF CardsInv, ListFollows, Listed
  <2> QED
    BY <2>3, <2>4
<1>5. ASSUME ~raced'
      PROVE  \A s \in saves' : ItemChosen(s)'
  <2>1. saves' = {k}
    <3>1. saves = {c}
      BY <1>1, <1>5 DEF CardsInv, ItemChosen
    <3> QED
      BY <1>1, <3>1
  <2> QED
    BY <1>1, <2>1 DEF ItemChosen
<1>6. saves' \subseteq SaveCall /\ saves' # {}
  BY <1>1 DEF CardsInv
<1>7. \A s \in saves' : s.pc \in {"existing", "reuse", "insert"} => s.item # 0
  BY <1>1 DEF CardsInv
<1> QED
  BY <1>1, <1>3, <1>4, <1>5, <1>6, <1>7 DEF CardsInv

\* A card goes.
LEMMA CardGone ==
  ASSUME CardsInv, NEW gone, mine' = [i \in DOMAIN mine \ {gone} |-> mine[i]], made' = made
  PROVE  /\ made' \in Nat /\ DOMAIN mine' \subseteq Items
         /\ mine' \in [DOMAIN mine' -> [id : 1..made', name : CardNames \cup {"old"}, scope : Scopes]]
         /\ \A i, j \in DOMAIN mine' : mine'[i].id = mine'[j].id => i = j
         /\ \A i \in DOMAIN mine' : mine'[i] = mine[i]
<1>1. DOMAIN mine' = DOMAIN mine \ {gone} /\ \A i \in DOMAIN mine' : mine'[i] = mine[i]
  OBVIOUS
<1>2. \A i \in DOMAIN mine : mine[i] \in [id : 1..made, name : CardNames \cup {"old"}, scope : Scopes]
  BY DEF CardsInv
<1>3. mine' \in [DOMAIN mine' -> [id : 1..made', name : CardNames \cup {"old"}, scope : Scopes]]
  BY <1>1, <1>2
<1> QED
  BY <1>1, <1>3 DEF CardsInv

LEMMA DeleteServedKeeps ==
  ASSUME CardsInv, DeleteServed
  PROVE  CardsInv'
<1>1. PICK d \in deletes, gone \in BOOLEAN :
        /\ d.pc = "asked" /\ (gone => d.id \in Ids)
        /\ deletes' = (deletes \ {d}) \cup {[d EXCEPT !.pc = IF gone THEN "ok" ELSE "failed"]}
        /\ IF gone THEN mine' = [i \in DOMAIN mine \ {ItemOf(d.id)} |-> mine[i]] /\ raced' = TRUE
           ELSE UNCHANGED <<mine, raced>>
        /\ IF gone \/ d.id \notin Ids THEN UNCHANGED deeds ELSE Deed
        /\ UNCHANGED <<made, savedCards, loadingCards, deletingCardId, editor, submitting, saves, listings, behind>>
  BY DEF DeleteServed
<1>2. PICK k : k = [d EXCEPT !.pc = IF gone THEN "ok" ELSE "failed"]
  OBVIOUS
<1>3. k \in DeleteCall /\ k.pc = IF gone THEN "ok" ELSE "failed"
  BY <1>2 DEF CardsInv, DeleteCall
<1>4. deletes' = (deletes \ {d}) \cup {k} /\ deletes' # {} /\ deletes' \subseteq DeleteCall /\ deeds' \in Nat
  BY <1>1, <1>2, <1>3, DeedCounts DEF CardsInv
<1>5. CASE gone
  <2>1. mine' = [i \in DOMAIN mine \ {ItemOf(d.id)} |-> mine[i]] /\ raced' = TRUE
    BY <1>1, <1>5
  <2>2. /\ made' \in Nat /\ DOMAIN mine' \subseteq Items
        /\ mine' \in [DOMAIN mine' -> [id : 1..made', name : CardNames \cup {"old"}, scope : Scopes]]
        /\ \A i, j \in DOMAIN mine' : mine'[i].id = mine'[j].id => i = j
    BY <1>1, <2>1, CardGone
  <2>3. ListFollows'
    BY <1>3, <1>4, <1>5 DEF ListFollows
  <2> QED
    BY <1>1, <1>4, <2>1, <2>2, <2>3 DEF CardsInv
<1>6. CASE ~gone
  <2>1. UNCHANGED <<mine, raced>>
    BY <1>1, <1>6
  <2>2. \A e \in deletes : e.pc = "ok" => e \in deletes'
    BY <1>1
  <2>3. ~behind' => ListFollows'
    BY <1>1, <2>1, <2>2 DEF CardsInv, ListFollows, Listed
  <2>4. /\ editor' \in Nat \cup {Closed, New} /\ savedCards' \subseteq [id : Nat, item : Items, scope : Scopes]
        /\ listings' \subseteq ListCall /\ behind' \in BOOLEAN /\ (loadingCards' => listings' # {})
        /\ submitting' => saves # {} \/ \E l \in listings' : l.for = "save"
    BY <1>1 DEF CardsInv
  <2> QED
    BY <1>1, <1>4, <2>1, <2>3, <2>4, CardsListOnly
<1> QED
  BY <1>5, <1>6

LEMMA DeleteDoneKeeps ==
  ASSUME CardsInv, DeleteDone
  PROVE  CardsInv'
<1>1. /\ List("delete") /\ deletes' \subseteq deletes
      /\ UNCHANGED <<mine, made, savedCards, deletingCardId, editor, submitting, saves, raced, deeds>>
  BY DEF DeleteDone
<1>2. /\ listings' \subseteq ListCall /\ behind' \in BOOLEAN /\ listings' # {}
      /\ \E l \in listings' : l.for = "delete"
      /\ listings \subseteq listings' /\ (~behind' => ListFollows')
  BY <1>1, ListStarts
<1>3. /\ editor' \in Nat \cup {Closed, New} /\ savedCards' \subseteq [id : Nat, item : Items, scope : Scopes]
      /\ deletes' \subseteq DeleteCall /\ deeds' \in Nat
      /\ submitting' => saves # {} \/ \E l \in listings' : l.for = "save"
  BY <1>1, <1>2 DEF CardsInv
<1> QED
  BY <1>1, <1>2, <1>3, CardsListOnly

LEMMA DeleteFailedKeeps ==
  ASSUME CardsInv, DeleteFailed
  PROVE  CardsInv'
<1>1. PICK d \in deletes :
        /\ \/ d.pc = "failed" /\ UNCHANGED <<behind, deeds>>
           \/ d.pc = "ok" /\ Deed /\ behind' = TRUE
        /\ deletes' = deletes \ {d} /\ deletingCardId' = 0
        /\ UNCHANGED <<mine, made, savedCards, loadingCards, editor, submitting, saves, listings, raced>>
  BY DEF DeleteFailed
<1>2. behind' \in BOOLEAN /\ deeds' \in Nat
  BY <1>1, DeedCounts DEF CardsInv
<1>3. ~behind' => ListFollows'
  <2>1. ~behind' => ~behind /\ \A e \in deletes : e.pc = "ok" => e \in deletes'
    BY <1>1
  <2> QED
    BY <1>1, <2>1 DEF CardsInv, ListFollows, Listed
<1>4. /\ editor' \in Nat \cup {Closed, New} /\ savedCards' \subseteq [id : Nat, item : Items, scope : Scopes]
      /\ listings' \subseteq ListCall /\ deletes' \subseteq DeleteCall /\ (loadingCards' => listings' # {})
      /\ submitting' => saves # {} \/ \E l \in listings' : l.for = "save"
  BY <1>1 DEF CardsInv
<1> QED
  BY <1>1, <1>2, <1>3, <1>4, CardsListOnly

LEMMA OtherTabKeeps ==
  ASSUME CardsInv, OtherTab
  PROVE  CardsInv'
<1>1. /\ behind' = TRUE /\ raced' = TRUE /\ deeds' \in Nat
      /\ UNCHANGED <<savedCards, loadingCards, deletingCardId, editor, submitting, saves, deletes, listings>>
  BY DeedCounts DEF OtherTab
<1>2. /\ made' \in Nat /\ DOMAIN mine' \subseteq Items
      /\ mine' \in [DOMAIN mine' -> [id : 1..made', name : CardNames \cup {"old"}, scope : Scopes]]
      /\ \A i, j \in DOMAIN mine' : mine'[i].id = mine'[j].id => i = j
  <2>1. CASE \E i \in Items \ DOMAIN mine, name \in CardNames :
               Stored(i, [id |-> made + 1, name |-> name, scope |-> 1]) /\ made' = made + 1
    <3>1. PICK i \in Items \ DOMAIN mine, name \in CardNames :
            Stored(i, [id |-> made + 1, name |-> name, scope |-> 1]) /\ made' = made + 1
      BY <2>1
    <3>2. PICK scope \in Scopes, id \in Nat : scope = 1 /\ id = made + 1
      BY DEF Scopes, CardsInv
    <3> QED
      BY <3>1, <3>2, CardStored
  <2>2. CASE \E i \in DOMAIN mine : mine' = [j \in DOMAIN mine \ {i} |-> mine[j]] /\ UNCHANGED made
    BY <2>2, CardGone
  <2> QED
    BY <2>1, <2>2 DEF OtherTab
<1> QED
  BY <1>1, <1>2 DEF CardsInv

LEMMA CardsStep ==
  ASSUME CardsAssumption, CardsInv, [CardsNext]_cardVars
  PROVE  CardsInv'
<1>1. CASE UNCHANGED cardVars
  <2>1. \A c \in saves : ItemChosen(c)' <=> ItemChosen(c)
    BY <1>1 DEF ItemChosen, FitsName, cardVars
  <2>2. ListFollows' <=> ListFollows
    BY <1>1 DEF ListFollows, Listed, cardVars
  <2> QED
    BY <1>1, <2>1, <2>2 DEF CardsInv, cardVars
<1> QED
  BY <1>1, ProfileChangedKeeps, CardsServedKeeps, CardsShownKeeps, EditorKeeps, SubmitKeeps, ReadsOwnedKeeps,
     ReadsExistingKeeps, StoresCardKeeps, SaveLostKeeps, SaveDoneKeeps, SaveFailedKeeps, DeleteKeeps,
     DeleteServedKeeps, DeleteDoneKeeps, DeleteFailedKeeps, OtherTabKeeps DEF CardsNext

\* Only a save renames a card that stays, and then one that was found or edited.
LEMMA CardsRenamed ==
  ASSUME CardsInv, CardsNext, NEW i \in DOMAIN mine \cap DOMAIN mine', mine'[i].name # mine[i].name
  PROVE  \/ raced \/ DOMAIN mine = Items \/ i \in UNION {Fits[mine'[i].name][t] : t \in 1..3}
         \/ \E c \in saves : c.edits = mine[i].id
<1>1. CASE StoresCard
  <2>1. PICK c \in saves, item \in Items, id \in Nat :
          /\ Stored(item, [id |-> id, name |-> c.name, scope |-> c.scope])
          /\ \/ item \in DOMAIN mine /\ id = mine[item].id /\ made' = made
             \/ item \notin DOMAIN mine /\ id = made + 1 /\ made' = made + 1
          /\ item \in DOMAIN mine => id = IF c.pc = "update" THEN c.edits ELSE c.row
          /\ item \in DOMAIN mine => c.pc \in {"update", "reuse"}
    BY <1>1, StoredByCall
  <2>2. c.name \in CardNames /\ c.scope \in Scopes
    BY DEF CardsInv, SaveCall
  <2>3. mine'[item].name = c.name /\ i = item
    BY <2>1, <2>2, CardStored
  <2>4. CASE c.pc = "update"
    BY <2>1, <2>3, <2>4
  <2>5. CASE c.pc = "reuse" /\ ~raced
    <3>1. ItemChosen(c)
      BY <2>5 DEF CardsInv
    <3>2. c.item \in DOMAIN mine /\ mine[c.item].id = c.row /\ (FitsName(c.item, c.name) \/ DOMAIN mine = Items)
      BY <2>5, <3>1 DEF ItemChosen
    <3>3. c.item = i
      BY <2>1, <2>3, <2>5, <3>2 DEF CardsInv
    <3> QED
      BY <2>3, <3>2, <3>3 DEF FitsName
  <2> QED
    BY <2>1, <2>3, <2>4, <2>5
<1>2. CASE DeleteServed
  <2>1. PICK d \in deletes : mine' = [j \in DOMAIN mine \ {ItemOf(d.id)} |-> mine[j]] \/ UNCHANGED mine
    BY <1>2 DEF DeleteServed
  <2> QED
    BY <2>1
<1>3. CASE OtherTab
  <2>1. CASE \E j \in Items \ DOMAIN mine, name \in CardNames :
               Stored(j, [id |-> made + 1, name |-> name, scope |-> 1])
    BY <2>1 DEF Stored
  <2>2. CASE \E j \in DOMAIN mine : mine' = [k \in DOMAIN mine \ {j} |-> mine[k]]
    BY <2>2
  <2> QED
    BY <1>3, <2>1, <2>2 DEF OtherTab
<1>4. CASE UNCHANGED mine
  BY <1>4
<1> QED
  BY <1>1, <1>2, <1>3, <1>4 DEF CardsNext, ProfileChanged, CardsServed, CardsShown, OpenAdd, OpenEdit, CloseEditor,
     Editor, Submit, ReadsOwned, ReadsExisting, SaveLost, SaveDone, SaveFailed, Delete, DeleteDone, DeleteFailed

-------------------------------------------------------------------------------
(* The lists, and what they wait for.                                      *)

LEMMA FlightMade ==
  ASSUME NEW for, NEW parts, NEW local
  PROVE  /\ FlightShape(Flight(for, parts, local)) /\ Flight(for, parts, local).for = for
         /\ Flight(for, parts, local).parts = parts /\ Flight(for, parts, local).local = local
         /\ Flight(for, parts, local).step = 0 /\ Flight(for, parts, local).got = [part \in {} |-> 0]
BY DEF FlightShape, Flight

LEMMA FlightCut ==
  ASSUME NEW l, FlightShape(l), NEW early
  PROVE  FlightShape(Cut(l, early)) /\ Cut(l, early).for = l.for
<1>1. PICK g : g = LET parts == {part \in l.parts : part \in DOMAIN l.got \/ <<l, part>> \in early}
                   IN  [part \in parts |-> IF part \in DOMAIN l.got THEN l.got[part] ELSE ReadNow(part)]
  OBVIOUS
<1>2. Cut(l, early) = [l EXCEPT !.got = g]
  BY <1>1 DEF Cut
<1>3. [l EXCEPT !.got = g] = [for |-> l.for, parts |-> l.parts, got |-> g, local |-> l.local, step |-> l.step]
  BY DEF FlightShape
<1> QED
  BY <1>2, <1>3 DEF FlightShape

LEMMA FlightsCut ==
  ASSUME BusyInv, Straddled
  PROVE  /\ \A k \in loads' : FlightShape(k)
         /\ \A l \in loads : \E k \in loads' : k.for = l.for
         /\ searches # {} => searches' # {}
<1>1. PICK early : loads' = {Cut(l, early) : l \in loads}
  BY DEF Straddled
<1>2. \A l \in loads : FlightShape(Cut(l, early)) /\ Cut(l, early).for = l.for
  BY FlightCut DEF BusyInv
<1>3. \A k \in loads' : \E l \in loads : k = Cut(l, early)
  BY <1>1
<1>4. \A l \in loads : Cut(l, early) \in loads'
  BY <1>1
<1>5. searches # {} => searches' # {}
  BY DEF Straddled
<1> QED
  BY <1>2, <1>3, <1>4, <1>5

LEMMA BusyInvStart ==
  ASSUME ClientInit
  PROVE  BusyInv
<1>1. /\ calls = {} /\ busy = Nobody /\ searches = {}
      /\ page \in PeoplePages \cup {"handoffs", "panel", "profile", "cards"}
  BY DEF ClientInit
<1>2. searching => timer
  BY DEF ClientInit, InitLists, NoSearch, InitSearch, ListsClosed
<1>3. \A l \in loads : FlightShape(l)
  <2>1. loads = {} \/ Mounted \/ NetworkMounted \/ HomeMounted
    BY DEF ClientInit, InitLists, ListsClosed, PeoplePages
  <2>2. \A l \in loads : \E for, parts, local : l = Flight(for, parts, local)
    BY <2>1 DEF Mounted, NetworkMounted, HomeMounted, GraphRead, Read
  <2> QED
    BY <2>2, FlightMade
<1>4. CASE page = "requests"
  <2>1. loading => loads # {}
    BY <1>4 DEF ClientInit, InitLists, PeoplePages, Mounted
  <2> QED
    BY <1>1, <1>2, <1>3, <1>4, <2>1 DEF BusyInv
<1>5. CASE page = "network"
  <2>1. loading => NetworkMounted
    BY <1>5 DEF ClientInit, InitLists, PeoplePages
  <2>2. PICK l : l = Flight("mount", NetworkParts, depth)
    OBVIOUS
  <2>3. loading => l \in loads
    BY <2>1, <2>2 DEF NetworkMounted
  <2>4. l.for # "graph"
    BY <2>2 DEF Flight
  <2> QED
    BY <1>1, <1>2, <1>3, <1>5, <2>3, <2>4 DEF BusyInv
<1>6. CASE page = "home"
  <2>1. ~loading
    BY <1>6 DEF ClientInit, InitLists, PeoplePages, HomeMounted
  <2> QED
    BY <1>1, <1>2, <1>3, <1>6, <2>1 DEF BusyInv
<1>7. CASE page \notin PeoplePages
  <2>1. loads = {} /\ ~loading /\ ~searching
    BY <1>7 DEF ClientInit, ListsClosed
  <2> QED
    BY <1>1, <1>2, <1>3, <1>7, <2>1 DEF BusyInv, PeoplePages
<1> QED
  BY <1>1, <1>4, <1>5, <1>6, <1>7 DEF PeoplePages

LEMMA CallAnswered ==
  ASSUME NEW c, AskShape(c), NEW pc, NEW id
  PROVE  /\ AskShape([c EXCEPT !.pc = pc, !.id = id])
         /\ [c EXCEPT !.pc = pc, !.id = id].op = c.op
<1>1. c = [f \in {"op", "p", "id", "pc", "depth"} |-> c[f]]
  BY DEF AskShape
<1>2. [c EXCEPT !.pc = pc, !.id = id] =
        [f \in {"op", "p", "id", "pc", "depth"} |-> IF f = "id" THEN id ELSE IF f = "pc" THEN pc ELSE c[f]]
  BY <1>1
<1>3. [c EXCEPT !.pc = pc, !.id = id] = [op |-> c.op, p |-> c.p, id |-> id, pc |-> pc, depth |-> c.depth]
  BY <1>2
<1> QED
  BY <1>3 DEF AskShape

\* What all three pages do.
LEMMA BusyServed ==
  ASSUME BusyInv, CallServed \/ OthersAct, UNCHANGED page, page \in PeoplePages
  PROVE  BusyInv'
<1>1. /\ \A k \in loads' : FlightShape(k)
      /\ \A l \in loads : \E k \in loads' : k.for = l.for
      /\ searches # {} => searches' # {}
  BY FlightsCut DEF CallServed, OthersAct, BusyInv
<1>2. /\ UNCHANGED <<busy, loading, timer, searching, page>>
  BY DEF CallServed, OthersAct
<1>3. /\ \A c \in calls' : AskShape(c)
      /\ \A c \in calls : \E k \in calls' : k.op = c.op
  <2>1. CASE OthersAct
    BY <2>1 DEF OthersAct, BusyInv
  <2>2. CASE CallServed
    <3>1. PICK c \in calls, pc \in {"ok", "failed"} : Becomes(c, pc)
      BY <2>2 DEF CallServed
    <3>2. PICK k : k = [c EXCEPT !.pc = pc, !.id = IF c.op = "send" /\ pc = "ok" THEN issued + 1 ELSE @]
      OBVIOUS
    <3>3. AskShape(k) /\ k.op = c.op
      BY <3>2, CallAnswered DEF BusyInv
    <3>4. calls' = (calls \ {c}) \cup {k}
      BY <3>1, <3>2 DEF Becomes
    <3> QED
      BY <3>3, <3>4 DEF BusyInv
  <2> QED
    BY <2>1, <2>2
<1>4. CASE page = "requests"
  BY <1>1, <1>2, <1>3, <1>4 DEF BusyInv
<1>5. CASE page = "network"
  BY <1>1, <1>2, <1>3, <1>5 DEF BusyInv
<1>6. CASE page = "home"
  BY <1>1, <1>2, <1>3, <1>6 DEF BusyInv
<1> QED
  BY <1>4, <1>5, <1>6 DEF PeoplePages

LEMMA FlightRead ==
  ASSUME NEW l, FlightShape(l), NEW got, NEW step
  PROVE  /\ FlightShape([l EXCEPT !.got = got, !.step = step]) /\ [l EXCEPT !.got = got, !.step = step].for = l.for
         /\ FlightShape([l EXCEPT !.step = step]) /\ [l EXCEPT !.step = step].for = l.for
<1>1. l = [f \in {"for", "parts", "got", "local", "step"} |-> l[f]]
  BY DEF FlightShape
<1>2. [l EXCEPT !.got = got, !.step = step] =
        [f \in {"for", "parts", "got", "local", "step"} |-> IF f = "step" THEN step ELSE IF f = "got" THEN got ELSE l[f]]
  BY <1>1
<1>3. [l EXCEPT !.got = got, !.step = step] =
        [for |-> l.for, parts |-> l.parts, got |-> got, local |-> l.local, step |-> step]
  BY <1>2
<1>4. [l EXCEPT !.step = step] = [for |-> l.for, parts |-> l.parts, got |-> l.got, local |-> l.local, step |-> step]
  BY DEF FlightShape
<1> QED
  BY <1>3, <1>4 DEF FlightShape

LEMMA BusySearched ==
  ASSUME BusyInv, UNCHANGED page, page \in PeoplePages,
         \/ \E q, cleared : Typed(q, cleared)
         \/ \E local : SearchAsk(local)
         \/ \E s, found : SearchDone(s, found)
  PROVE  BusyInv'
<1>1. UNCHANGED <<calls, loads, busy, loading, page>>
  BY DEF Typed, SearchAsk, SearchDone
<1>2. (searching => timer \/ searches # {})'
  BY DEF Typed, SearchAsk, SearchDone, BusyInv
<1>3. CASE page = "requests"
  BY <1>1, <1>2, <1>3 DEF BusyInv
<1>4. CASE page = "network"
  BY <1>1, <1>2, <1>4 DEF BusyInv
<1>5. CASE page = "home"
  BY <1>1, <1>2, <1>5 DEF BusyInv
<1> QED
  BY <1>3, <1>4, <1>5 DEF PeoplePages

LEMMA AskMade ==
  ASSUME NEW c, Click(c), \A a \in calls : AskShape(a)
  PROVE  /\ \A a \in calls' : AskShape(a)
         /\ calls \subseteq calls' /\ \E a \in calls' : a.op = c.op
<1>1. PICK k : k = [op |-> c.op, p |-> c.p, id |-> c.id, pc |-> "asked", depth |-> depth]
  OBVIOUS
<1>2. AskShape(k) /\ k.op = c.op
  BY <1>1 DEF AskShape
<1>3. calls' = calls \cup {k}
  BY <1>1 DEF Click
<1> QED
  BY <1>2, <1>3

LEMMA BusyRequests ==
  ASSUME BusyInv, RequestsNext, page = "requests", UNCHANGED page
  PROVE  BusyInv'
<1>1. CASE LoadAnswers
  <2>1. PICK l \in loads, lost \in AtMostOne(LoadParts) :
          loads' = (loads \ {l}) \cup {[l EXCEPT !.got = Answer(l, lost), !.step = 1]}
    BY <1>1 DEF LoadAnswers
  <2>2. PICK got : got = Answer(l, lost)
    OBVIOUS
  <2>3. PICK k : k = [l EXCEPT !.got = got, !.step = 1]
    OBVIOUS
  <2>4. FlightShape(k) /\ k.for = l.for
    <3>1. FlightShape(l)
      BY DEF BusyInv
    <3>2. /\ FlightShape([l EXCEPT !.got = got, !.step = 1])
          /\ [l EXCEPT !.got = got, !.step = 1].for = l.for
      BY <3>1, FlightRead
    <3> QED
      BY <2>3, <3>2
  <2>5. loads' = (loads \ {l}) \cup {k}
    BY <2>1, <2>2, <2>3
  <2>6. UNCHANGED <<calls, busy, loading, timer, searching, searches>>
    BY <1>1 DEF LoadAnswers, search
  <2> QED
    BY <2>4, <2>5, <2>6 DEF BusyInv
<1>2. CASE LoadApplies
  <2>1. PICK l \in loads : loads' = (loads \ {l}) \cup {[l EXCEPT !.step = @ + 1]}
    BY <1>2 DEF LoadApplies
  <2>2. PICK step : step = l.step + 1
    OBVIOUS
  <2>3. PICK k : k = [l EXCEPT !.step = step]
    OBVIOUS
  <2>4. FlightShape(k) /\ k.for = l.for
    BY <2>3, FlightRead DEF BusyInv
  <2>5. loads' = (loads \ {l}) \cup {k}
    BY <2>1, <2>2, <2>3
  <2>6. UNCHANGED <<calls, busy, loading, timer, searching, searches>>
    BY <1>2 DEF LoadApplies, search
  <2> QED
    BY <2>4, <2>5, <2>6 DEF BusyInv
<1>3. CASE LoadEnds
  BY <1>3 DEF LoadEnds, BusyInv, search
<1>4. CASE Clicked
  BY <1>4, AskMade DEF Clicked, Click, BusyInv, search
<1>5. CASE CallDone
  <2>1. PICK f : f = Flight("action", LoadParts, depth)
    OBVIOUS
  <2>2. FlightShape(f) /\ f.for = "action"
    BY <2>1, FlightMade
  <2>3. loads' = loads \cup {f} /\ calls' \subseteq calls
    BY <1>5, <2>1 DEF CallDone, StartLoad
  <2>4. UNCHANGED <<busy, loading, timer, searching, searches>>
    BY <1>5 DEF CallDone
  <2> QED
    BY <2>2, <2>3, <2>4 DEF BusyInv
<1>6. CASE CallFailed
  BY <1>6 DEF CallFailed, BusyInv, search
<1>7. CASE SearchEffect \/ SearchAsk(0) \/ SearchAnswer \/ SearchFails
  BY <1>7, BusySearched DEF SearchEffect, SearchAnswer, SearchFails, PeoplePages
<1> QED
  BY <1>1, <1>2, <1>3, <1>4, <1>5, <1>6, <1>7, BusyServed DEF RequestsNext, PeoplePages

LEMMA BusyNetwork ==
  ASSUME BusyInv, NetworkNext, page = "network", UNCHANGED page
  PROVE  BusyInv'
<1>1. CASE NetworkLoaded
  <2>1. PICK l \in loads :
          /\ l.for # "graph" /\ loads' = (loads \ {l}) \cup {GraphRead} /\ loading' = FALSE /\ Ended(l) /\ Researched
          /\ UNCHANGED <<calls, searches>>
    BY <1>1 DEF NetworkLoaded
  <2>2. FlightShape(GraphRead)
    BY FlightMade DEF GraphRead
  <2> QED
    BY <2>1, <2>2 DEF BusyInv, Ended, Researched
<1>2. CASE NetworkLoadFails
  BY <1>2 DEF NetworkLoadFails, BusyInv, Ended, search
<1>3. CASE GraphLoaded
  <2>1. PICK l \in loads : l.for = "graph" /\ loads' = loads \ {l} /\ UNCHANGED <<calls, busy, loading, searches>>
    BY <1>3 DEF GraphLoaded
  <2>2. Researched \/ UNCHANGED <<timer, searching>>
    BY <1>3 DEF GraphLoaded
  <2> QED
    BY <2>1, <2>2 DEF BusyInv, Researched
<1>4. CASE DepthChosen
  <2>1. PICK f : f = Flight("graph", {"graph"}, depth')
    OBVIOUS
  <2>2. FlightShape(f) /\ f.for = "graph"
    BY <2>1, FlightMade
  <2>3. loads' = loads \cup {f} /\ UNCHANGED <<calls, busy, loading, timer, searching, searches>>
    BY <1>4, <2>1 DEF DepthChosen, search
  <2> QED
    BY <2>2, <2>3 DEF BusyInv
<1>5. CASE NetworkClicked
  <2>1. PICK c \in NetworkOffers : Click(c) /\ busy' = IF c.op = "send" THEN c.p ELSE busy
    BY <1>5 DEF NetworkClicked
  <2>2. UNCHANGED <<loads, loading, timer, searching, searches>>
    BY <1>5 DEF NetworkClicked, search
  <2>3. /\ \A a \in calls' : AskShape(a)
        /\ calls \subseteq calls' /\ \E a \in calls' : a.op = c.op
    BY <2>1, AskMade DEF BusyInv
  <2> QED
    BY <2>1, <2>2, <2>3 DEF BusyInv
<1>6. CASE NetworkCallDone
  <2>1. PICK c \in calls : calls' = calls \ {c} /\ StartLoad(IF c.op = "send" THEN "send" ELSE "action", NetworkParts, c.depth)
    BY <1>6 DEF NetworkCallDone
  <2>2. PICK for : for = IF c.op = "send" THEN "send" ELSE "action"
    OBVIOUS
  <2>3. PICK f : f = Flight(for, NetworkParts, c.depth)
    OBVIOUS
  <2>4. FlightShape(f) /\ f.for = for
    BY <2>3, FlightMade
  <2>5. loads' = loads \cup {f}
    BY <2>1, <2>2, <2>3 DEF StartLoad
  <2>6. UNCHANGED <<busy, timer, searching, searches>>
    BY <1>6 DEF NetworkCallDone, search
  <2> QED
    BY <2>1, <2>2, <2>4, <2>5, <2>6 DEF BusyInv
<1>7. CASE NetworkCallFailed
  BY <1>7 DEF NetworkCallFailed, BusyInv, search
<1>8. CASE NetworkSearchEffect \/ SearchAsk(Local) \/ NetworkSearchAnswer \/ NetworkSearchFails
  BY <1>8, BusySearched DEF NetworkSearchEffect, NetworkSearchAnswer, NetworkSearchFails, PeoplePages
<1> QED
  BY <1>1, <1>2, <1>3, <1>4, <1>5, <1>6, <1>7, <1>8, BusyServed DEF NetworkNext, PeoplePages

LEMMA BusyHome ==
  ASSUME BusyInv, HomeNext, page = "home", UNCHANGED page
  PROVE  BusyInv'
<1>1. CASE PartArrives \/ PartFails
  BY <1>1 DEF PartArrives, PartFails, BusyInv, search
<1>2. CASE HomeDepthChosen
  <2>1. PICK f : f = Flight("home", {"graph"}, depth')
    OBVIOUS
  <2>2. FlightShape(f)
    BY <2>1, FlightMade
  <2>3. loads' = loads \cup {f} /\ UNCHANGED <<calls, busy, loading, timer, searching, searches>>
    BY <1>2, <2>1 DEF HomeDepthChosen, search, Read, Flight
  <2> QED
    BY <2>2, <2>3 DEF BusyInv
<1>3. CASE HomeClicked
  <2>1. PICK c \in HomeOffers : Click(c)
    BY <1>3 DEF HomeClicked
  <2>2. UNCHANGED <<loads, loading, timer, searching, searches>>
    BY <1>3 DEF HomeClicked, search
  <2>3. (\A a \in calls' : AskShape(a)) /\ calls' # {}
    BY <2>1, AskMade DEF BusyInv
  <2> QED
    BY <2>2, <2>3 DEF BusyInv
<1>4. CASE HomeCallDone
  <2>0. PICK c \in calls, parts \in {{"stats", "graph"}, {"stats"}} : Refreshed(parts, {"requests"}, c.depth)
    BY <1>4 DEF HomeCallDone
  <2>1. loads' = loads \cup {Flight("action", {part}, c.depth) : part \in parts}
    BY <2>0 DEF Refreshed
  <2>2. \A l \in loads' : FlightShape(l)
    <3>1. \A part : FlightShape(Flight("action", {part}, c.depth))
      BY FlightMade
    <3> QED
      BY <2>1, <3>1 DEF BusyInv
  <2>3. calls' \subseteq calls /\ busy' = Nobody /\ UNCHANGED <<loading, timer, searching, searches>>
    BY <1>4 DEF HomeCallDone
  <2> QED
    BY <2>2, <2>3 DEF BusyInv
<1>5. CASE HomeCallFailed
  BY <1>5 DEF HomeCallFailed, BusyInv, search
<1>6. CASE HomeSearchEffect \/ SearchAsk(0) \/ HomeSearchAnswer \/ HomeSearchFails
  BY <1>6, BusySearched DEF HomeSearchEffect, HomeSearchAnswer, HomeSearchFails, PeoplePages
<1> QED
  BY <1>1, <1>2, <1>3, <1>4, <1>5, <1>6, BusyServed DEF HomeNext, PeoplePages

LEMMA BusyStep ==
  ASSUME BusyInv, [ClientNext]_clientVars
  PROVE  BusyInv'
<1>1. UNCHANGED page
  BY DEF ClientNext, clientVars
<1>2. CASE ListsNext
  BY <1>1, <1>2, BusyRequests, BusyNetwork, BusyHome DEF ListsNext
<1>3. CASE UNCHANGED <<vars, page>>
  <2>1. UNCHANGED <<loads, calls, busy, loading, timer, searching, searches, page>>
    BY <1>3 DEF vars, pageVars, search
  <2>2. CASE page = "requests"
    BY <2>1, <2>2 DEF BusyInv
  <2>3. CASE page = "network"
    BY <2>1, <2>3 DEF BusyInv
  <2>4. CASE page = "home"
    BY <2>1, <2>4 DEF BusyInv
  <2>5. CASE page \notin PeoplePages
    BY <2>1, <2>5 DEF BusyInv, PeoplePages
  <2> QED
    BY <2>2, <2>3, <2>4, <2>5 DEF PeoplePages
<1> QED
  BY <1>1, <1>2, <1>3 DEF ClientNext, clientVars

-------------------------------------------------------------------------------
(* The lists settle.                                                       *)

LEMMA ReadsSame ==
  ASSUME UNCHANGED server
  PROVE  /\ \A part : ReadNow(part)' = ReadNow(part)
         /\ RequestsNow' = RequestsNow
         /\ \A id : Incoming(id)' <=> Incoming(id)
<1>1. FriendsNow' = FriendsNow /\ RequestsNow' = RequestsNow /\ BlocksNow' = BlocksNow
  BY DEF server, FriendsNow, RequestsNow, BlocksNow
<1>2. FofNow' = FofNow
  BY <1>1 DEF server, FofNow
<1>3. \A part : ReadNow(part)' = ReadNow(part)
  BY <1>1, <1>2 DEF ReadNow
<1> QED
  BY <1>1, <1>3 DEF Incoming, server

LEMMA FlightHolds ==
  ASSUME NEW l, FlightShape(l), NEW early
  PROVE  LET k == Cut(l, early)
         IN  /\ FlightShape(k) /\ k.for = l.for /\ k.parts = l.parts /\ k.local = l.local /\ k.step = l.step
             /\ \A part \in DOMAIN k.got :
                  /\ part \in l.parts
                  /\ k.got[part] = IF part \in DOMAIN l.got THEN l.got[part] ELSE ReadNow(part)
<1>1. PICK g : g = LET parts == {part \in l.parts : part \in DOMAIN l.got \/ <<l, part>> \in early}
                   IN  [part \in parts |-> IF part \in DOMAIN l.got THEN l.got[part] ELSE ReadNow(part)]
  OBVIOUS
<1>2. Cut(l, early) = [l EXCEPT !.got = g]
  BY <1>1 DEF Cut
<1>3. [l EXCEPT !.got = g] = [for |-> l.for, parts |-> l.parts, got |-> g, local |-> l.local, step |-> l.step]
  BY DEF FlightShape
<1>4. \A part \in DOMAIN g : part \in l.parts /\ g[part] = IF part \in DOMAIN l.got THEN l.got[part] ELSE ReadNow(part)
  BY <1>1
<1> QED
  BY <1>2, <1>3, <1>4 DEF FlightShape

-------------------------------------------------------------------------------
(* The server.                                                             *)

LEMMA ServerSent ==
  ASSUME ServerInv, NEW p, NEW relation \in {"outgoing", "incoming"}, Asks(p, relation)
  PROVE  /\ ServerInv'
         /\ relation = "outgoing" => \A id : Incoming(id)' => Incoming(id)
         /\ relation = "outgoing" => \A id : id = issued + 1 => ~Incoming(id)'
<1>1. /\ link' = [link EXCEPT ![p] = relation] /\ ticket' = [ticket EXCEPT ![p] = issued + 1]
      /\ issued' = issued + 1
  BY DEF Asks, To
<1>2. /\ link' \in [People -> Relations] /\ ticket' \in [People -> Nat] /\ issued' \in Nat
  <2>1. issued + 1 \in Nat /\ relation \in Relations
    BY DEF ServerInv, Relations
  <2>2. link' \in [People -> Relations]
    BY <1>1, <2>1 DEF ServerInv
  <2>3. ticket' \in [People -> Nat]
    BY <1>1, <2>1 DEF ServerInv
  <2> QED
    BY <1>1, <2>1, <2>2, <2>3
<1>3. \A q \in People : /\ q # p => link'[q] = link[q] /\ ticket'[q] = ticket[q]
                        /\ q = p => link'[q] = relation /\ ticket'[q] = issued + 1
  BY <1>1 DEF ServerInv
<1>4. \A q \in People : (ticket'[q] # 0 <=> link'[q] \in {"incoming", "outgoing"}) /\ ticket'[q] <= issued'
  BY <1>1, <1>3 DEF ServerInv
<1>5. \A q, r \in People : q # r /\ ticket'[q] # 0 => ticket'[q] # ticket'[r]
  BY <1>3 DEF ServerInv
<1>6. \A q \in People : ticket[q] # issued + 1
  BY DEF ServerInv
<1> QED
  BY <1>2, <1>3, <1>4, <1>5, <1>6 DEF ServerInv, Incoming

\* Whatever ends a request or a friendship.
LEMMA ServerEnded ==
  ASSUME ServerInv, NEW p, NEW relation \in {"none", "friend"}, To(p, relation, 0), UNCHANGED issued
  PROVE  /\ ServerInv'
         /\ \A id : Incoming(id)' => Incoming(id)
         /\ p \in People /\ ticket[p] # 0 => \A id : id = ticket[p] => ~Incoming(id)'
<1>1. link' = [link EXCEPT ![p] = relation] /\ ticket' = [ticket EXCEPT ![p] = 0]
  BY DEF To
<1>2. /\ link' \in [People -> Relations] /\ ticket' \in [People -> Nat] /\ issued' \in Nat
  BY <1>1 DEF ServerInv, Relations
<1>3. \A q \in People : /\ q # p => link'[q] = link[q] /\ ticket'[q] = ticket[q]
                        /\ q = p => link'[q] = relation /\ ticket'[q] = 0
  BY <1>1 DEF ServerInv
<1>4. \A q \in People : (ticket'[q] # 0 <=> link'[q] \in {"incoming", "outgoing"}) /\ ticket'[q] <= issued'
  BY <1>3 DEF ServerInv
<1>5. \A q, r \in People : q # r /\ ticket'[q] # 0 => ticket'[q] # ticket'[r]
  BY <1>3 DEF ServerInv
<1> QED
  BY <1>2, <1>3, <1>4, <1>5 DEF ServerInv, Incoming

LEMMA ServerAccepted ==
  ASSUME ServerInv, NEW op \in Operations, NEW p, NEW id, Accepted(op, p, id)
  PROVE  ServerInv'
<1>1. CASE op = "send"
  BY <1>1, ServerSent DEF Accepted
<1>2. CASE op \in {"accept", "decline", "cancel"}
  <2>1. PICK q, relation : relation \in {"none", "friend"} /\ To(q, relation, 0) /\ UNCHANGED issued
    <3>1. CASE op = "accept"
      BY <3>1 DEF Accepted, Answers
    <3>2. CASE op \in {"decline", "cancel"}
      BY <3>2 DEF Accepted, Answers
    <3> QED
      BY <1>2, <3>1, <3>2
  <2> QED
    BY <2>1, ServerEnded
<1>3. CASE op \in {"remove", "block"}
  <2>1. To(p, "none", 0) /\ UNCHANGED issued
    BY <1>3 DEF Accepted, Parts_With
  <2> QED
    BY <2>1, ServerEnded
<1>4. CASE op = "unblock"
  BY <1>4 DEF Accepted, ServerInv
<1> QED
  BY <1>1, <1>2, <1>3, <1>4 DEF Operations

LEMMA ServerOthers ==
  ASSUME ServerInv, NEW p, OtherActs(p)
  PROVE  ServerInv'
<1>1. CASE Asks(p, "incoming")
  BY <1>1, ServerSent
<1>2. CASE ~Asks(p, "incoming")
  <2>1. PICK q, relation : relation \in {"none", "friend"} /\ To(q, relation, 0) /\ UNCHANGED issued
    <3>1. (\E q \in People : To(q, "none", 0) /\ UNCHANGED issued)
          \/ (\E q \in People : To(q, "friend", 0) /\ UNCHANGED issued) \/ (To(p, "none", 0) /\ UNCHANGED issued)
      BY <1>2 DEF OtherActs, Answers, Parts_With
    <3> QED
      BY <3>1
  <2> QED
    BY <2>1, ServerEnded
<1> QED
  BY <1>1, <1>2

LEMMA PreviewOf ==
  ASSUME NEW links, NEW tickets, \A p \in People : tickets[p] # 0 <=> links[p] \in {"incoming", "outgoing"}
  PROVE  Preview([p \in {q \in People : tickets[q] # 0} |-> [dir |-> links[p], id |-> tickets[p]]]) =
           [p \in {q \in People : links[q] = "incoming"} |-> [dir |-> "incoming", id |-> tickets[p]]]
<1>1. PICK r : r = [p \in {q \in People : tickets[q] # 0} |-> [dir |-> links[p], id |-> tickets[p]]]
  OBVIOUS
<1>2. {q \in DOMAIN r : r[q].dir = "incoming"} = {q \in People : links[q] = "incoming"}
  BY <1>1
<1>3. \A p \in {q \in People : links[q] = "incoming"} : r[p] = [dir |-> "incoming", id |-> tickets[p]]
  BY <1>1
<1>4. Preview(r) = [p \in {q \in People : links[q] = "incoming"} |-> [dir |-> "incoming", id |-> tickets[p]]]
  BY <1>2, <1>3 DEF Preview
<1> QED
  BY <1>1, <1>4

LEMMA PreviewNow ==
  ASSUME ServerInv
  PROVE  Preview(RequestsNow) = [p \in {q \in People : link[q] = "incoming"} |-> [dir |-> "incoming", id |-> ticket[p]]]
<1>1. \A p \in People : ticket[p] # 0 <=> link[p] \in {"incoming", "outgoing"}
  BY DEF ServerInv
<1> QED
  BY <1>1, PreviewOf DEF RequestsNow

LEMMA PreviewThen ==
  ASSUME ServerInv'
  PROVE  Preview(RequestsNow)' =
           [p \in {q \in People : link'[q] = "incoming"} |-> [dir |-> "incoming", id |-> ticket'[p]]]
<1>1. \A p \in People : ticket'[p] # 0 <=> link'[p] \in {"incoming", "outgoing"}
  BY DEF ServerInv
<1>2. Preview(RequestsNow)' =
        Preview([p \in {q \in People : ticket'[q] # 0} |-> [dir |-> link'[p], id |-> ticket'[p]]])
  BY DEF RequestsNow, Preview
<1> QED
  BY <1>1, <1>2, PreviewOf

-------------------------------------------------------------------------------
(* What all pages do.                                                      *)

LEMMA CallBecomes ==
  ASSUME NEW c, AskShape(c), NEW pc, NEW id
  PROVE  [c EXCEPT !.pc = pc, !.id = id] = [op |-> c.op, p |-> c.p, id |-> id, pc |-> pc, depth |-> c.depth]
<1>1. c = [f \in {"op", "p", "id", "pc", "depth"} |-> c[f]]
  BY DEF AskShape
<1>2. [c EXCEPT !.pc = pc, !.id = id] =
        [f \in {"op", "p", "id", "pc", "depth"} |-> IF f = "id" THEN id ELSE IF f = "pc" THEN pc ELSE c[f]]
  BY <1>1
<1> QED
  BY <1>2

LEMMA ServedOutcome ==
  ASSUME BusyInv, CallServed
  PROVE  \E c, k :
           /\ c \in calls
           /\ c.pc = "asked" /\ calls' = (calls \ {c}) \cup {k} /\ AskShape(k) /\ k.op = c.op /\ k.p = c.p
           /\ k.id = IF k.pc = "ok" /\ c.op = "send" THEN issued + 1 ELSE c.id
           /\ \/ k.pc = "ok" /\ Accepted(c.op, c.p, c.id) /\ Straddled /\ UNCHANGED drift
                 /\ late' = (late \/ searches # {})
              \/ k.pc = "failed" /\ Accepted(c.op, c.p, c.id) /\ Straddled /\ drift' = TRUE /\ late' = TRUE
              \/ k.pc = "failed" /\ UNCHANGED <<server, loads, searches, drift, late>>
<1>1. PICK c \in calls :
        /\ c.pc = "asked"
        /\ \/ /\ Accepted(c.op, c.p, c.id) /\ Straddled
              /\ \/ Becomes(c, "ok") /\ late' = (late \/ searches # {}) /\ UNCHANGED <<spent, drift>>
                 \/ Becomes(c, "failed") /\ Spend /\ drift' = TRUE /\ late' = TRUE
           \/ /\ Refused(c.op, c.p, c.id) /\ Becomes(c, "failed")
              /\ UNCHANGED <<loads, searches, spent, drift, late>>
           \/ /\ Becomes(c, "failed") /\ Spend
              /\ UNCHANGED <<server, loads, searches, drift, late>>
  BY DEF CallServed
<1>2. AskShape(c)
  BY DEF BusyInv
<1>3. CASE Becomes(c, "ok") /\ Accepted(c.op, c.p, c.id) /\ Straddled /\ UNCHANGED drift /\ late' = (late \/ searches # {})
  <2>1. PICK id : id = IF c.op = "send" THEN issued + 1 ELSE c.id
    OBVIOUS
  <2>2. PICK k : k = [op |-> c.op, p |-> c.p, id |-> id, pc |-> "ok", depth |-> c.depth]
    OBVIOUS
  <2>3. [c EXCEPT !.pc = "ok", !.id = id] = k
    BY <1>2, <2>2, CallBecomes
  <2>4. calls' = (calls \ {c}) \cup {k}
    BY <1>3, <2>1, <2>3 DEF Becomes
  <2>5. AskShape(k) /\ k.op = c.op /\ k.p = c.p /\ k.pc = "ok" /\ k.id = id
    BY <2>2 DEF AskShape
  <2> QED
    BY <1>1, <1>3, <2>1, <2>4, <2>5
<1>4. ASSUME Becomes(c, "failed")
      PROVE  \E k : calls' = (calls \ {c}) \cup {k} /\ AskShape(k) /\ k.op = c.op /\ k.p = c.p /\ k.pc = "failed" /\ k.id = c.id
  <2>1. PICK k : k = [op |-> c.op, p |-> c.p, id |-> c.id, pc |-> "failed", depth |-> c.depth]
    OBVIOUS
  <2>2. [c EXCEPT !.pc = "failed", !.id = c.id] = k
    BY <1>2, <2>1, CallBecomes
  <2>3. calls' = (calls \ {c}) \cup {k}
    BY <1>4, <2>2 DEF Becomes
  <2> QED
    BY <2>1, <2>3 DEF AskShape
<1>5. Refused(c.op, c.p, c.id) => UNCHANGED server
  BY DEF Refused
<1> QED
  BY <1>1, <1>3, <1>4, <1>5

\* A step that leaves the server alone leaves what is read from it alone.
LEMMA StandsStill ==
  ASSUME UNCHANGED server
  PROVE  /\ \A l : Fresh(l)' <=> Fresh(l)
         /\ UNCHANGED shown => \A parts : Shows(parts)' <=> Shows(parts)
         /\ UNCHANGED <<shown, depth>> => (ShowsGraph' <=> ShowsGraph)
         /\ ServerInv' <=> ServerInv
<1>1. \A part : ReadNow(part)' = ReadNow(part)
  BY ReadsSame
<1>2. \A l : Fresh(l)' <=> Fresh(l)
  BY <1>1 DEF Fresh
<1>3. UNCHANGED shown => \A parts : Shows(parts)' <=> Shows(parts)
  BY <1>1 DEF Shows
<1>4. UNCHANGED <<shown, depth>> => (ShowsGraph' <=> ShowsGraph)
  BY <1>1 DEF ShowsGraph, AtDepth
<1>5. ServerInv' <=> ServerInv
  BY DEF server, ServerInv
<1> QED
  BY <1>2, <1>3, <1>4, <1>5

LEMMA FlightNew ==
  ASSUME NEW for, NEW parts, NEW local
  PROVE  LET l == Flight(for, parts, local)
         IN  /\ FlightShape(l) /\ l.for = for /\ l.parts = parts /\ l.local = local /\ l.step = 0
             /\ DOMAIN l.got = {} /\ Fresh(l)
BY DEF FlightShape, Flight, Fresh

\* The kinds of calls stay; those served or answered are among those before.
LEMMA OpsServed ==
  ASSUME ListsInv, BusyInv, CallServed
  PROVE  /\ \A c \in calls' : c.op \in Operations
         /\ ServerInv' /\ (shown = [part \in AllParts |-> shown[part]])'
<1>1. PICK c, k :
           /\ c \in calls
           /\ c.pc = "asked" /\ calls' = (calls \ {c}) \cup {k} /\ AskShape(k) /\ k.op = c.op /\ k.p = c.p
           /\ k.id = IF k.pc = "ok" /\ c.op = "send" THEN issued + 1 ELSE c.id
           /\ \/ k.pc = "ok" /\ Accepted(c.op, c.p, c.id) /\ Straddled /\ UNCHANGED drift
                 /\ late' = (late \/ searches # {})
              \/ k.pc = "failed" /\ Accepted(c.op, c.p, c.id) /\ Straddled /\ drift' = TRUE /\ late' = TRUE
              \/ k.pc = "failed" /\ UNCHANGED <<server, loads, searches, drift, late>>
  BY ServedOutcome
<1>2. \A d \in calls' : d.op \in Operations
  BY <1>1 DEF ListsInv
<1>3. ServerInv'
  <2>1. CASE Accepted(c.op, c.p, c.id)
    <3>1. c.op \in Operations /\ ServerInv
      BY <1>1 DEF ListsInv
    <3> QED
      BY <2>1, <3>1, ServerAccepted
  <2>2. CASE UNCHANGED server
    BY <2>2, StandsStill DEF ListsInv
  <2> QED
    BY <1>1, <2>1, <2>2
<1>4. UNCHANGED shown
  BY DEF CallServed
<1> QED
  BY <1>2, <1>3, <1>4 DEF ListsInv

-------------------------------------------------------------------------------
(* What the buttons call.                                                  *)

LEMMA ButtonOps ==
  ASSUME NEW p, NEW row, NEW handlers, NEW isBusy, NEW b \in Buttons(p, row, handlers, isBusy)
  PROVE  b.op \in handlers
BY DEF Buttons

LEMMA ItemOps ==
  ASSUME NEW people, NEW relation, NEW handlers, NEW Busy(_), NEW b \in ListItems(people, relation, handlers, Busy)
  PROVE  b.op \in handlers
<1>1. PICK p \in people : b \in Buttons(p, RowOf(relation, p), handlers, Busy([p |-> p, id |-> RowOf(relation, p).id]))
  BY Zenon DEF ListItems
<1> QED
  BY <1>1, ButtonOps

LEMMA RequestsOps ==
  ASSUME NEW b \in Offers
  PROVE  b.op \in Operations
<1>1. CASE b \in SearchList
  <2>1. PICK p : b \in Buttons(p, rows[p], Operations, busy = p \/ (rows[p].id # 0 /\ busy = rows[p].id))
    BY <1>1, Zenon DEF SearchList
  <2> QED
    BY <2>1, ButtonOps
<1>2. CASE b \in AllTab
  BY <1>2, ItemOps, Zenon DEF AllTab, Operations
<1>3. CASE b \in IncomingTab
  BY <1>3, ItemOps, Zenon DEF IncomingTab, Operations
<1>4. CASE b \in PendingTab
  BY <1>4, ItemOps, Zenon DEF PendingTab, Operations
<1>5. CASE b \in FriendsTab
  BY <1>5, ItemOps, Zenon DEF FriendsTab, Operations
<1>6. CASE b \in FofTab
  BY <1>6, ItemOps, Zenon DEF FofTab, Operations
<1>7. CASE b \in BlockedTab
  BY <1>7, ItemOps, Zenon DEF BlockedTab, Operations
<1> QED
  BY <1>1, <1>2, <1>3, <1>4, <1>5, <1>6, <1>7 DEF Offers

LEMMA NetworkOps ==
  ASSUME NEW b \in NetworkOffers
  PROVE  b.op \in Operations
<1>1. CASE b \in FoundList
  <2>1. PICK p \in DOMAIN rows : b \in Buttons(p, rows[p], SearchHandlers, busy = p)
    BY <1>1, Zenon DEF FoundList
  <2>2. b.op \in SearchHandlers
    BY <2>1, ButtonOps
  <2> QED
    BY <2>2 DEF SearchHandlers, Operations
<1>2. CASE b \in ManualInvite
  BY <1>2 DEF ManualInvite, Operations
<1>3. CASE b \in FriendsCards
  BY <1>3, ItemOps, Zenon DEF FriendsCards, Operations
<1>4. CASE b \in IncomingCards
  BY <1>4, ItemOps, Zenon DEF IncomingCards, Operations
<1>5. CASE b \in OutgoingCards
  BY <1>5, ItemOps, Zenon DEF OutgoingCards, Operations
<1>6. CASE b \in BlockedCards
  BY <1>6, ItemOps, Zenon DEF BlockedCards, Operations
<1> QED
  BY <1>1, <1>2, <1>3, <1>4, <1>5, <1>6 DEF NetworkOffers

HomeOps == {"send", "accept", "decline", "cancel"}
\* On the home page a request is withdrawn where a row says that it is one's own.
LEMMA HomeOfferOps ==
  ASSUME NEW b \in HomeOffers
  PROVE  /\ b.op \in HomeOps
         /\ b.op = "cancel" => \E p \in DOMAIN rows : rows[p].relation = "outgoing_request" /\ rows[p].id = b.id
<1>1. CASE b \in FoundHome
  <2>1. PICK p \in DOMAIN rows : b \in Buttons(p, rows[p], {"send", "accept", "decline", "cancel"}, RowBusy(p))
    BY <1>1, Zenon DEF FoundHome
  <2>2. b.op \in HomeOps
    BY <2>1, ButtonOps DEF HomeOps
  <2>3. b.op = "cancel" => rows[p].relation = "outgoing_request" /\ rows[p].id = b.id
    BY <2>1 DEF Buttons
  <2> QED
    BY <2>2, <2>3
<1>2. CASE b \in RequestsPreview
  <2>1. b.op \in {"accept", "decline"}
    BY <1>2, ItemOps, Zenon DEF RequestsPreview
  <2> QED
    BY <2>1 DEF HomeOps
<1>3. CASE b \in Suggestions
  <2>1. b.op \in {"send"}
    BY <1>3, ItemOps, Zenon DEF Suggestions
  <2> QED
    BY <2>1 DEF HomeOps
<1> QED
  BY <1>1, <1>2, <1>3 DEF HomeOffers

-------------------------------------------------------------------------------
(* The requests page.                                                      *)

LEMMA ClickOps ==
  ASSUME NEW c, Click(c), c.op \in Operations, \A a \in calls : a.op \in Operations
  PROVE  /\ \A a \in calls' : a.op \in Operations
         /\ \A ops : Answering(ops) => Answering(ops)'
<1>1. PICK k : k = [op |-> c.op, p |-> c.p, id |-> c.id, pc |-> "asked", depth |-> depth]
  OBVIOUS
<1>2. calls' = calls \cup {k} /\ k.op = c.op
  BY <1>1 DEF Click
<1> QED
  BY <1>2 DEF Answering

\* Answers that arrive to no load in flight start one that reads everything.
LEMMA ServedFollow ==
  ASSUME BusyInv, ListsInv, CallServed, ~drift'
  PROVE  /\ ~drift
         /\ \/ Answering(Operations)'
            \/ /\ UNCHANGED <<server, loads, searches, shown, depth, rows>>
               /\ \A ops : Answering(ops) => Answering(ops)'
<1>1. PICK c, k :
           /\ c \in calls
           /\ c.pc = "asked" /\ calls' = (calls \ {c}) \cup {k} /\ AskShape(k) /\ k.op = c.op /\ k.p = c.p
           /\ k.id = IF k.pc = "ok" /\ c.op = "send" THEN issued + 1 ELSE c.id
           /\ \/ k.pc = "ok" /\ Accepted(c.op, c.p, c.id) /\ Straddled /\ UNCHANGED drift
                 /\ late' = (late \/ searches # {})
              \/ k.pc = "failed" /\ Accepted(c.op, c.p, c.id) /\ Straddled /\ drift' = TRUE /\ late' = TRUE
              \/ k.pc = "failed" /\ UNCHANGED <<server, loads, searches, drift, late>>
  BY ServedOutcome
<1>2. ~drift
  BY <1>1
<1>3. CASE k.pc = "ok"
  <2>1. k.op \in Operations
    BY <1>1 DEF ListsInv
  <2> QED
    BY <1>1, <1>2, <1>3, <2>1 DEF Answering
<1>4. CASE k.pc # "ok"
  <2>1. UNCHANGED <<server, loads, searches, shown, depth, rows>>
    BY <1>1, <1>4 DEF CallServed
  <2>2. \A ops : Answering(ops) => Answering(ops)'
    BY <1>1 DEF Answering
  <2> QED
    BY <1>2, <2>1, <2>2
<1> QED
  BY <1>3, <1>4

LEMMA LoadRead ==
  ASSUME NEW l, FlightShape(l), NEW got, NEW step
  PROVE  /\ [l EXCEPT !.got = got, !.step = step] =
              [for |-> l.for, parts |-> l.parts, got |-> got, local |-> l.local, step |-> step]
         /\ [l EXCEPT !.step = step] =
              [for |-> l.for, parts |-> l.parts, got |-> l.got, local |-> l.local, step |-> step]
<1>1. l = [f \in {"for", "parts", "got", "local", "step"} |-> l[f]]
  BY DEF FlightShape
<1>2. [l EXCEPT !.got = got, !.step = step] =
        [f \in {"for", "parts", "got", "local", "step"} |-> IF f = "step" THEN step ELSE IF f = "got" THEN got ELSE l[f]]
  BY <1>1
<1>3. [l EXCEPT !.got = got, !.step = step] =
        [for |-> l.for, parts |-> l.parts, got |-> got, local |-> l.local, step |-> step]
  BY <1>2
<1>4. [l EXCEPT !.step = step] = [for |-> l.for, parts |-> l.parts, got |-> l.got, local |-> l.local, step |-> step]
  BY DEF FlightShape
<1> QED
  BY <1>3, <1>4

\* A step that leaves the server, the lists and the calls alone.
LEMMA ListsKept ==
  ASSUME ListsInv, UNCHANGED <<server, shown, depth, loads, calls, page, drift>>,
         page = "home" /\ ~drift => OwnRequestsKnown'
  PROVE  ListsInv'
<1>1. /\ ServerInv' /\ (shown = [part \in AllParts |-> shown[part]])'
      /\ (\A c \in calls : c.op \in Operations)'
  BY StandsStill DEF ListsInv
<1>2. \A ops : Answering(ops)' <=> Answering(ops)
  BY DEF Answering
<1>3. /\ \A l : Fresh(l)' <=> Fresh(l)
      /\ \A parts : Shows(parts)' <=> Shows(parts)
      /\ ShowsGraph' <=> ShowsGraph
  BY StandsStill
<1>4. CASE page = "requests"
  <2>1. RequestsFollow => RequestsFollow'
    BY <1>2, <1>3 DEF RequestsFollow
  <2> QED
    BY <1>1, <1>4, <2>1 DEF ListsInv
<1>5. CASE page = "network"
  <2>1. NetworkFollows => NetworkFollows'
    BY <1>2, <1>3 DEF NetworkFollows
  <2> QED
    BY <1>1, <1>5, <2>1 DEF ListsInv
<1>6. CASE page = "home"
  <2>3. Replied' = Replied
    BY DEF Replied
  <2>4. \A r : Unanswered(r)' = Unanswered(r)
    BY <2>3 DEF Unanswered, Without
  <2>5. RequestsNow' = RequestsNow
    BY ReadsSame
  <2>6. \A part : Reading(part)' = Reading(part)
    BY DEF Reading
  <2>7. ~drift => (HomeFollows => HomeFollows')
    BY <1>2, <1>3, <1>6, <2>4, <2>5, <2>6 DEF HomeFollows, Preview
  <2> QED
    BY <1>1, <1>6, <2>7 DEF ListsInv
<1>7. CASE page \notin PeoplePages
  BY <1>1, <1>7 DEF ListsInv, PeoplePages
<1> QED
  BY <1>4, <1>5, <1>6, <1>7 DEF PeoplePages

LEMMA RequestsRead ==
  ASSUME BusyInv, ListsInv, LoadAnswers, page = "requests", UNCHANGED page
  PROVE  ListsInv'
<1>1. PICK l \in loads, lost \in AtMostOne(LoadParts) :
        /\ l.step = 0
        /\ loads' = (loads \ {l}) \cup {[l EXCEPT !.got = Answer(l, lost), !.step = 1]}
        /\ shown' = [shown EXCEPT !.stats = Answer(l, lost).stats]
        /\ Lose(lost, drift)
        /\ UNCHANGED <<server, depth, calls, busy, loading, search, late>>
  BY DEF LoadAnswers
<1>2. PICK got : got = Answer(l, lost)
  OBVIOUS
<1>3. PICK k : k = [for |-> l.for, parts |-> l.parts, got |-> got, local |-> l.local, step |-> 1]
  OBVIOUS
<1>4. loads' = (loads \ {l}) \cup {k}
  <2>1. FlightShape(l)
    BY DEF BusyInv
  <2>2. [l EXCEPT !.got = got, !.step = 1] = k
    BY <2>1, <1>3, LoadRead
  <2> QED
    BY <1>1, <1>2, <2>2
<1>5. /\ ServerInv' /\ (shown = [part \in AllParts |-> shown[part]])'
      /\ (\A c \in calls : c.op \in Operations)'
  <2>1. shown = [part \in AllParts |-> shown[part]] /\ \A c \in calls : c.op \in Operations
    BY DEF ListsInv
  <2>2. shown' = [part \in AllParts |-> IF part = "stats" THEN got.stats ELSE shown[part]]
    BY <1>1, <1>2, <2>1
  <2>3. (shown = [part \in AllParts |-> shown[part]])'
    BY <2>2
  <2>4. ServerInv'
    BY <1>1, StandsStill DEF ListsInv
  <2> QED
    BY <1>1, <2>1, <2>3, <2>4
<1>6. ASSUME ~drift'
      PROVE  RequestsFollow'
  <2>1. lost = {} /\ ~drift
    BY <1>1, <1>6 DEF Lose
  <2>2. RequestsFollow
    BY <2>1 DEF ListsInv
  <2>3. CASE Answering(Operations)
    BY <2>3, <1>1 DEF RequestsFollow, Answering
  <2>4. CASE ~Answering(Operations)
    <3>1. loads = {l} /\ l.parts = LoadParts /\ Fresh(l)
      BY <2>2, <2>4, <1>1 DEF RequestsFollow
    <3>2. got = [part \in LoadParts |-> ReadNow(part)]
      <4>1. got = [part \in l.parts |-> IF part \in DOMAIN l.got THEN l.got[part] ELSE ReadNow(part)]
        BY <1>2, <2>1 DEF Answer
      <4> QED
        BY <4>1, <3>1 DEF Fresh
    <3>3. \A part : ReadNow(part)' = ReadNow(part)
      BY <1>1, ReadsSame
    <3>4. loads' = {k}
      BY <1>4, <3>1
    <3>5. k.parts = LoadParts /\ k.step = 1 /\ DOMAIN k.got = LoadParts /\ \A part \in LoadParts : k.got[part] = ReadNow(part)
      BY <1>3, <3>1, <3>2
    <3>6. Fresh(k)'
      BY <3>3, <3>5 DEF Fresh
    <3>7. Shows({"stats"})'
      <4>1. "stats" \in AllParts /\ "stats" \in LoadParts
        BY DEF AllParts, LoadParts
      <4>2. shown'["stats"] = got["stats"]
        BY <1>1, <1>2, <4>1 DEF ListsInv
      <4> QED
        BY <4>1, <4>2, <3>2, <3>3 DEF Shows
    <3>8. \A i \in DOMAIN Stages : ~(i < 1)
      BY DEF Stages
    <3> QED
      BY <3>4, <3>5, <3>6, <3>7, <3>8 DEF RequestsFollow
  <2> QED
    BY <2>3, <2>4
<1> QED
  BY <1>5, <1>6 DEF ListsInv

LEMMA RequestsApplied ==
  ASSUME BusyInv, ListsInv, LoadApplies, page = "requests", UNCHANGED page
  PROVE  ListsInv'
<1>1. PICK l \in loads :
        /\ l.step \in DOMAIN Stages
        /\ shown' = [part \in DOMAIN shown |-> IF part \in Stages[l.step] THEN l.got[part] ELSE shown[part]]
        /\ loads' = (loads \ {l}) \cup {[l EXCEPT !.step = @ + 1]}
        /\ UNCHANGED <<server, depth, calls, busy, loading, search, drift, late, spent>>
  BY DEF LoadApplies
<1>2. PICK step : step = l.step + 1
  OBVIOUS
<1>3. PICK k : k = [for |-> l.for, parts |-> l.parts, got |-> l.got, local |-> l.local, step |-> step]
  OBVIOUS
<1>4. loads' = (loads \ {l}) \cup {k}
  <2>1. FlightShape(l)
    BY DEF BusyInv
  <2>2. [l EXCEPT !.step = step] = k
    BY <2>1, <1>3, LoadRead
  <2> QED
    BY <1>1, <1>2, <2>2
<1>5. DOMAIN shown = AllParts /\ (shown = [part \in AllParts |-> shown[part]])'
  BY <1>1 DEF ListsInv
<1>6. ServerInv' /\ (\A c \in calls : c.op \in Operations)'
  BY <1>1, StandsStill DEF ListsInv
<1>7. ASSUME ~drift'
      PROVE  RequestsFollow'
  <2>1. RequestsFollow
    BY <1>1, <1>7 DEF ListsInv
  <2>2. CASE Answering(Operations)
    BY <2>2, <1>1 DEF RequestsFollow, Answering
  <2>3. CASE ~Answering(Operations)
    <3>1. /\ loads = {l} /\ l.parts = LoadParts /\ Fresh(l) /\ l.step \in 0..4
          /\ l.step > 0 => LoadParts \subseteq DOMAIN l.got /\ Shows({"stats"})
          /\ \A i \in DOMAIN Stages : i < l.step => Shows(Stages[i])
      BY <2>1, <2>3, <1>1 DEF RequestsFollow
    <3>2. \A part : ReadNow(part)' = ReadNow(part)
      BY <1>1, ReadsSame
    <3>3. loads' = {k} /\ k.parts = LoadParts /\ k.step = step /\ k.got = l.got
      BY <1>3, <1>4, <3>1
    <3>4. l.step \in 1..3 /\ step \in 2..4
      BY <1>1, <1>2 DEF Stages
    <3>5. /\ LoadParts \subseteq DOMAIN l.got /\ shown["stats"] = ReadNow("stats")
          /\ \A part \in LoadParts : l.got[part] = ReadNow(part)
      BY <3>1, <3>4 DEF Shows, Fresh
    <3>6. Fresh(k)'
      BY <3>1, <3>2, <3>3 DEF Fresh
    <3>7. Stages[1] = {"requests"} /\ Stages[2] = {"friends", "fof"} /\ Stages[3] = {"blocks"} /\ DOMAIN Stages = 1..3
      BY DEF Stages
    <3>8. \A part \in AllParts : shown'[part] = IF part \in Stages[l.step] THEN l.got[part] ELSE shown[part]
      BY <1>1, <1>5
    <3>9. Shows({"stats"})'
      <4>1. "stats" \notin Stages[l.step] /\ "stats" \in AllParts
        BY <3>4, <3>7 DEF AllParts
      <4> QED
        BY <4>1, <3>2, <3>5, <3>8 DEF Shows
    <3>10. \A i \in DOMAIN Stages : i < step => Shows(Stages[i])'
      <4>1. \A i \in DOMAIN Stages : Stages[i] \subseteq AllParts /\ Stages[i] \subseteq LoadParts
        BY <3>7 DEF AllParts, LoadParts, Parts
      <4>2. SUFFICES ASSUME NEW i \in DOMAIN Stages, i < step, NEW part \in Stages[i]
                     PROVE  shown'[part] = ReadNow(part)
        BY <3>2 DEF Shows
      <4>3. part \in AllParts /\ part \in LoadParts
        BY <4>1, <4>2
      <4>4. CASE part \in Stages[l.step]
        BY <4>3, <4>4, <3>5, <3>8
      <4>5. CASE part \notin Stages[l.step]
        <5>1. i # l.step /\ i \in 1..3
          BY <4>2, <4>5, <3>7
        <5>2. i < l.step
          BY <5>1, <4>2, <1>2, <3>4
        <5>3. shown[part] = ReadNow(part)
          BY <5>2, <4>2, <3>1 DEF Shows
        <5> QED
          BY <5>3, <4>3, <4>5, <3>8
      <4> QED
        BY <4>4, <4>5
    <3> QED
      BY <3>3, <3>4, <3>5, <3>6, <3>9, <3>10 DEF RequestsFollow
  <2> QED
    BY <2>2, <2>3
<1> QED
  BY <1>5, <1>6, <1>7 DEF ListsInv

LEMMA RequestsEnded ==
  ASSUME BusyInv, ListsInv, LoadEnds, page = "requests", UNCHANGED page
  PROVE  ListsInv'
<1>1. PICK l \in loads : l.step = 4 /\ loads' = loads \ {l}
  BY DEF LoadEnds
<1>2. UNCHANGED <<server, shown, depth, calls, drift>>
  BY DEF LoadEnds
<1>3. /\ ServerInv' /\ (shown = [part \in AllParts |-> shown[part]])'
      /\ (\A c \in calls : c.op \in Operations)'
  BY <1>2, StandsStill DEF ListsInv
<1>4. ASSUME ~drift'
      PROVE  RequestsFollow'
  <2>1. RequestsFollow
    BY <1>2, <1>4 DEF ListsInv
  <2>2. CASE Answering(Operations)
    BY <2>2, <1>2 DEF RequestsFollow, Answering
  <2>3. CASE ~Answering(Operations)
    <3>1. /\ loads = {l} /\ Shows({"stats"})
          /\ \A i \in DOMAIN Stages : i < 4 => Shows(Stages[i])
      BY <2>1, <2>3, <1>1 DEF RequestsFollow
    <3>2. Shows(Stages[1]) /\ Shows(Stages[2]) /\ Shows(Stages[3])
      BY <3>1 DEF Stages
    <3>3. Shows({"requests"}) /\ Shows({"friends", "fof"}) /\ Shows({"blocks"})
      BY <3>2 DEF Stages
    <3>4. Shows(LoadParts)
      BY <3>1, <3>3 DEF Shows, LoadParts, Parts
    <3> QED
      BY <3>1, <3>4, <1>1, <1>2, StandsStill DEF RequestsFollow
  <2> QED
    BY <2>2, <2>3
<1> QED
  BY <1>3, <1>4 DEF ListsInv

LEMMA RequestsAnswered ==
  ASSUME BusyInv, ListsInv, CallDone, page = "requests", UNCHANGED page
  PROVE  ListsInv'
<1>1. PICK c \in calls : c.pc = "ok" /\ calls' = calls \ {c} /\ StartLoad("action", LoadParts, depth)
  BY DEF CallDone
<1>2. UNCHANGED <<server, shown>>
  BY DEF CallDone
<1>3. /\ ServerInv' /\ (shown = [part \in AllParts |-> shown[part]])'
      /\ (\A d \in calls : d.op \in Operations)'
  BY <1>1, <1>2, StandsStill DEF ListsInv
<1>4. ASSUME ~drift'
      PROVE  RequestsFollow'
  <2>1. PICK f : f = Flight("action", LoadParts, depth)
    OBVIOUS
  <2>2. loads' = {f}
    BY <1>1, <1>4, <2>1 DEF StartLoad
  <2>3. f.parts = LoadParts /\ f.step = 0 /\ DOMAIN f.got = {}
    BY <2>1, FlightNew
  <2>4. Fresh(f)'
    BY <2>3 DEF Fresh
  <2>5. \A i \in DOMAIN Stages : ~(i < 0)
    BY DEF Stages
  <2> QED
    BY <2>2, <2>3, <2>4, <2>5 DEF RequestsFollow
<1> QED
  BY <1>3, <1>4 DEF ListsInv

\* What is common to the pages: an answer that failed, a click, a search.
LEMMA ListsFailed ==
  ASSUME ListsInv, page \in {"requests", "network"}, UNCHANGED page,
         NEW c \in calls, c.pc # "ok", calls' = calls \ {c},
         UNCHANGED <<server, shown, depth, loads, drift>>
  PROVE  ListsInv'
<1>1. /\ ServerInv' /\ (shown = [part \in AllParts |-> shown[part]])'
      /\ (\A d \in calls : d.op \in Operations)'
  BY StandsStill DEF ListsInv
<1>2. \A ops : Answering(ops) => Answering(ops)'
  BY DEF Answering
<1>3. /\ \A l : Fresh(l)' <=> Fresh(l)
      /\ \A parts : Shows(parts)' <=> Shows(parts)
      /\ ShowsGraph' <=> ShowsGraph
  BY StandsStill
<1>4. CASE page = "requests"
  <2>1. RequestsFollow => RequestsFollow'
    BY <1>2, <1>3 DEF RequestsFollow
  <2> QED
    BY <1>1, <1>4, <2>1 DEF ListsInv
<1>5. CASE page = "network"
  <2>1. NetworkFollows => NetworkFollows'
    BY <1>2, <1>3 DEF NetworkFollows
  <2> QED
    BY <1>1, <1>5, <2>1 DEF ListsInv
<1> QED
  BY <1>4, <1>5

LEMMA ListsClicked ==
  ASSUME ListsInv, page \in {"requests", "network"}, UNCHANGED page,
         NEW c, Click(c), c.op \in Operations,
         UNCHANGED <<server, shown, depth, loads, drift>>
  PROVE  ListsInv'
<1>1. /\ ServerInv' /\ (shown = [part \in AllParts |-> shown[part]])'
      /\ (\A d \in calls : d.op \in Operations)'
      /\ \A ops : Answering(ops) => Answering(ops)'
  BY StandsStill, ClickOps DEF ListsInv
<1>3. /\ \A l : Fresh(l)' <=> Fresh(l)
      /\ \A parts : Shows(parts)' <=> Shows(parts)
      /\ ShowsGraph' <=> ShowsGraph
  BY StandsStill
<1>4. CASE page = "requests"
  <2>1. RequestsFollow => RequestsFollow'
    BY <1>1, <1>3 DEF RequestsFollow
  <2> QED
    BY <1>1, <1>4, <2>1 DEF ListsInv
<1>5. CASE page = "network"
  <2>1. NetworkFollows => NetworkFollows'
    BY <1>1, <1>3 DEF NetworkFollows
  <2> QED
    BY <1>1, <1>5, <2>1 DEF ListsInv
<1> QED
  BY <1>4, <1>5

LEMMA ListsServed ==
  ASSUME BusyInv, ListsInv, page \in {"requests", "network"}, UNCHANGED page, CallServed
  PROVE  ListsInv'
<1>1. /\ \A c \in calls' : c.op \in Operations
      /\ ServerInv' /\ (shown = [part \in AllParts |-> shown[part]])'
  BY OpsServed
<1>2. CASE drift'
  BY <1>1, <1>2 DEF ListsInv
<1>3. CASE ~drift' /\ Answering(Operations)'
  BY <1>1, <1>3 DEF ListsInv, RequestsFollow, NetworkFollows
<1>4. CASE ~drift' /\ ~Answering(Operations)'
  <2>1. ~drift /\ UNCHANGED <<server, loads, searches, shown, depth, rows>> /\ ~Answering(Operations)
    BY <1>4, ServedFollow
  <2>2. /\ \A l : Fresh(l)' <=> Fresh(l)
        /\ \A parts : Shows(parts)' <=> Shows(parts)
        /\ ShowsGraph' <=> ShowsGraph
    BY <2>1, StandsStill
  <2>4. CASE page = "requests"
    <3>1. RequestsFollow => RequestsFollow'
      BY <2>1, <2>2 DEF RequestsFollow
    <3> QED
      BY <1>1, <2>1, <2>4, <3>1 DEF ListsInv
  <2>5. CASE page = "network"
    <3>1. NetworkFollows => NetworkFollows'
      BY <2>1, <2>2 DEF NetworkFollows
    <3> QED
      BY <1>1, <2>1, <2>5, <3>1 DEF ListsInv
  <2> QED
    BY <2>4, <2>5
<1> QED
  BY <1>2, <1>3, <1>4

LEMMA ListsOthers ==
  ASSUME ListsInv, OthersAct
  PROVE  ListsInv'
<1>1. PICK p \in People : OtherActs(p)
  BY DEF OthersAct
<1>2. ServerInv'
  BY <1>1, ServerOthers DEF ListsInv
<1>3. drift' /\ UNCHANGED <<shown, calls>>
  BY DEF OthersAct
<1> QED
  BY <1>2, <1>3 DEF ListsInv

LEMMA ListsRequests ==
  ASSUME BusyInv, ListsInv, RequestsNext, page = "requests", UNCHANGED page
  PROVE  ListsInv'
<1>1. CASE Clicked
  <2>1. PICK c \in Offers : Click(c)
    BY <1>1 DEF Clicked
  <2>2. c.op \in Operations /\ UNCHANGED <<server, shown, depth, loads, drift>>
    BY <1>1, <2>1, RequestsOps DEF Clicked
  <2> QED
    BY <2>1, <2>2, ListsClicked
<1>2. CASE CallFailed
  <2>1. PICK c \in calls : c.pc = "failed" /\ calls' = calls \ {c}
    BY <1>2 DEF CallFailed
  <2>2. UNCHANGED <<server, shown, depth, loads, drift>>
    BY <1>2 DEF CallFailed
  <2> QED
    BY <2>1, <2>2, ListsFailed
<1>3. CASE SearchEffect \/ SearchAsk(0) \/ SearchAnswer \/ SearchFails
  <2>1. UNCHANGED <<server, shown, depth, loads, calls, page, drift>>
    BY <1>3 DEF SearchEffect, SearchAsk, SearchAnswer, SearchFails, Typed, SearchDone
  <2> QED
    BY <2>1, ListsKept
<1> QED
  BY <1>1, <1>2, <1>3, RequestsRead, RequestsApplied, RequestsEnded, RequestsAnswered, ListsServed, ListsOthers
     DEF RequestsNext

-------------------------------------------------------------------------------
(* The network page.                                                       *)

LEMMA NetworkRead ==
  ASSUME BusyInv, ListsInv, NetworkLoaded, page = "network", UNCHANGED page
  PROVE  ListsInv'
<1>1. PICK l \in loads :
        LET got == Answer(l, {})
            rest == loads \ {l}
        IN  /\ l.for # "graph"
            /\ shown' = [part \in DOMAIN shown |->
                           IF part = "graph" THEN AtDepth(got.graph, l.local)
                           ELSE IF part \in NetworkParts THEN got[part] ELSE shown[part]]
            /\ loads' = rest \cup {GraphRead}
            /\ drift' = (drift \/ rest # {})
            /\ UNCHANGED <<server, depth, calls, query, searches, late, spent>>
  BY DEF NetworkLoaded
<1>2. DOMAIN shown = AllParts /\ (shown = [part \in AllParts |-> shown[part]])'
  BY <1>1 DEF ListsInv
<1>3. ServerInv' /\ (\A c \in calls : c.op \in Operations)'
  BY <1>1, StandsStill DEF ListsInv
<1>4. ASSUME ~drift'
      PROVE  NetworkFollows'
  <2>1. NetworkFollows /\ loads = {l}
    BY <1>1, <1>4 DEF ListsInv
  <2>2. CASE Answering(Operations)
    BY <2>2, <1>1 DEF NetworkFollows, Answering
  <2>3. CASE ~Answering(Operations)
    <3>1. l.parts = NetworkParts /\ Fresh(l)
      BY <2>1, <2>3, <1>1 DEF NetworkFollows
    <3>2. PICK got : got = Answer(l, {})
      OBVIOUS
    <3>3. \A part \in NetworkParts : got[part] = ReadNow(part)
      <4>1. got = [part \in l.parts |-> IF part \in DOMAIN l.got THEN l.got[part] ELSE ReadNow(part)]
        BY <3>2 DEF Answer
      <4> QED
        BY <4>1, <3>1 DEF Fresh
    <3>4. \A part : ReadNow(part)' = ReadNow(part)
      BY <1>1, ReadsSame
    <3>5. \A part \in NetworkParts \ {"graph"} : shown'[part] = ReadNow(part)
      <4>1. NetworkParts \subseteq AllParts
        BY DEF NetworkParts, AllParts, Parts
      <4> QED
        BY <4>1, <1>1, <1>2, <3>2, <3>3
    <3>6. Shows(NetworkParts \ {"graph"})'
      BY <3>4, <3>5 DEF Shows, NetworkParts
    <3>7. PICK g : g = GraphRead
      OBVIOUS
    <3>8. g.for = "graph" /\ g.parts = {"graph"} /\ g.local = depth /\ DOMAIN g.got = {}
      BY <3>7, FlightNew DEF GraphRead
    <3>9. loads' = {g} /\ depth' = depth
      BY <1>1, <2>1, <3>7
    <3>10. Fresh(g)'
      BY <3>8 DEF Fresh
    <3> QED
      BY <3>6, <3>8, <3>9, <3>10 DEF NetworkFollows
  <2> QED
    BY <2>2, <2>3
<1> QED
  BY <1>2, <1>3, <1>4 DEF ListsInv

LEMMA NetworkGraph ==
  ASSUME BusyInv, ListsInv, GraphLoaded, page = "network", UNCHANGED page
  PROVE  ListsInv'
<1>1. PICK l \in loads :
        /\ l.for = "graph" /\ loads' = loads \ {l}
        /\ \/ /\ shown' = [shown EXCEPT !.graph = AtDepth(Answer(l, {}).graph, l.local)]
              /\ UNCHANGED <<drift, spent>>
           \/ Spend /\ drift' = TRUE /\ UNCHANGED <<shown, timer, searching, rows>>
        /\ UNCHANGED <<server, depth, calls, busy, loading, query, searches, late>>
  BY DEF GraphLoaded
<1>2. DOMAIN shown = AllParts /\ (shown = [part \in AllParts |-> shown[part]])'
  <2>1. shown = [part \in AllParts |-> shown[part]]
    BY DEF ListsInv
  <2>2. PICK graph : shown' = [shown EXCEPT !.graph = graph] \/ shown' = shown
    BY <1>1
  <2> QED
    BY <2>1, <2>2
<1>3. ServerInv' /\ (\A c \in calls : c.op \in Operations)'
  BY <1>1, StandsStill DEF ListsInv
<1>4. ASSUME ~drift'
      PROVE  NetworkFollows'
  <2>1. ~drift /\ NetworkFollows /\ shown' = [shown EXCEPT !.graph = AtDepth(Answer(l, {}).graph, l.local)]
    BY <1>1, <1>4 DEF ListsInv
  <2>2. \A part : ReadNow(part)' = ReadNow(part)
    BY <1>1, ReadsSame
  <2>3. CASE Answering(Operations)
    BY <2>3, <1>1 DEF NetworkFollows, Answering
  <2>4. ASSUME NEW m \in loads, m.for # "graph", m.parts = NetworkParts, Fresh(m)
        PROVE  NetworkFollows'
    <3>1. m \in loads' /\ Fresh(m)'
      BY <1>1, <2>4, StandsStill
    <3> QED
      BY <3>1, <2>4 DEF NetworkFollows
  <2>5. ASSUME Shows(NetworkParts \ {"graph"}), NEW m \in loads, loads = {m}, m.parts = {"graph"}, m.local = depth, Fresh(m)
        PROVE  NetworkFollows'
    <3>1. m = l /\ loads' = {} /\ depth' = depth
      BY <1>1, <2>5
    <3>2. Answer(l, {}).graph = ReadNow("graph")
      BY <3>1, <2>5 DEF Answer, Fresh
    <3>3. "graph" \in AllParts
      BY DEF AllParts
    <3>4. ShowsGraph'
      BY <2>1, <2>2, <2>5, <3>1, <3>2, <3>3, <1>2 DEF ShowsGraph, AtDepth
    <3>5. \A part \in NetworkParts \ {"graph"} : shown'[part] = shown[part]
      BY <2>1, <1>2 DEF ListsInv, AllParts, NetworkParts, Parts
    <3>6. Shows(NetworkParts \ {"graph"})'
      BY <2>2, <2>5, <3>5 DEF Shows, NetworkParts
    <3> QED
      BY <3>1, <3>4, <3>6 DEF NetworkFollows
  <2>6. loads # {}
    BY <1>1
  <2> QED
    BY <2>1, <2>3, <2>4, <2>5, <2>6 DEF NetworkFollows
<1> QED
  BY <1>2, <1>3, <1>4 DEF ListsInv

LEMMA NetworkDepth ==
  ASSUME BusyInv, ListsInv, DepthChosen, page = "network", UNCHANGED page
  PROVE  ListsInv'
<1>1. /\ loads' = loads \cup {Flight("graph", {"graph"}, depth')}
      /\ drift' = (drift \/ loads # {})
      /\ UNCHANGED <<server, shown, calls, busy, loading, search, late>>
  BY DEF DepthChosen
<1>2. /\ ServerInv' /\ (shown = [part \in AllParts |-> shown[part]])'
      /\ (\A c \in calls : c.op \in Operations)'
  BY <1>1, StandsStill DEF ListsInv
<1>3. ASSUME ~drift'
      PROVE  NetworkFollows'
  <2>1. NetworkFollows /\ loads = {}
    BY <1>1, <1>3 DEF ListsInv
  <2>2. CASE Answering(Operations)
    BY <2>2, <1>1 DEF NetworkFollows, Answering
  <2>3. CASE ~Answering(Operations)
    <3>1. Shows(NetworkParts \ {"graph"})'
      BY <2>1, <2>3, <1>1, StandsStill DEF NetworkFollows
    <3>2. PICK g : g = Flight("graph", {"graph"}, depth')
      OBVIOUS
    <3>3. g.for = "graph" /\ g.parts = {"graph"} /\ g.local = depth' /\ DOMAIN g.got = {}
      BY <3>2, FlightNew
    <3>4. loads' = {g}
      BY <1>1, <2>1, <3>2
    <3>5. Fresh(g)'
      BY <3>3 DEF Fresh
    <3> QED
      BY <3>1, <3>3, <3>4, <3>5 DEF NetworkFollows
  <2> QED
    BY <2>2, <2>3
<1> QED
  BY <1>2, <1>3 DEF ListsInv

LEMMA NetworkAnswered ==
  ASSUME BusyInv, ListsInv, NetworkCallDone, page = "network", UNCHANGED page
  PROVE  ListsInv'
<1>1. PICK c \in calls :
        calls' = calls \ {c} /\ StartLoad(IF c.op = "send" THEN "send" ELSE "action", NetworkParts, c.depth)
  BY DEF NetworkCallDone
<1>2. UNCHANGED <<server, shown, depth>>
  BY DEF NetworkCallDone
<1>3. /\ ServerInv' /\ (shown = [part \in AllParts |-> shown[part]])'
      /\ (\A d \in calls : d.op \in Operations)'
  BY <1>1, <1>2, StandsStill DEF ListsInv
<1>4. ASSUME ~drift'
      PROVE  NetworkFollows'
  <2>1. PICK for : for = IF c.op = "send" THEN "send" ELSE "action"
    OBVIOUS
  <2>2. PICK f : f = Flight(for, NetworkParts, c.depth)
    OBVIOUS
  <2>3. f \in loads'
    BY <1>1, <2>1, <2>2 DEF StartLoad
  <2>4. f.for # "graph" /\ f.parts = NetworkParts /\ DOMAIN f.got = {}
    BY <2>1, <2>2, FlightNew
  <2>5. Fresh(f)'
    BY <2>4 DEF Fresh
  <2> QED
    BY <2>3, <2>4, <2>5 DEF NetworkFollows
<1> QED
  BY <1>3, <1>4 DEF ListsInv

LEMMA ListsNetwork ==
  ASSUME BusyInv, ListsInv, NetworkNext, page = "network", UNCHANGED page
  PROVE  ListsInv'
<1>1. CASE NetworkClicked
  <2>1. PICK c \in NetworkOffers : Click(c)
    BY <1>1 DEF NetworkClicked
  <2>2. c.op \in Operations /\ UNCHANGED <<server, shown, depth, loads, drift>>
    BY <1>1, <2>1, NetworkOps DEF NetworkClicked
  <2> QED
    BY <2>1, <2>2, ListsClicked
<1>2. CASE NetworkCallFailed
  <2>1. PICK c \in calls : c.pc = "failed" /\ calls' = calls \ {c}
    BY <1>2 DEF NetworkCallFailed
  <2>2. UNCHANGED <<server, shown, depth, loads, drift>>
    BY <1>2 DEF NetworkCallFailed
  <2> QED
    BY <2>1, <2>2, ListsFailed
<1>3. CASE NetworkSearchEffect \/ SearchAsk(Local) \/ NetworkSearchAnswer \/ NetworkSearchFails
  <2>1. UNCHANGED <<server, shown, depth, loads, calls, page, drift>>
    BY <1>3 DEF NetworkSearchEffect, SearchAsk, NetworkSearchAnswer, NetworkSearchFails, Typed, SearchDone
  <2> QED
    BY <2>1, ListsKept
<1>4. CASE NetworkLoadFails
  <2>1. drift' /\ UNCHANGED <<server, shown, calls>>
    BY <1>4 DEF NetworkLoadFails
  <2> QED
    BY <2>1, StandsStill DEF ListsInv
<1> QED
  BY <1>1, <1>2, <1>3, <1>4, NetworkRead, NetworkGraph, NetworkDepth, NetworkAnswered, ListsServed, ListsOthers
     DEF NetworkNext

-------------------------------------------------------------------------------
(* The home page.                                                          *)

\* What the calls of the home page change on the server.
LEMMA HomeSent ==
  ASSUME ServerInv, NEW p, Asks(p, "outgoing")
  PROVE  /\ ReadNow("graph")' = ReadNow("graph")
         /\ Preview(RequestsNow)' = Preview(RequestsNow)
<1>1. /\ link' = [link EXCEPT ![p] = "outgoing"] /\ ticket' = [ticket EXCEPT ![p] = issued + 1]
      /\ link[p] = "none" /\ UNCHANGED shut
  BY DEF Asks, To
<1>2. FriendsNow' = FriendsNow
  BY <1>1 DEF FriendsNow, ServerInv
<1>3. FofNow' = FofNow
  BY <1>1, <1>2 DEF FofNow
<1>4. ServerInv'
  BY ServerSent
<1>5. \A q \in People : (link'[q] = "incoming" <=> link[q] = "incoming") /\ (link[q] = "incoming" => ticket'[q] = ticket[q])
  BY <1>1 DEF ServerInv
<1>6. Preview(RequestsNow) = [q \in {r \in People : link[r] = "incoming"} |-> [dir |-> "incoming", id |-> ticket[q]]]
  BY PreviewNow
<1>7. Preview(RequestsNow)' = [q \in {r \in People : link'[r] = "incoming"} |-> [dir |-> "incoming", id |-> ticket'[q]]]
  BY <1>4, PreviewThen
<1>8. {r \in People : link'[r] = "incoming"} = {r \in People : link[r] = "incoming"}
  BY <1>5
<1>9. Preview(RequestsNow)' = Preview(RequestsNow)
  BY <1>5, <1>6, <1>7, <1>8
<1> QED
  BY <1>2, <1>3, <1>9 DEF ReadNow

LEMMA WithoutTwice ==
  ASSUME NEW r, NEW ids, NEW more
  PROVE  Without(Without(r, ids), more) = Without(r, ids \cup more)
<1>1. PICK w : w = Without(r, ids)
  OBVIOUS
<1>2. DOMAIN w = {q \in DOMAIN r : r[q].id \notin ids} /\ \A q \in DOMAIN w : w[q] = r[q]
  BY <1>1 DEF Without
<1>3. {q \in DOMAIN w : w[q].id \notin more} = {q \in DOMAIN r : r[q].id \notin ids \cup more}
  BY <1>2
<1>4. [p \in {q \in DOMAIN w : w[q].id \notin more} |-> w[p]] = [p \in {q \in DOMAIN r : r[q].id \notin ids \cup more} |-> r[p]]
  BY <1>2, <1>3
<1> QED
  BY <1>1, <1>4 DEF Without

LEMMA WithoutNone ==
  ASSUME NEW r, r = [p \in DOMAIN r |-> r[p]], NEW ids, \A p \in DOMAIN r : r[p].id \notin ids
  PROVE  Without(r, ids) = r
<1>1. {q \in DOMAIN r : r[q].id \notin ids} = DOMAIN r
  OBVIOUS
<1> QED
  BY <1>1 DEF Without

LEMMA HomeEnded ==
  ASSUME ServerInv, NEW p \in People, ticket[p] # 0, NEW relation \in {"none", "friend"},
         To(p, relation, 0), UNCHANGED <<shut, issued>>, relation = "none" => link[p] # "friend"
  PROVE  /\ relation = "none" => ReadNow("graph")' = ReadNow("graph")
         /\ Preview(RequestsNow)' = Without(Preview(RequestsNow), {ticket[p]})
<1>1. /\ link' = [link EXCEPT ![p] = relation] /\ ticket' = [ticket EXCEPT ![p] = 0]
  BY DEF To
<1>2. \A q \in People : /\ q # p => link'[q] = link[q] /\ ticket'[q] = ticket[q]
                        /\ q = p => link'[q] = relation /\ ticket'[q] = 0
  BY <1>1 DEF ServerInv
<1>3. relation = "none" => FriendsNow' = FriendsNow
  BY <1>2 DEF FriendsNow
<1>4. relation = "none" => FofNow' = FofNow
  BY <1>3 DEF FofNow
<1>5. ServerInv'
  BY ServerEnded
<1>6. PICK r : r = Preview(RequestsNow)
  OBVIOUS
<1>7. r = [q \in {s \in People : link[s] = "incoming"} |-> [dir |-> "incoming", id |-> ticket[q]]]
  BY <1>6, PreviewNow
<1>8. Preview(RequestsNow)' = [q \in {s \in People : link'[s] = "incoming"} |-> [dir |-> "incoming", id |-> ticket'[q]]]
  BY <1>5, PreviewThen
<1>9. {s \in People : link'[s] = "incoming"} = {s \in DOMAIN r : r[s].id \notin {ticket[p]}}
  BY <1>2, <1>7 DEF ServerInv
<1>10. \A q \in {s \in People : link'[s] = "incoming"} : r[q] = [dir |-> "incoming", id |-> ticket'[q]]
  BY <1>2, <1>7
<1>11. Preview(RequestsNow)' = Without(r, {ticket[p]})
  BY <1>8, <1>9, <1>10 DEF Without
<1> QED
  BY <1>3, <1>4, <1>6, <1>11 DEF ReadNow

LEMMA HomeChanges ==
  ASSUME ServerInv, NEW op \in HomeOps, NEW p, NEW id, Accepted(op, p, id), op = "cancel" => ~Incoming(id)
  PROVE  /\ \A i : Incoming(i)' => Incoming(i)
         /\ op # "send" => ~Incoming(id)'
         /\ op = "send" => \A i : i = issued + 1 => ~Incoming(i)'
         /\ op # "accept" => ReadNow("graph")' = ReadNow("graph")
         /\ op \in {"send", "cancel"} => Preview(RequestsNow)' = Preview(RequestsNow)
         /\ op \in {"accept", "decline"} => Preview(RequestsNow)' = Without(Preview(RequestsNow), {id})
<1>1. CASE op = "send"
  <2>1. Asks(p, "outgoing")
    BY <1>1 DEF Accepted
  <2> QED
    BY <1>1, <2>1, ServerSent, HomeSent
<1>2. CASE op # "send"
  <2>1. PICK q \in People, relation \in {"none", "friend"} :
          /\ ticket[q] = id /\ id # 0 /\ To(q, relation, 0) /\ UNCHANGED <<shut, issued>>
          /\ link[q] \in {"incoming", "outgoing"} /\ (op # "accept" => relation = "none")
    <3>1. CASE op = "accept"
      BY <3>1 DEF Accepted, Answers
    <3>2. CASE op \in {"decline", "cancel"}
      BY <3>2 DEF Accepted, Answers
    <3> QED
      BY <1>2, <3>1, <3>2 DEF HomeOps
  <2>2. (\A i : Incoming(i)' => Incoming(i)) /\ ~Incoming(id)'
    BY <2>1, ServerEnded
  <2>3. /\ relation = "none" => ReadNow("graph")' = ReadNow("graph")
        /\ Preview(RequestsNow)' = Without(Preview(RequestsNow), {id})
    BY <2>1, HomeEnded
  <2>4. ASSUME op = "cancel"
        PROVE  Preview(RequestsNow)' = Preview(RequestsNow)
    <3>1. PICK r : r = Preview(RequestsNow)
      OBVIOUS
    <3>2. r = [s \in {t \in People : link[t] = "incoming"} |-> [dir |-> "incoming", id |-> ticket[s]]]
      BY <3>1, PreviewNow
    <3>3. r = [s \in DOMAIN r |-> r[s]] /\ \A s \in DOMAIN r : r[s].id \notin {id}
      BY <3>2, <2>4 DEF Incoming
    <3> QED
      BY <3>1, <3>3, <2>3, WithoutNone
  <2> QED
    BY <1>2, <2>1, <2>2, <2>3, <2>4
<1> QED
  BY <1>1, <1>2

LEMMA RepliedGone ==
  ASSUME ServerInv, OwnRequestsKnown
  PROVE  Unanswered(Preview(RequestsNow)) = Preview(RequestsNow)
<1>1. PICK r : r = Preview(RequestsNow)
  OBVIOUS
<1>2. r = [s \in {t \in People : link[t] = "incoming"} |-> [dir |-> "incoming", id |-> ticket[s]]]
  BY <1>1, PreviewNow
<1>3. \A id \in Replied : ~Incoming(id)
  BY DEF OwnRequestsKnown, Replied
<1>4. r = [s \in DOMAIN r |-> r[s]] /\ \A s \in DOMAIN r : r[s].id \notin Replied
  BY <1>2, <1>3 DEF Incoming
<1> QED
  BY <1>1, <1>4, WithoutNone DEF Unanswered

LEMMA OwnDistinct ==
  ASSUME ServerInv, NEW p \in DOMAIN RequestsNow, RequestsNow[p].dir # "incoming"
  PROVE  ~Incoming(RequestsNow[p].id)
<1>1. p \in People /\ ticket[p] # 0 /\ RequestsNow[p] = [dir |-> link[p], id |-> ticket[p]]
  BY DEF RequestsNow
<1> QED
  BY <1>1 DEF Incoming, ServerInv

\* A call carried out: what is read before it and what is patched after it agree.
LEMMA HomeOwnServed ==
  ASSUME ServerInv, BusyInv, OwnRequestsKnown, NEW c \in calls, NEW k, c.op \in HomeOps, c.pc = "asked",
         calls' = (calls \ {c}) \cup {k}, k.op = c.op, k.pc = "ok",
         k.id = IF c.op = "send" THEN issued + 1 ELSE c.id,
         Accepted(c.op, c.p, c.id), Straddled, UNCHANGED rows
  PROVE  OwnRequestsKnown'
<1>1. c.op = "cancel" => ~Incoming(c.id)
  BY DEF OwnRequestsKnown
<1>2. /\ \A i : Incoming(i)' => Incoming(i)
      /\ c.op # "send" => ~Incoming(c.id)'
      /\ c.op = "send" => \A i : i = issued + 1 => ~Incoming(i)'
  BY <1>1, HomeChanges
<1>3. \A d \in calls' : d.op = "cancel" \/ d.pc = "ok" => ~Incoming(d.id)'
  <2>1. ~Incoming(k.id)'
    <3>1. CASE c.op = "send"
      <4>1. k.id = issued + 1
        BY <3>1
      <4> QED
        BY <3>1, <4>1, <1>2
    <3>2. CASE c.op # "send"
      <4>1. k.id = c.id
        BY <3>2
      <4> QED
        BY <3>2, <4>1, <1>2
    <3> QED
      BY <3>1, <3>2
  <2> QED
    BY <2>1, <1>2 DEF OwnRequestsKnown
<1>4. \A p \in DOMAIN rows :
        /\ rows[p] = [relation |-> rows[p].relation, id |-> rows[p].id]
        /\ rows[p].relation = "outgoing_request" => ~Incoming(rows[p].id)'
  BY <1>2 DEF OwnRequestsKnown
<1>5. \A s \in searches' :
        /\ FlightShape(s) /\ s.parts = Parts
        /\ "requests" \in DOMAIN s.got =>
             \A p \in DOMAIN s.got.requests : s.got.requests[p].dir # "incoming" => ~Incoming(s.got.requests[p].id)'
  <2>1. PICK early : searches' = {Cut(s, early) : s \in searches}
    BY DEF Straddled
  <2>2. SUFFICES ASSUME NEW s \in searches, NEW t, t = Cut(s, early)
                 PROVE  /\ FlightShape(t) /\ t.parts = Parts
                        /\ "requests" \in DOMAIN t.got =>
                             \A p \in DOMAIN t.got.requests :
                               t.got.requests[p].dir # "incoming" => ~Incoming(t.got.requests[p].id)'
    BY <2>1
  <2>3. FlightShape(s) /\ s.parts = Parts
    BY DEF OwnRequestsKnown
  <2>4. /\ FlightShape(t) /\ t.parts = Parts
        /\ "requests" \in DOMAIN t.got =>
             t.got.requests = IF "requests" \in DOMAIN s.got THEN s.got.requests ELSE RequestsNow
    BY <2>2, <2>3, FlightHolds DEF ReadNow
  <2>5. CASE "requests" \in DOMAIN s.got
    BY <2>4, <2>5, <1>2 DEF OwnRequestsKnown
  <2>6. CASE "requests" \notin DOMAIN s.got
    BY <2>4, <2>6, <1>2, OwnDistinct
  <2> QED
    BY <2>5, <2>6
<1>6. rows' = rows
  OBVIOUS
<1> QED
  BY <1>3, <1>4, <1>5, <1>6 DEF OwnRequestsKnown

LEMMA HomeRequestsServed ==
  ASSUME ServerInv, OwnRequestsKnown, NEW c \in calls, NEW k, c.op \in HomeOps, c.pc = "asked",
         calls' = (calls \ {c}) \cup {k}, k.op = c.op, k.pc = "ok",
         c.op # "send" => k.id = c.id,
         Accepted(c.op, c.p, c.id), NEW requests, Unanswered(requests) = Preview(RequestsNow)
  PROVE  Unanswered(requests)' = Preview(RequestsNow)'
<1>1. c.op = "cancel" => ~Incoming(c.id)
  BY DEF OwnRequestsKnown
<1>2. CASE c.op \in {"send", "cancel"}
  <2>1. Replied' = Replied
    BY <1>2 DEF Replied
  <2>2. Preview(RequestsNow)' = Preview(RequestsNow)
    BY <1>1, <1>2, HomeChanges
  <2> QED
    BY <2>1, <2>2 DEF Unanswered, Without
<1>3. CASE c.op \in {"accept", "decline"}
  <2>1. Replied' = Replied \cup {c.id}
    BY <1>3 DEF Replied
  <2>2. Preview(RequestsNow)' = Without(Preview(RequestsNow), {c.id})
    BY <1>1, <1>3, HomeChanges
  <2>3. Unanswered(requests)' = Without(requests, Replied \cup {c.id})
    BY <2>1 DEF Unanswered, Without
  <2> QED
    BY <2>2, <2>3, WithoutTwice DEF Unanswered
<1> QED
  BY <1>2, <1>3 DEF HomeOps

LEMMA HomeLoadsServed ==
  ASSUME BusyInv, Straddled, UNCHANGED depth
  PROVE  /\ \A k \in loads' : \E l \in loads :
              /\ k.for = l.for /\ k.parts = l.parts /\ k.local = l.local
              /\ \A part \in DOMAIN k.got : k.got[part] = IF part \in DOMAIN l.got THEN l.got[part] ELSE ReadNow(part)
         /\ \A l \in loads : \E k \in loads' : k.parts = l.parts
<1>1. PICK early : loads' = {Cut(l, early) : l \in loads}
  BY DEF Straddled
<1>2. \A l \in loads : FlightShape(l)
  BY DEF BusyInv
<1>3. ASSUME NEW k \in loads'
      PROVE  \E l \in loads :
               /\ k.for = l.for /\ k.parts = l.parts /\ k.local = l.local
               /\ \A part \in DOMAIN k.got : k.got[part] = IF part \in DOMAIN l.got THEN l.got[part] ELSE ReadNow(part)
  <2>1. PICK l \in loads : k = Cut(l, early)
    BY <1>1, <1>3
  <2> QED
    BY <2>1, <1>2, FlightHolds
<1>4. ASSUME NEW l \in loads
      PROVE  \E k \in loads' : k.parts = l.parts
  <2>1. Cut(l, early) \in loads' /\ Cut(l, early).parts = l.parts
    BY <1>1, <1>2, FlightHolds
  <2> QED
    BY <2>1
<1> QED
  BY <1>3, <1>4

LEMMA HomeServed ==
  ASSUME BusyInv, ListsInv, page = "home", UNCHANGED page, CallServed
  PROVE  ListsInv'
<1>1. /\ \A c \in calls' : c.op \in Operations
      /\ ServerInv' /\ (shown = [part \in AllParts |-> shown[part]])'
  BY OpsServed
<1>2. SUFFICES ASSUME ~drift'
               PROVE  HomeFollows'
  BY <1>1 DEF ListsInv
<1>3. PICK c, k :
           /\ c \in calls
           /\ c.pc = "asked" /\ calls' = (calls \ {c}) \cup {k} /\ AskShape(k) /\ k.op = c.op /\ k.p = c.p
           /\ k.id = IF k.pc = "ok" /\ c.op = "send" THEN issued + 1 ELSE c.id
           /\ \/ k.pc = "ok" /\ Accepted(c.op, c.p, c.id) /\ Straddled /\ UNCHANGED drift
                 /\ late' = (late \/ searches # {})
              \/ k.pc = "failed" /\ Accepted(c.op, c.p, c.id) /\ Straddled /\ drift' = TRUE /\ late' = TRUE
              \/ k.pc = "failed" /\ UNCHANGED <<server, loads, searches, drift, late>>
  BY ServedOutcome
<1>4. HomeFollows /\ UNCHANGED <<shown, depth, rows>>
  BY <1>2, <1>3 DEF ListsInv, CallServed
<1>5. c.op \in HomeOps /\ ServerInv /\ OwnRequestsKnown
  BY <1>3, <1>4 DEF HomeFollows, HomeOps, ListsInv
<1>6. \A d \in calls' : d.op \in {"send", "accept", "decline", "cancel"}
  BY <1>3, <1>4 DEF HomeFollows
<1>7. \A ops : Answering(ops) => Answering(ops)'
  BY <1>3 DEF Answering
<1>8. CASE k.pc = "ok" /\ Accepted(c.op, c.p, c.id) /\ Straddled
  <2>1. OwnRequestsKnown'
    BY <1>3, <1>4, <1>5, <1>8, HomeOwnServed
  <2>2. /\ \A m \in loads' : \E l \in loads :
             /\ m.for = l.for /\ m.parts = l.parts /\ m.local = l.local
             /\ \A part \in DOMAIN m.got : m.got[part] = IF part \in DOMAIN l.got THEN l.got[part] ELSE ReadNow(part)
        /\ \A l \in loads : \E m \in loads' : m.parts = l.parts
    BY <1>4, <1>8, HomeLoadsServed
  <2>3. \A m \in loads' : \E part \in HomeParts : m.parts = {part}
    BY <2>2, <1>4 DEF HomeFollows
  <2>4. Answering(Operations)'
    BY <1>3, <1>5, <1>8 DEF Answering, HomeOps, Operations
  <2>5. \A part : Reading(part)' = {} <=> Reading(part) = {}
    BY <2>2 DEF Reading
  <2>6. \/ Answering({"accept"})'
        \/ Reading("graph")' = {} /\ ShowsGraph'
        \/ Reading("graph")' # {} /\ \A l \in Reading("graph")' : Fresh(l)' /\ l.local = depth'
    <3>1. CASE c.op = "accept"
      BY <3>1, <1>3, <1>8 DEF Answering
    <3>2. CASE Answering({"accept"})
      BY <3>2, <1>7
    <3>3. CASE c.op # "accept" /\ ~Answering({"accept"})
      <4>1. ReadNow("graph")' = ReadNow("graph")
        BY <3>3, <1>3, <1>5, <1>8, HomeChanges DEF OwnRequestsKnown
      <4>2. CASE Reading("graph") = {}
        <5>1. ShowsGraph
          BY <3>3, <4>2, <1>4 DEF HomeFollows
        <5>2. ShowsGraph'
          BY <5>1, <4>1, <1>4 DEF ShowsGraph, AtDepth
        <5> QED
          BY <5>2, <4>2, <2>5
      <4>3. CASE Reading("graph") # {}
        <5>1. \A l \in Reading("graph") : Fresh(l) /\ l.local = depth
          BY <3>3, <4>3, <1>4 DEF HomeFollows
        <5>2. ASSUME NEW m \in Reading("graph")'
              PROVE  Fresh(m)' /\ m.local = depth'
          <6>1. m \in loads' /\ m.parts = {"graph"}
            BY <5>2 DEF Reading
          <6>2. PICK l \in loads :
                  /\ m.parts = l.parts /\ m.local = l.local
                  /\ \A part \in DOMAIN m.got :
                       m.got[part] = IF part \in DOMAIN l.got THEN l.got[part] ELSE ReadNow(part)
            BY <6>1, <2>2
          <6>3. Fresh(l) /\ l.local = depth
            BY <6>1, <6>2, <5>1 DEF Reading
          <6>4. "graph" \in DOMAIN m.got => m.got["graph"] = ReadNow("graph")
            BY <6>1, <6>2, <6>3 DEF Fresh
          <6>5. Fresh(m)'
            BY <6>1, <6>4, <4>1 DEF Fresh
          <6> QED
            BY <6>2, <6>3, <6>5, <1>4
        <5> QED
          BY <5>2, <4>3, <2>5
      <4> QED
        BY <4>2, <4>3
    <3> QED
      BY <3>1, <3>2, <3>3
  <2>7. ASSUME NEW requests, Unanswered(requests) = Preview(RequestsNow)
        PROVE  Unanswered(requests)' = Preview(RequestsNow)'
    BY <2>7, <1>3, <1>5, <1>8, HomeRequestsServed
  <2>8. ASSUME NEW m \in Reading("requests")', "requests" \in DOMAIN m.got
        PROVE  Unanswered(Preview(m.got.requests))' = Preview(RequestsNow)'
    <3>1. m \in loads' /\ m.parts = {"requests"}
      BY <2>8 DEF Reading
    <3>2. PICK l \in loads :
            /\ m.parts = l.parts
            /\ \A part \in DOMAIN m.got :
                 m.got[part] = IF part \in DOMAIN l.got THEN l.got[part] ELSE ReadNow(part)
      BY <3>1, <2>2
    <3>3. m.got.requests = IF "requests" \in DOMAIN l.got THEN l.got.requests ELSE RequestsNow
      BY <3>2, <2>8 DEF ReadNow
    <3>4. Unanswered(Preview(m.got.requests)) = Preview(RequestsNow)
      <4>1. CASE "requests" \in DOMAIN l.got
        BY <4>1, <3>1, <3>2, <3>3, <1>4 DEF HomeFollows, Reading
      <4>2. CASE "requests" \notin DOMAIN l.got
        BY <4>2, <3>3, <1>5, RepliedGone
      <4> QED
        BY <4>1, <4>2
    <3>5. PICK r : r = Preview(m.got.requests)
      OBVIOUS
    <3>6. Preview(m.got.requests)' = r
      BY <3>5 DEF Preview
    <3>7. Unanswered(r)' = Preview(RequestsNow)'
      BY <3>4, <3>5, <2>7
    <3> QED
      BY <3>6, <3>7 DEF Unanswered
  <2>9. Reading("requests")' = {} =>
          /\ shown'.requests = [p \in DOMAIN shown'.requests |-> shown'.requests[p]]
          /\ Unanswered(shown.requests)' = Preview(RequestsNow)'
    <3>1. SUFFICES ASSUME Reading("requests") = {}
                   PROVE  /\ shown.requests = [p \in DOMAIN shown.requests |-> shown.requests[p]]
                          /\ Unanswered(shown.requests)' = Preview(RequestsNow)'
      BY <2>5, <1>4
    <3>2. PICK r : r = shown.requests
      OBVIOUS
    <3>3. /\ shown.requests = [p \in DOMAIN shown.requests |-> shown.requests[p]]
          /\ Unanswered(r) = Preview(RequestsNow)
      BY <3>1, <3>2, <1>4 DEF HomeFollows
    <3>4. Unanswered(r)' = Preview(RequestsNow)'
      BY <3>3, <2>7
    <3> QED
      BY <3>2, <3>3, <3>4, <1>4 DEF Unanswered
  <2> QED
    BY <1>6, <2>1, <2>3, <2>4, <2>6, <2>8, <2>9 DEF HomeFollows
<1>9. CASE k.pc = "failed" /\ UNCHANGED <<server, loads, searches>>
  <2>1. /\ \A l : Fresh(l)' <=> Fresh(l)
        /\ \A parts : Shows(parts)' <=> Shows(parts)
        /\ ShowsGraph' <=> ShowsGraph
    BY <1>4, <1>9, StandsStill
  <2>2. RequestsNow' = RequestsNow /\ \A id : Incoming(id)' <=> Incoming(id)
    BY <1>9, ReadsSame
  <2>3. OwnRequestsKnown'
    BY <1>3, <1>4, <1>5, <1>9, <2>2 DEF OwnRequestsKnown
  <2>4. Replied' = Replied
    BY <1>3, <1>9 DEF Replied
  <2>5. \A r : Unanswered(r)' = Unanswered(r)
    BY <2>4 DEF Unanswered, Without
  <2>6. \A part : Reading(part)' = Reading(part)
    BY <1>9 DEF Reading
  <2> QED
    BY <1>4, <1>6, <1>7, <1>9, <2>1, <2>2, <2>3, <2>5, <2>6 DEF HomeFollows, Preview
<1> QED
  BY <1>2, <1>3, <1>8, <1>9

LEMMA HomePartShown ==
  ASSUME BusyInv, ListsInv, PartArrives, page = "home", UNCHANGED page
  PROVE  ListsInv'
<1>1. PICK l \in loads : \E part \in l.parts :
        LET value == Answer(l, {})[part]
        IN  /\ shown' = [shown EXCEPT ![part] = IF part = "requests" THEN Preview(value)
                                                ELSE IF part = "graph" THEN AtDepth(value, l.local) ELSE value]
            /\ loads' = loads \ {l}
            /\ UNCHANGED <<server, depth, calls, busy, loading, search, drift, late, spent>>
  BY DEF PartArrives
<1>2. PICK part \in l.parts :
        LET value == Answer(l, {})[part]
        IN  /\ shown' = [shown EXCEPT ![part] = IF part = "requests" THEN Preview(value)
                                                ELSE IF part = "graph" THEN AtDepth(value, l.local) ELSE value]
            /\ loads' = loads \ {l}
            /\ UNCHANGED <<server, depth, calls, busy, loading, search, drift, late, spent>>
  BY <1>1
<1>3. PICK value : value = Answer(l, {})[part]
  OBVIOUS
<1>4. value = IF part \in DOMAIN l.got THEN l.got[part] ELSE ReadNow(part)
  BY <1>3 DEF Answer
<1>5. PICK new : new = IF part = "requests" THEN Preview(value)
                       ELSE IF part = "graph" THEN AtDepth(value, l.local) ELSE value
  OBVIOUS
<1>6. shown' = [shown EXCEPT ![part] = new] /\ shown = [q \in AllParts |-> shown[q]]
  BY <1>2, <1>3, <1>5 DEF ListsInv
<1>7. /\ (shown = [q \in AllParts |-> shown[q]])'
      /\ \A q \in AllParts : shown'[q] = IF q = part THEN new ELSE shown[q]
  BY <1>6
<1>8. ServerInv' /\ (\A c \in calls : c.op \in Operations)' /\ UNCHANGED <<server, depth, calls, drift, rows, searches>>
  BY <1>2, StandsStill DEF ListsInv, search
<1>9. SUFFICES ASSUME ~drift'
               PROVE  HomeFollows'
  BY <1>7, <1>8 DEF ListsInv
<1>10. HomeFollows
  BY <1>8, <1>9 DEF ListsInv
<1>11. \A q : ReadNow(q)' = ReadNow(q)
  BY <1>8, ReadsSame
<1>12. /\ \A k : Fresh(k)' <=> Fresh(k)
       /\ RequestsNow' = RequestsNow /\ \A id : Incoming(id)' <=> Incoming(id)
  BY <1>8, StandsStill, ReadsSame
<1>13. OwnRequestsKnown'
  BY <1>8, <1>10, <1>12 DEF OwnRequestsKnown, HomeFollows
<1>14. l.parts = {part} /\ part \in HomeParts /\ part \in AllParts
  BY <1>10 DEF HomeFollows, HomeParts, AllParts, Parts
<1>15. \A q : q # part => Reading(q)' = Reading(q)
  BY <1>2, <1>14 DEF Reading
<1>16. Reading(part)' \subseteq Reading(part) /\ l \in Reading(part)
  BY <1>2, <1>14 DEF Reading
<1>17. \A ops : Answering(ops)' <=> Answering(ops)
  BY <1>8 DEF Answering
<1>18. \/ Answering(Operations)'
       \/ Reading("stats")' = {} /\ Shows({"stats"})'
       \/ Reading("stats")' # {} /\ \A k \in Reading("stats")' : Fresh(k)'
  <2>1. CASE Answering(Operations)
    BY <2>1, <1>17
  <2>2. CASE ~Answering(Operations) /\ part = "stats"
    <3>1. \A k \in Reading("stats") : Fresh(k)
      BY <1>10, <1>16, <2>2 DEF HomeFollows
    <3>2. value = ReadNow("stats")
      BY <3>1, <1>4, <1>14, <1>16, <2>2 DEF Fresh
    <3>3. shown'["stats"] = ReadNow("stats")
      BY <3>2, <1>5, <1>7, <1>14, <2>2
    <3>4. Shows({"stats"})'
      BY <3>3, <1>11 DEF Shows
    <3> QED
      BY <3>1, <3>4, <1>12, <1>16, <2>2
  <2>3. CASE ~Answering(Operations) /\ part # "stats"
    <3>1. "stats" \in AllParts
      BY DEF AllParts
    <3>2. Shows({"stats"}) => Shows({"stats"})'
      BY <3>1, <2>3, <1>7, <1>11 DEF Shows
    <3>3. \/ Reading("stats") = {} /\ Shows({"stats"})
          \/ Reading("stats") # {} /\ \A k \in Reading("stats") : Fresh(k)
      BY <1>10, <2>3 DEF HomeFollows
    <3> QED
      BY <3>2, <3>3, <1>12, <1>15, <2>3
  <2> QED
    BY <2>1, <2>2, <2>3
<1>19. \/ Answering({"accept"})'
       \/ Reading("graph")' = {} /\ ShowsGraph'
       \/ Reading("graph")' # {} /\ \A k \in Reading("graph")' : Fresh(k)' /\ k.local = depth'
  <2>1. CASE Answering({"accept"})
    BY <2>1, <1>17
  <2>2. CASE ~Answering({"accept"}) /\ part = "graph"
    <3>1. \A k \in Reading("graph") : Fresh(k) /\ k.local = depth
      BY <1>10, <1>16, <2>2 DEF HomeFollows
    <3>2. value = ReadNow("graph") /\ l.local = depth
      BY <3>1, <1>4, <1>14, <1>16, <2>2 DEF Fresh
    <3>3. shown'["graph"] = AtDepth(ReadNow("graph"), depth)
      BY <3>2, <1>5, <1>7, <1>14, <2>2
    <3>4. ShowsGraph'
      BY <3>3, <1>8, <1>11 DEF ShowsGraph, AtDepth
    <3> QED
      BY <3>1, <3>4, <1>8, <1>12, <1>16, <2>2
  <2>3. CASE ~Answering({"accept"}) /\ part # "graph"
    <3>1. "graph" \in AllParts
      BY DEF AllParts
    <3>2. ShowsGraph => ShowsGraph'
      BY <3>1, <2>3, <1>7, <1>8, <1>11 DEF ShowsGraph, AtDepth
    <3>3. \/ Reading("graph") = {} /\ ShowsGraph
          \/ Reading("graph") # {} /\ \A k \in Reading("graph") : Fresh(k) /\ k.local = depth
      BY <1>10, <2>3 DEF HomeFollows
    <3> QED
      BY <3>2, <3>3, <1>8, <1>12, <1>15, <2>3
  <2> QED
    BY <2>1, <2>2, <2>3
<1>20. \A r : Unanswered(r)' = Unanswered(r)
  BY <1>8 DEF Unanswered, Without, Replied
<1>21. \A k \in Reading("requests")' :
         "requests" \in DOMAIN k.got => Unanswered(Preview(k.got.requests))' = Preview(RequestsNow)'
  <2>1. Reading("requests")' \subseteq Reading("requests")
    BY <1>15, <1>16
  <2> QED
    BY <2>1, <1>10, <1>12, <1>20 DEF HomeFollows, Preview
<1>22. Reading("requests")' = {} =>
         /\ shown'.requests = [p \in DOMAIN shown'.requests |-> shown'.requests[p]]
         /\ Unanswered(shown.requests)' = Preview(RequestsNow)'
  <2>1. SUFFICES ASSUME Reading("requests")' = {}
                 PROVE  /\ shown'.requests = [p \in DOMAIN shown'.requests |-> shown'.requests[p]]
                        /\ Unanswered(shown'.requests) = Preview(RequestsNow)
    BY <1>12, <1>20 DEF Unanswered, Without, Preview
  <2>2. "requests" \in AllParts
    BY DEF AllParts, Parts
  <2>3. CASE part = "requests"
    <3>1. shown'.requests = Preview(value)
      BY <2>2, <2>3, <1>5, <1>7
    <3>2. Unanswered(Preview(value)) = Preview(RequestsNow)
      <4>1. CASE "requests" \in DOMAIN l.got
        BY <4>1, <2>3, <1>4, <1>10, <1>16 DEF HomeFollows
      <4>2. CASE "requests" \notin DOMAIN l.got
        <5>1. value = RequestsNow
          BY <4>2, <2>3, <1>4 DEF ReadNow
        <5> QED
          BY <5>1, <1>10, RepliedGone DEF HomeFollows, ListsInv
      <4> QED
        BY <4>1, <4>2
    <3>3. Preview(value) = [p \in DOMAIN Preview(value) |-> Preview(value)[p]]
      BY DEF Preview
    <3> QED
      BY <3>1, <3>2, <3>3
  <2>4. CASE part # "requests"
    <3>1. shown'.requests = shown.requests /\ Reading("requests") = {}
      BY <2>1, <2>2, <2>4, <1>7, <1>15
    <3> QED
      BY <3>1, <1>10 DEF HomeFollows
  <2> QED
    BY <2>3, <2>4
<1>23. \A k \in loads' : \E q \in HomeParts : k.parts = {q}
  BY <1>2, <1>10 DEF HomeFollows
<1>24. \A c \in calls' : c.op \in {"send", "accept", "decline", "cancel"}
  BY <1>8, <1>10 DEF HomeFollows
<1> QED
  BY <1>13, <1>18, <1>19, <1>21, <1>22, <1>23, <1>24 DEF HomeFollows

\* A step that changes calls, loads or rows, but not the server.
LEMMA HomeStill ==
  ASSUME UNCHANGED server
  PROVE  /\ \A k : Fresh(k)' <=> Fresh(k)
         /\ \A part : ReadNow(part)' = ReadNow(part)
         /\ RequestsNow' = RequestsNow /\ Preview(RequestsNow)' = Preview(RequestsNow)
         /\ \A id : Incoming(id)' <=> Incoming(id)
BY StandsStill, ReadsSame DEF Preview

LEMMA HomeDepth ==
  ASSUME BusyInv, ListsInv, HomeDepthChosen, page = "home", UNCHANGED page
  PROVE  ListsInv'
<1>1. /\ loads' = loads \cup {Flight("home", {"graph"}, depth')}
      /\ drift' = (drift \/ \E l \in loads : "graph" \in l.parts)
      /\ UNCHANGED <<server, shown, calls, busy, loading, rows, searches, late>>
  BY DEF HomeDepthChosen, Read, Flight, search
<1>2. /\ ServerInv' /\ (shown = [part \in AllParts |-> shown[part]])'
      /\ (\A c \in calls : c.op \in Operations)'
  BY <1>1, StandsStill DEF ListsInv
<1>3. SUFFICES ASSUME ~drift'
               PROVE  HomeFollows'
  BY <1>2 DEF ListsInv
<1>4. HomeFollows /\ \A l \in loads : "graph" \notin l.parts
  BY <1>1, <1>3 DEF ListsInv
<1>5. PICK g : g = Flight("home", {"graph"}, depth')
  OBVIOUS
<1>6. g.parts = {"graph"} /\ g.local = depth' /\ DOMAIN g.got = {}
  BY <1>5, FlightNew
<1>7. loads' = loads \cup {g}
  BY <1>1, <1>5
<1>8. /\ \A k : Fresh(k)' <=> Fresh(k)
      /\ \A part : ReadNow(part)' = ReadNow(part)
      /\ Preview(RequestsNow)' = Preview(RequestsNow)
      /\ \A id : Incoming(id)' <=> Incoming(id)
  BY <1>1, HomeStill
<1>9. OwnRequestsKnown'
  BY <1>1, <1>4, <1>8 DEF OwnRequestsKnown, HomeFollows
<1>10. \A ops : Answering(ops)' <=> Answering(ops)
  BY <1>1 DEF Answering
<1>11. \A part : part # "graph" => Reading(part)' = Reading(part)
  BY <1>6, <1>7 DEF Reading
<1>12. Reading("graph")' = {g}
  BY <1>4, <1>6, <1>7 DEF Reading
<1>13. Fresh(g)'
  BY <1>6 DEF Fresh
<1>14. \A r : Unanswered(r)' = Unanswered(r)
  BY <1>1 DEF Unanswered, Without, Replied
<1>15. \A k \in loads' : \E q \in HomeParts : k.parts = {q}
  BY <1>4, <1>6, <1>7 DEF HomeFollows, HomeParts
<1>16. Shows({"stats"})' <=> Shows({"stats"})
  BY <1>1, <1>8 DEF Shows
<1>17. /\ \A l \in Reading("requests")' :
            "requests" \in DOMAIN l.got => Unanswered(Preview(l.got.requests))' = Preview(RequestsNow)'
       /\ Reading("requests")' = {} =>
            /\ shown'.requests = [p \in DOMAIN shown'.requests |-> shown'.requests[p]]
            /\ Unanswered(shown.requests)' = Preview(RequestsNow)'
  <2>1. \A l \in Reading("requests") :
          "requests" \in DOMAIN l.got => Unanswered(Preview(l.got.requests))' = Preview(RequestsNow)'
    BY <1>4, <1>8, <1>14 DEF HomeFollows, Preview
  <2>2. Reading("requests") = {} =>
          /\ shown.requests = [p \in DOMAIN shown.requests |-> shown.requests[p]]
          /\ Unanswered(shown.requests) = Preview(RequestsNow)
    BY <1>4 DEF HomeFollows
  <2>3. shown' = shown
    BY <1>1
  <2>4. Unanswered(shown.requests)' = Unanswered(shown.requests)
    BY <1>1 DEF Unanswered, Without, Replied
  <2>5. Reading("requests")' = Reading("requests")
    BY <1>11
  <2> QED
    BY <1>8, <2>1, <2>2, <2>3, <2>4, <2>5
<1>18. \/ Answering(Operations)'
       \/ Reading("stats")' = {} /\ Shows({"stats"})'
       \/ Reading("stats")' # {} /\ \A k \in Reading("stats")' : Fresh(k)'
  BY <1>4, <1>8, <1>10, <1>11, <1>16 DEF HomeFollows
<1>19. Reading("graph")' # {} /\ \A k \in Reading("graph")' : Fresh(k)' /\ k.local = depth'
  BY <1>6, <1>12, <1>13
<1>20. \A c \in calls' : c.op \in {"send", "accept", "decline", "cancel"}
  BY <1>1, <1>4 DEF HomeFollows
<1> QED
  BY <1>9, <1>15, <1>17, <1>18, <1>19, <1>20 DEF HomeFollows

LEMMA HomeCallsChange ==
  ASSUME ListsInv, page = "home", UNCHANGED page,
         UNCHANGED <<server, shown, depth, loads, rows, searches, drift>>,
         \A c \in calls' : c.op \in HomeOps,
         \A c \in calls' : c.op = "cancel" \/ c.pc = "ok" => c \in calls \/ ~Incoming(c.id),
         {c \in calls' : c.pc = "ok"} = {c \in calls : c.pc = "ok"}
  PROVE  ListsInv'
<1>1. /\ ServerInv' /\ (shown = [part \in AllParts |-> shown[part]])'
      /\ (\A c \in calls : c.op \in Operations)'
  BY StandsStill DEF ListsInv, HomeOps, Operations
<1>2. SUFFICES ASSUME ~drift'
               PROVE  HomeFollows'
  BY <1>1 DEF ListsInv
<1>3. HomeFollows
  BY <1>2 DEF ListsInv
<1>4. /\ \A k : Fresh(k)' <=> Fresh(k)
      /\ \A part : ReadNow(part)' = ReadNow(part)
      /\ Preview(RequestsNow)' = Preview(RequestsNow)
      /\ \A id : Incoming(id)' <=> Incoming(id)
      /\ \A parts : Shows(parts)' <=> Shows(parts)
      /\ ShowsGraph' <=> ShowsGraph
  BY HomeStill, StandsStill
<1>5. \A c \in calls' : c.op = "cancel" \/ c.pc = "ok" => ~Incoming(c.id)'
  BY <1>3, <1>4 DEF HomeFollows, OwnRequestsKnown
<1>6. OwnRequestsKnown'
  BY <1>3, <1>4, <1>5 DEF OwnRequestsKnown, HomeFollows
<1>7. \A ops : Answering(ops)' <=> Answering(ops)
  BY DEF Answering
<1>8. \A part : Reading(part)' = Reading(part)
  BY DEF Reading
<1>9. Replied' = Replied
  BY DEF Replied
<1>10. \A r : Unanswered(r)' = Unanswered(r)
  BY <1>9 DEF Unanswered, Without
<1>11. \A c \in calls' : c.op \in {"send", "accept", "decline", "cancel"}
  BY DEF HomeOps
<1> QED
  BY <1>3, <1>4, <1>6, <1>7, <1>8, <1>10, <1>11 DEF HomeFollows, Preview

LEMMA HomeClick ==
  ASSUME ListsInv, HomeClicked, page = "home", UNCHANGED page
  PROVE  ListsInv'
<1>1. PICK b \in HomeOffers : Click(b)
  BY DEF HomeClicked
<1>2. UNCHANGED <<server, shown, depth, loads, rows, searches, drift>>
  BY DEF HomeClicked, search
<1>3. PICK k : k = [op |-> b.op, p |-> b.p, id |-> b.id, pc |-> "asked", depth |-> depth]
  OBVIOUS
<1>4. calls' = calls \cup {k} /\ k.op = b.op /\ k.id = b.id /\ k.pc # "ok"
  BY <1>1, <1>3 DEF Click
<1>5. /\ b.op \in HomeOps
      /\ b.op = "cancel" => \E p \in DOMAIN rows : rows[p].relation = "outgoing_request" /\ rows[p].id = b.id
  BY <1>1, HomeOfferOps
<1>6. (\A c \in calls' : c.op \in Operations) /\ ServerInv' /\ (shown = [part \in AllParts |-> shown[part]])'
  BY <1>2, <1>4, <1>5, StandsStill DEF ListsInv, HomeOps, Operations
<1>7. CASE drift
  BY <1>2, <1>6, <1>7 DEF ListsInv
<1>8. CASE ~drift
  <2>1. HomeFollows
    BY <1>8 DEF ListsInv
  <2>2. \A c \in calls' : c.op \in HomeOps
    BY <2>1, <1>4, <1>5 DEF HomeFollows, HomeOps
  <2>3. b.op = "cancel" => ~Incoming(b.id)
    BY <2>1, <1>5 DEF HomeFollows, OwnRequestsKnown
  <2>4. \A c \in calls' : c.op = "cancel" \/ c.pc = "ok" => c \in calls \/ ~Incoming(c.id)
    BY <2>3, <1>4
  <2>5. {c \in calls' : c.pc = "ok"} = {c \in calls : c.pc = "ok"}
    BY <1>4
  <2> QED
    BY <1>2, <2>2, <2>4, <2>5, HomeCallsChange
<1> QED
  BY <1>7, <1>8

LEMMA HomeFailed ==
  ASSUME ListsInv, HomeCallFailed, page = "home", UNCHANGED page
  PROVE  ListsInv'
<1>1. PICK c \in calls : c.pc = "failed" /\ calls' = calls \ {c}
  BY DEF HomeCallFailed
<1>2. UNCHANGED <<server, shown, depth, loads, rows, searches, drift>>
  BY DEF HomeCallFailed, search
<1>3. (\A d \in calls' : d.op \in Operations) /\ ServerInv' /\ (shown = [part \in AllParts |-> shown[part]])'
  BY <1>1, <1>2, StandsStill DEF ListsInv
<1>4. CASE drift
  BY <1>2, <1>3, <1>4 DEF ListsInv
<1>5. CASE ~drift
  <2>1. HomeFollows
    BY <1>5 DEF ListsInv
  <2>2. \A d \in calls' : d.op \in HomeOps
    BY <2>1, <1>1 DEF HomeFollows, HomeOps
  <2>3. {d \in calls' : d.pc = "ok"} = {d \in calls : d.pc = "ok"}
    BY <1>1
  <2> QED
    BY <1>1, <1>2, <2>2, <2>3, HomeCallsChange
<1> QED
  BY <1>4, <1>5

LEMMA RowsPatched ==
  ASSUME OwnRequestsKnown, NEW c, c.op \in HomeOps, ~Incoming(c.id), rows' = RowPatch(c), UNCHANGED server
  PROVE  (\A p \in DOMAIN rows :
           /\ rows[p] = [relation |-> rows[p].relation, id |-> rows[p].id]
           /\ rows[p].relation = "outgoing_request" => ~Incoming(rows[p].id))'
<1>1. /\ DOMAIN rows' = DOMAIN rows
      /\ \A p \in DOMAIN rows :
           rows'[p] = IF c.op = "send" /\ p = c.p THEN [relation |-> "outgoing_request", id |-> c.id]
                      ELSE IF c.op = "send" \/ rows[p].id # c.id THEN rows[p]
                      ELSE IF c.op = "accept" THEN [rows[p] EXCEPT !.relation = "direct_friend"]
                      ELSE [relation |-> "none", id |-> 0]
  BY DEF RowPatch
<1>2. \A id : Incoming(id)' <=> Incoming(id)
  BY ReadsSame
<1>3. SUFFICES ASSUME NEW p \in DOMAIN rows
               PROVE  /\ rows'[p] = [relation |-> rows'[p].relation, id |-> rows'[p].id]
                      /\ rows'[p].relation = "outgoing_request" => ~Incoming(rows'[p].id)
  <2>1. \A p \in DOMAIN rows' :
          /\ rows'[p] = [relation |-> rows'[p].relation, id |-> rows'[p].id]
          /\ rows'[p].relation = "outgoing_request" => ~Incoming(rows'[p].id)
    BY <1>1, <1>3
  <2> QED
    BY <2>1 DEF Incoming, server
<1>4. PICK r : r = rows[p]
  OBVIOUS
<1>5. r = [relation |-> r.relation, id |-> r.id] /\ (r.relation = "outgoing_request" => ~Incoming(r.id))
  BY <1>3, <1>4 DEF OwnRequestsKnown
<1>6. [r EXCEPT !.relation = "direct_friend"] = [relation |-> "direct_friend", id |-> r.id]
  BY <1>5
<1> QED
  BY <1>1, <1>3, <1>4, <1>5, <1>6

LEMMA HomeAnswered ==
  ASSUME BusyInv, ListsInv, HomeCallDone, page = "home", UNCHANGED page
  PROVE  ListsInv'
<1>1. PICK c \in calls :
        /\ c.pc = "ok" /\ calls' = calls \ {c} /\ busy' = Nobody
        /\ rows' = RowPatch(c)
        /\ shown' = [shown EXCEPT !.requests = PreviewPatch(c), !.fof = IF c.op = "send" THEN @ \ {c.p} ELSE @]
        /\ Refreshed(IF c.op = "accept" THEN {"stats", "graph"} ELSE {"stats"}, {"requests"}, c.depth)
        /\ UNCHANGED <<server, depth, loading, query, timer, searches, searching, spent>>
  BY DEF HomeCallDone
<1>2. PICK parts : parts = IF c.op = "accept" THEN {"stats", "graph"} ELSE {"stats"}
  OBVIOUS
<1>3. PICK F : F = [part \in parts |-> Flight("action", {part}, c.depth)]
  OBVIOUS
<1>4. /\ loads' = loads \cup {F[part] : part \in parts}
      /\ drift' = (drift \/ ("graph" \in parts /\ c.depth # depth)
                    \/ \E l \in loads : l.parts \cap (parts \cup {"requests"}) # {})
  <2>1. \A part \in parts : F[part] = Flight("action", {part}, c.depth)
    BY <1>3
  <2>2. /\ loads' = loads \cup {Flight("action", {part}, c.depth) : part \in parts}
        /\ drift' = (drift \/ ("graph" \in parts /\ c.depth # depth)
                    \/ \E l \in loads : l.parts \cap (parts \cup {"requests"}) # {})
    BY <1>1, <1>2 DEF Refreshed
  <2>3. {Flight("action", {part}, c.depth) : part \in parts} = {F[part] : part \in parts}
    BY <2>1
  <2>4. loads' = loads \cup {F[part] : part \in parts}
    BY <2>2, <2>3
  <2> QED
    BY <2>2, <2>4
<1>5. \A part \in parts : F[part].parts = {part} /\ F[part].local = c.depth /\ DOMAIN F[part].got = {}
  <2>1. SUFFICES ASSUME NEW part \in parts, NEW f, f = F[part]
                 PROVE  f.parts = {part} /\ f.local = c.depth /\ DOMAIN f.got = {}
    OBVIOUS
  <2>2. f = Flight("action", {part}, c.depth)
    BY <1>3, <2>1
  <2> QED
    BY <2>2, FlightNew
<1>6. PICK patch, fof : patch = PreviewPatch(c) /\ fof = IF c.op = "send" THEN shown.fof \ {c.p} ELSE shown.fof
  OBVIOUS
<1>7. shown' = [q \in AllParts |-> IF q = "requests" THEN patch ELSE IF q = "fof" THEN fof ELSE shown[q]]
  BY <1>1, <1>6 DEF ListsInv, AllParts, Parts
<1>8. /\ ServerInv' /\ (shown = [part \in AllParts |-> shown[part]])'
      /\ (\A d \in calls : d.op \in Operations)'
  BY <1>1, <1>7, StandsStill DEF ListsInv
<1>9. SUFFICES ASSUME ~drift'
               PROVE  HomeFollows'
  BY <1>8 DEF ListsInv
<1>10. HomeFollows /\ ("graph" \in parts => c.depth = depth) /\ \A l \in loads : l.parts \cap (parts \cup {"requests"}) = {}
  BY <1>4, <1>9 DEF ListsInv
<1>11. c.op \in HomeOps /\ OwnRequestsKnown /\ ~Incoming(c.id)
  BY <1>1, <1>10 DEF HomeFollows, HomeOps, OwnRequestsKnown
<1>12. /\ \A k : Fresh(k)' <=> Fresh(k)
       /\ \A part : ReadNow(part)' = ReadNow(part)
       /\ Preview(RequestsNow)' = Preview(RequestsNow)
       /\ \A id : Incoming(id)' <=> Incoming(id)
  BY <1>1, HomeStill
<1>13. OwnRequestsKnown'
  <2>1. (\A p \in DOMAIN rows :
           /\ rows[p] = [relation |-> rows[p].relation, id |-> rows[p].id]
           /\ rows[p].relation = "outgoing_request" => ~Incoming(rows[p].id))'
    BY <1>1, <1>11, RowsPatched
  <2>2. (\A d \in calls : d.op = "cancel" \/ d.pc = "ok" => ~Incoming(d.id))'
    BY <1>1, <1>11, <1>12 DEF OwnRequestsKnown
  <2>3. (\A s \in searches :
           /\ FlightShape(s) /\ s.parts = Parts
           /\ "requests" \in DOMAIN s.got =>
                \A p \in DOMAIN s.got.requests : s.got.requests[p].dir # "incoming" => ~Incoming(s.got.requests[p].id))'
    BY <1>1, <1>11, <1>12 DEF OwnRequestsKnown, FlightShape
  <2> QED
    BY <2>1, <2>2, <2>3 DEF OwnRequestsKnown
<1>14. \A k \in loads' : \E q \in HomeParts : k.parts = {q}
  BY <1>2, <1>4, <1>5, <1>10 DEF HomeFollows, HomeParts
<1>15. \A part \in parts \cup {"requests"} : Reading(part) = {}
  BY <1>10 DEF Reading
<1>16. \A part \in parts : Reading(part)' = {F[part]}
  BY <1>4, <1>5, <1>15 DEF Reading
<1>17. \A part : part \notin parts => Reading(part)' = Reading(part)
  BY <1>4, <1>5 DEF Reading
<1>18. \A part \in parts : Fresh(F[part])'
  BY <1>5 DEF Fresh
<1>19. Reading("stats")' # {} /\ \A k \in Reading("stats")' : Fresh(k)'
  BY <1>2, <1>16, <1>18
<1>20. \/ Answering({"accept"})'
       \/ Reading("graph")' = {} /\ ShowsGraph'
       \/ Reading("graph")' # {} /\ \A k \in Reading("graph")' : Fresh(k)' /\ k.local = depth'
  <2>1. CASE c.op = "accept"
    <3>1. "graph" \in parts
      BY <1>2, <2>1
    <3> QED
      BY <3>1, <1>1, <1>5, <1>10, <1>16, <1>18
  <2>2. CASE c.op # "accept"
    <3>1. Reading("graph")' = Reading("graph")
      BY <1>2, <1>17, <2>2
    <3>2. Answering({"accept"}) => Answering({"accept"})'
      BY <1>1, <2>2 DEF Answering
    <3>3. shown'.graph = shown.graph
      BY <1>7 DEF AllParts
    <3>4. ShowsGraph => ShowsGraph'
      BY <3>3, <1>1, <1>12 DEF ShowsGraph, AtDepth
    <3>5. \/ Answering({"accept"})
          \/ Reading("graph") = {} /\ ShowsGraph
          \/ Reading("graph") # {} /\ \A k \in Reading("graph") : Fresh(k) /\ k.local = depth
      BY <1>10 DEF HomeFollows
    <3> QED
      BY <3>1, <3>2, <3>4, <3>5, <1>1, <1>12
  <2> QED
    BY <2>1, <2>2
<1>21. Reading("requests")' = {}
  BY <1>2, <1>15, <1>17
<1>22. PICK r : r = shown.requests
  OBVIOUS
<1>23. r = [p \in DOMAIN r |-> r[p]] /\ Without(r, Replied) = Preview(RequestsNow)
  BY <1>10, <1>15, <1>22 DEF HomeFollows, Unanswered
<1>24. /\ patch = [p \in DOMAIN patch |-> patch[p]]
       /\ Without(patch, Replied') = Preview(RequestsNow)
  <2>1. CASE c.op \in {"accept", "decline"}
    <3>1. patch = Without(r, {c.id})
      BY <1>6, <1>22, <2>1 DEF PreviewPatch, Without
    <3>2. Replied = {c.id} \cup Replied'
      BY <1>1, <2>1 DEF Replied
    <3>3. Without(patch, Replied') = Without(r, Replied)
      BY <3>1, <3>2, WithoutTwice
    <3>4. patch = [p \in DOMAIN patch |-> patch[p]]
      BY <3>1 DEF Without
    <3> QED
      BY <3>3, <3>4, <1>23
  <2>2. CASE c.op \notin {"accept", "decline"}
    <3>1. patch = r
      <4>1. patch = [p \in {q \in DOMAIN r : TRUE} |-> r[p]]
        BY <1>6, <1>22, <2>2 DEF PreviewPatch
      <4>2. {q \in DOMAIN r : TRUE} = DOMAIN r
        OBVIOUS
      <4> QED
        BY <4>1, <4>2, <1>23
    <3>2. Replied' = Replied
      BY <1>1, <2>2 DEF Replied
    <3> QED
      BY <3>1, <3>2, <1>23
  <2> QED
    BY <2>1, <2>2
<1>25. /\ shown'.requests = [p \in DOMAIN shown'.requests |-> shown'.requests[p]]
       /\ Unanswered(shown.requests)' = Preview(RequestsNow)'
  <2>1. shown'.requests = patch
    BY <1>7 DEF AllParts, Parts
  <2> QED
    BY <2>1, <1>12, <1>24 DEF Unanswered, Without
<1>26. \A d \in calls' : d.op \in {"send", "accept", "decline", "cancel"}
  BY <1>1, <1>10 DEF HomeFollows
<1> QED
  BY <1>13, <1>14, <1>19, <1>20, <1>21, <1>25, <1>26 DEF HomeFollows

\* What a search finds knows one's own requests.
LEMMA FoundKnown ==
  ASSUME ServerInv, OwnRequestsKnown, NEW s \in searches, NEW lost, NEW p \in DOMAIN Found(s, lost)
  PROVE  LET row == Found(s, lost)[p]
         IN  /\ row = [relation |-> row.relation, id |-> row.id]
             /\ row.relation = "outgoing_request" => ~Incoming(row.id)
<1>1. PICK got : got = Answer(s, lost)
  OBVIOUS
<1>2. PICK row : row = SearchRow(got, p)
  OBVIOUS
<1>3. Found(s, lost)[p] = row
  BY <1>1, <1>2 DEF Found
<1>4. got.requests = IF "requests" \in lost THEN NoRequests
                     ELSE IF "requests" \in DOMAIN s.got THEN s.got.requests ELSE RequestsNow
  <2>1. "requests" \in s.parts
    BY DEF OwnRequestsKnown, Parts
  <2> QED
    BY <2>1, <1>1 DEF Answer, EmptyPart, ReadNow
<1>5. /\ row = [relation |-> row.relation, id |-> row.id]
      /\ row.relation = "outgoing_request" =>
           p \in DOMAIN got.requests /\ got.requests[p].dir # "incoming" /\ row.id = got.requests[p].id
  BY <1>2 DEF SearchRow
<1>6. p \in DOMAIN got.requests /\ got.requests[p].dir # "incoming" => ~Incoming(got.requests[p].id)
  <2>1. CASE "requests" \in lost
    BY <2>1, <1>4 DEF NoRequests
  <2>2. CASE "requests" \notin lost /\ "requests" \in DOMAIN s.got
    BY <2>2, <1>4 DEF OwnRequestsKnown
  <2>3. CASE "requests" \notin lost /\ "requests" \notin DOMAIN s.got
    BY <2>3, <1>4, OwnDistinct
  <2> QED
    BY <2>1, <2>2, <2>3
<1> QED
  BY <1>3, <1>5, <1>6

LEMMA HomeSearched ==
  ASSUME ListsInv, page = "home", ~drift, UNCHANGED server, UNCHANGED calls,
         \/ \E q : Typed(q, NoRows)
         \/ SearchAsk(0)
         \/ \E s \in searches : \/ \E lost : SearchDone(s, Found(s, lost))
                                \/ SearchDone(s, rows)
  PROVE  OwnRequestsKnown'
<1>1. OwnRequestsKnown /\ ServerInv
  BY DEF ListsInv, HomeFollows
<1>2. \A id : Incoming(id)' <=> Incoming(id)
  BY ReadsSame
<1>3. (\A c \in calls : c.op = "cancel" \/ c.pc = "ok" => ~Incoming(c.id))'
  BY <1>1, <1>2 DEF OwnRequestsKnown
<1>4. ASSUME UNCHANGED rows
      PROVE  (\A p \in DOMAIN rows :
                /\ rows[p] = [relation |-> rows[p].relation, id |-> rows[p].id]
                /\ rows[p].relation = "outgoing_request" => ~Incoming(rows[p].id))'
  BY <1>1, <1>2, <1>4 DEF OwnRequestsKnown
<1>5. ASSUME searches' \subseteq searches
      PROVE  (\A s \in searches :
                /\ FlightShape(s) /\ s.parts = Parts
                /\ "requests" \in DOMAIN s.got =>
                     \A p \in DOMAIN s.got.requests :
                       s.got.requests[p].dir # "incoming" => ~Incoming(s.got.requests[p].id))'
  BY <1>1, <1>2, <1>5 DEF OwnRequestsKnown, FlightShape
<1>6. CASE \E q : Typed(q, NoRows)
  <2>1. searches' = searches /\ (rows' = rows \/ rows' = NoRows)
    BY <1>6 DEF Typed
  <2>2. CASE rows' = NoRows
    <3>1. DOMAIN rows' = {}
      BY <2>2 DEF NoRows
    <3> QED
      BY <2>1, <3>1, <1>3, <1>5 DEF OwnRequestsKnown
  <2> QED
    BY <2>1, <2>2, <1>3, <1>4, <1>5 DEF OwnRequestsKnown
<1>7. CASE SearchAsk(0)
  <2>1. PICK f : f = Flight(query, Parts, 0)
    OBVIOUS
  <2>2. FlightShape(f) /\ f.parts = Parts /\ DOMAIN f.got = {}
    BY <2>1, FlightNew
  <2>3. searches' = searches \cup {f} /\ rows' = rows
    BY <1>7, <2>1 DEF SearchAsk
  <2>4. (\A s \in searches :
                /\ FlightShape(s) /\ s.parts = Parts
                /\ "requests" \in DOMAIN s.got =>
                     \A p \in DOMAIN s.got.requests :
                       s.got.requests[p].dir # "incoming" => ~Incoming(s.got.requests[p].id))'
    BY <1>1, <1>2, <2>2, <2>3 DEF OwnRequestsKnown, FlightShape
  <2> QED
    BY <2>3, <2>4, <1>3, <1>4 DEF OwnRequestsKnown
<1>8. CASE \E s \in searches : SearchDone(s, rows)
  <2>1. searches' \subseteq searches /\ rows' = rows
    BY <1>8 DEF SearchDone
  <2> QED
    BY <2>1, <1>3, <1>4, <1>5 DEF OwnRequestsKnown
<1>9. CASE \E s \in searches : \E lost : SearchDone(s, Found(s, lost))
  <2>1. PICK s, lost : s \in searches /\ SearchDone(s, Found(s, lost))
    BY <1>9
  <2>2. searches' \subseteq searches /\ rows' = Found(s, lost)
    BY <2>1 DEF SearchDone
  <2>3. \A p \in DOMAIN rows' :
          /\ rows'[p] = [relation |-> rows'[p].relation, id |-> rows'[p].id]
          /\ rows'[p].relation = "outgoing_request" => ~Incoming(rows'[p].id)
    BY <1>1, <2>1, <2>2, FoundKnown
  <2>4. (\A p \in DOMAIN rows :
           /\ rows[p] = [relation |-> rows[p].relation, id |-> rows[p].id]
           /\ rows[p].relation = "outgoing_request" => ~Incoming(rows[p].id))'
    BY <2>3 DEF Incoming, server
  <2> QED
    BY <2>2, <2>4, <1>3, <1>5 DEF OwnRequestsKnown
<1> QED
  BY <1>6, <1>7, <1>8, <1>9

LEMMA ListsHome ==
  ASSUME BusyInv, ListsInv, HomeNext, page = "home", UNCHANGED page
  PROVE  ListsInv'
<1>1. CASE PartFails
  <2>1. drift' /\ UNCHANGED <<server, calls>>
    BY <1>1 DEF PartFails
  <2>2. PICK graph : shown' = shown \/ shown' = [shown EXCEPT !.graph = graph]
    BY <1>1 DEF PartFails
  <2>3. (shown = [part \in AllParts |-> shown[part]])'
    BY <2>2 DEF ListsInv
  <2> QED
    BY <2>1, <2>3, StandsStill DEF ListsInv
<1>2. CASE HomeSearchEffect \/ SearchAsk(0) \/ HomeSearchAnswer \/ HomeSearchFails
  <2>1. UNCHANGED <<server, shown, depth, loads, calls, page, drift>>
    BY <1>2 DEF HomeSearchEffect, SearchAsk, HomeSearchAnswer, HomeSearchFails, Typed, SearchDone
  <2>2. \/ \E q : Typed(q, NoRows)
        \/ SearchAsk(0)
        \/ \E s \in searches : \/ \E lost : SearchDone(s, Found(s, lost))
                               \/ SearchDone(s, rows)
    BY <1>2 DEF HomeSearchEffect, HomeSearchAnswer, HomeSearchFails
  <2>3. ~drift => OwnRequestsKnown'
    BY <2>1, <2>2, HomeSearched
  <2> QED
    BY <2>1, <2>3, ListsKept
<1> QED
  BY <1>1, <1>2, HomePartShown, HomeDepth, HomeClick, HomeServed, HomeAnswered, HomeFailed, ListsOthers DEF HomeNext

-------------------------------------------------------------------------------
LEMMA ListsStart ==
  ASSUME ClientInit
  PROVE  ListsInv
<1>1. calls = {} /\ searches = {} /\ depth = 2 /\ ~drift /\ page \in PeoplePages \cup {"handoffs", "panel", "profile", "cards"}
  BY DEF ClientInit
<1>2. ServerInv
  <2>1. CASE InitServer
    <3>1. issued \in Nat /\ link \in [People -> Relations] /\ ticket \in [People -> 0..issued]
      BY <2>1, CircleAssumption DEF InitServer
    <3>2. ticket \in [People -> Nat] /\ \A p \in People : ticket[p] <= issued
      BY <3>1
    <3> QED
      BY <2>1, <3>1, <3>2 DEF InitServer, ServerInv
  <2>2. CASE ListsClosed
    BY <2>2 DEF ListsClosed, ServerInv, Relations
  <2> QED
    BY <2>1, <2>2 DEF ClientInit, InitLists
<1>3. (shown = [part \in AllParts |-> shown[part]]) /\ \A c \in calls : c.op \in Operations
  BY <1>1 DEF ClientInit, InitLists, ListsClosed, Mounted, NetworkMounted, HomeMounted, Settled, PeoplePages
<1>4. CASE page = "requests"
  <2>1. Mounted \/ (shown = Settled /\ loads = {})
    BY <1>4 DEF ClientInit, InitLists, PeoplePages
  <2>2. CASE Mounted
    <3>1. PICK f : f = Flight("mount", LoadParts, depth)
      OBVIOUS
    <3>2. loads = {f}
      BY <2>2, <3>1 DEF Mounted
    <3>3. f.parts = LoadParts /\ f.step = 0 /\ Fresh(f) /\ \A i \in DOMAIN Stages : ~(i < 0)
      BY <3>1, FlightNew DEF Stages
    <3>4. RequestsFollow
      BY <3>2, <3>3 DEF RequestsFollow
    <3> QED
      BY <1>2, <1>3, <1>4, <3>4 DEF ListsInv
  <2>3. CASE shown = Settled /\ loads = {}
    <3>1. \A part \in LoadParts : shown[part] = ReadNow(part)
      BY <2>3, <1>4 DEF Settled, LoadParts, AllParts
    <3> QED
      BY <1>2, <1>3, <1>4, <2>3, <3>1 DEF ListsInv, RequestsFollow, Shows
  <2> QED
    BY <2>1, <2>2, <2>3
<1>5. CASE page = "network"
  <2>1. NetworkMounted \/ (shown = Settled /\ loads = {})
    BY <1>5 DEF ClientInit, InitLists, PeoplePages
  <2>2. CASE NetworkMounted
    <3>1. PICK f : f = Flight("mount", NetworkParts, depth)
      OBVIOUS
    <3>2. f \in loads
      BY <2>2, <3>1 DEF NetworkMounted
    <3>3. f.parts = NetworkParts /\ f.for # "graph" /\ Fresh(f)
      BY <3>1, FlightNew
    <3>4. NetworkFollows
      BY <3>2, <3>3 DEF NetworkFollows
    <3> QED
      BY <1>2, <1>3, <1>5, <3>4 DEF ListsInv
  <2>3. CASE shown = Settled /\ loads = {}
    <3>1. \A part \in AllParts : shown[part] = ReadNow(part)
      BY <2>3, <1>5 DEF Settled
    <3>2. Shows(NetworkParts \ {"graph"})
      BY <3>1 DEF Shows, NetworkParts, AllParts, Parts
    <3>3. ShowsGraph
      <4>1. shown.graph = [friends |-> FriendsNow, fof |-> FofNow]
        BY <3>1 DEF AllParts, ReadNow
      <4>2. AtDepth([friends |-> FriendsNow, fof |-> FofNow], 2) = [friends |-> FriendsNow, fof |-> FofNow]
        BY DEF AtDepth
      <4> QED
        BY <4>1, <4>2, <1>1 DEF ShowsGraph, ReadNow
    <3> QED
      BY <1>2, <1>3, <1>5, <2>3, <3>2, <3>3 DEF ListsInv, NetworkFollows
  <2> QED
    BY <2>1, <2>2, <2>3
<1>6. CASE page = "home"
  <2>1. HomeMounted \/ (shown = Settled /\ loads = {})
    BY <1>6 DEF ClientInit, InitLists, PeoplePages
  <2>2. rows = NoRows \/ \E q : rows = [p \in Match[q] |-> RowNow(p)]
    BY <1>6 DEF ClientInit, InitLists, PeoplePages, NoSearch, InitSearch
  <2>3. OwnRequestsKnown
    <3>1. \A p : /\ RowNow(p) = [relation |-> RowNow(p).relation, id |-> RowNow(p).id]
                 /\ RowNow(p).relation = "outgoing_request" => ~Incoming(RowNow(p).id)
      <4>1. PICK got : got = [part \in Parts |-> ReadNow(part)]
        OBVIOUS
      <4>2. got.requests = RequestsNow
        BY <4>1 DEF Parts, ReadNow
      <4>3. SUFFICES ASSUME NEW p, NEW row, row = SearchRow(got, p)
                     PROVE  /\ row = [relation |-> row.relation, id |-> row.id]
                            /\ row.relation = "outgoing_request" => ~Incoming(row.id)
        BY <4>1 DEF RowNow
      <4>4. /\ row = [relation |-> row.relation, id |-> row.id]
            /\ row.relation = "outgoing_request" =>
                 p \in DOMAIN got.requests /\ got.requests[p].dir # "incoming" /\ row.id = got.requests[p].id
        BY <4>3 DEF SearchRow
      <4> QED
        BY <4>2, <4>4, <1>2, OwnDistinct
    <3>2. \A p \in DOMAIN rows :
            /\ rows[p] = [relation |-> rows[p].relation, id |-> rows[p].id]
            /\ rows[p].relation = "outgoing_request" => ~Incoming(rows[p].id)
      <4>1. CASE rows = NoRows
        BY <4>1 DEF NoRows
      <4>2. CASE \E q : rows = [p \in Match[q] |-> RowNow(p)]
        BY <4>2, <3>1
      <4> QED
        BY <2>2, <4>1, <4>2
    <3> QED
      BY <3>2, <1>1 DEF OwnRequestsKnown
  <2>4. Replied = {}
    BY <1>1 DEF Replied
  <2>5. CASE HomeMounted
    <3>1. loads = {Read(part) : part \in HomeParts}
      BY <2>5 DEF HomeMounted
    <3>2. PICK F : F = [part \in HomeParts |-> Read(part)]
      OBVIOUS
    <3>3. \A l : l \in loads <=> \E part \in HomeParts : l = F[part]
      BY <3>1, <3>2
    <3>4. \A part \in HomeParts : F[part].parts = {part} /\ F[part].local = depth /\ DOMAIN F[part].got = {} /\ Fresh(F[part])
      <4>1. SUFFICES ASSUME NEW part \in HomeParts, NEW f, f = F[part]
                     PROVE  f.parts = {part} /\ f.local = depth /\ DOMAIN f.got = {} /\ Fresh(f)
        OBVIOUS
      <4>2. f = Flight("home", {part}, depth)
        BY <3>2, <4>1 DEF Read
      <4> QED
        BY <4>2, FlightNew
    <3>5. \A part \in HomeParts : Reading(part) = {F[part]}
      BY <3>3, <3>4 DEF Reading
    <3>6. \A l \in loads : \E part \in HomeParts : l.parts = {part}
      BY <3>3, <3>4
    <3>7. HomeFollows
      BY <1>1, <2>3, <3>4, <3>5, <3>6 DEF HomeFollows, HomeParts
    <3> QED
      BY <1>2, <1>3, <1>6, <3>7 DEF ListsInv
  <2>6. CASE shown = Settled /\ loads = {}
    <3>1. /\ shown.stats = ReadNow("stats") /\ shown.graph = [friends |-> FriendsNow, fof |-> FofNow]
          /\ shown.requests = Preview(RequestsNow)
      BY <2>6, <1>6 DEF Settled, AllParts, Parts, ReadNow
    <3>2. Shows({"stats"})
      BY <3>1 DEF Shows
    <3>3. ShowsGraph
      <4>1. AtDepth([friends |-> FriendsNow, fof |-> FofNow], 2) = [friends |-> FriendsNow, fof |-> FofNow]
        BY DEF AtDepth
      <4> QED
        BY <3>1, <4>1, <1>1 DEF ShowsGraph, ReadNow
    <3>4. Unanswered(shown.requests) = Preview(RequestsNow)
      BY <1>2, <2>3, <3>1, RepliedGone
    <3>5. shown.requests = [p \in DOMAIN shown.requests |-> shown.requests[p]]
      BY <3>1 DEF Preview
    <3>6. \A part : Reading(part) = {}
      BY <2>6 DEF Reading
    <3>7. HomeFollows
      BY <1>1, <2>3, <2>6, <3>2, <3>3, <3>4, <3>5, <3>6 DEF HomeFollows
    <3> QED
      BY <1>2, <1>3, <1>6, <3>7 DEF ListsInv
  <2> QED
    BY <2>1, <2>5, <2>6
<1>7. CASE page \notin PeoplePages
  BY <1>2, <1>3, <1>7 DEF ListsInv, PeoplePages
<1> QED
  BY <1>4, <1>5, <1>6, <1>7 DEF PeoplePages

LEMMA ListsStep ==
  ASSUME BusyInv, ListsInv, [ClientNext]_clientVars
  PROVE  ListsInv'
<1>1. UNCHANGED page
  BY DEF ClientNext, clientVars
<1>2. CASE ListsNext
  BY <1>1, <1>2, ListsRequests, ListsNetwork, ListsHome DEF ListsNext
<1>3. CASE UNCHANGED <<vars, page>>
  <2>1. UNCHANGED <<server, shown, depth, loads, calls, page, drift, rows, searches>>
    BY <1>3 DEF vars, pageVars, search
  <2>2. page = "home" /\ ~drift => OwnRequestsKnown'
    <3>1. SUFFICES ASSUME page = "home", ~drift
                   PROVE  OwnRequestsKnown'
      OBVIOUS
    <3>2. OwnRequestsKnown
      BY <3>1 DEF ListsInv, HomeFollows
    <3>3. \A id : Incoming(id)' <=> Incoming(id)
      BY <2>1, ReadsSame
    <3> QED
      BY <2>1, <3>2, <3>3 DEF OwnRequestsKnown
  <2> QED
    BY <2>1, <2>2, ListsKept
<1> QED
  BY <1>1, <1>2, <1>3 DEF ClientNext, clientVars

LEMMA ListsEnd ==
  ASSUME ListsInv
  PROVE  SettledLists
<1>1. SUFFICES ASSUME page \in PeoplePages, calls = {}, loads = {}, ~drift
               PROVE  /\ page # "home" => \A part \in {"friends", "requests", "blocks"} : shown[part] = ReadNow(part)
                      /\ page = "requests" => shown.fof = FofNow /\ Tiles = Badges
                      /\ page # "requests" => shown.graph = AtDepth(ReadNow("graph"), depth)
                      /\ page = "home" => shown.requests = Preview(RequestsNow) /\ shown.stats = ReadNow("stats")
  BY DEF SettledLists, Quiet
<1>2. \A ops : ~Answering(ops)
  BY <1>1 DEF Answering
<1>3. CASE page = "requests"
  <2>1. Shows(LoadParts)
    BY <1>1, <1>2, <1>3 DEF ListsInv, RequestsFollow
  <2>2. /\ shown.friends = FriendsNow /\ shown.requests = RequestsNow /\ shown.fof = FofNow /\ shown.blocks = ReadNow("blocks")
        /\ shown.stats = StatsOf(RequestsNow, FriendsNow, FofNow)
    BY <2>1 DEF Shows, LoadParts, Parts, ReadNow
  <2>3. Tiles = Badges
    BY <2>2 DEF Tiles, Badges
  <2> QED
    BY <1>3, <2>2, <2>3 DEF ReadNow
<1>4. CASE page = "network"
  <2>1. Shows(NetworkParts \ {"graph"}) /\ ShowsGraph
    BY <1>1, <1>2, <1>4 DEF ListsInv, NetworkFollows
  <2> QED
    BY <1>4, <2>1 DEF Shows, ShowsGraph, NetworkParts
<1>5. CASE page = "home"
  <2>1. HomeFollows
    BY <1>1, <1>5 DEF ListsInv
  <2>2. (\A part : Reading(part) = {}) /\ Replied = {}
    BY <1>1 DEF Reading, Replied
  <2>3. ShowsGraph /\ Shows({"stats"})
    BY <1>2, <2>1, <2>2 DEF HomeFollows
  <2>4. /\ shown.requests = [p \in DOMAIN shown.requests |-> shown.requests[p]]
        /\ Without(shown.requests, {}) = Preview(RequestsNow)
    BY <2>1, <2>2 DEF HomeFollows, Unanswered
  <2>5. shown.requests = Preview(RequestsNow)
    BY <2>4, WithoutNone
  <2> QED
    BY <1>5, <2>3, <2>5 DEF Shows, ShowsGraph
<1> QED
  BY <1>1, <1>3, <1>4, <1>5 DEF PeoplePages

-------------------------------------------------------------------------------
(* The rows of a search follow.                                            *)

\* The row of a person, by the server's tables.
KindNow(p) ==
  IF link[p] = "friend" THEN [relation |-> "direct_friend", id |-> 0]
  ELSE IF ticket[p] # 0 THEN [relation |-> IF link[p] = "incoming" THEN "incoming_request" ELSE "outgoing_request",
                              id |-> ticket[p]]
  ELSE IF p \in shut THEN [relation |-> "blocked", id |-> 0]
  ELSE [relation |-> "none", id |-> 0]

LEMMA RowFound ==
  ASSUME NEW got, NEW p
  PROVE  LET row == SearchRow(got, p)
         IN  /\ RowShape(row)
             /\ \/ row.id = 0
                \/ p \in DOMAIN got.requests /\ row.id = got.requests[p].id
<1>1. PICK row : row = SearchRow(got, p)
  OBVIOUS
<1>2. CASE p \in got.friends
  <2>1. row = [relation |-> "direct_friend", id |-> 0]
    BY <1>1, <1>2 DEF SearchRow
  <2> QED
    BY <1>1, <2>1 DEF RowShape
<1>3. CASE p \notin got.friends /\ p \in DOMAIN got.requests
  <2>1. PICK relation : row = [relation |-> relation, id |-> got.requests[p].id]
    BY <1>1, <1>3 DEF SearchRow
  <2> QED
    BY <1>1, <1>3, <2>1 DEF RowShape
<1>4. CASE p \notin got.friends /\ p \notin DOMAIN got.requests
  <2>1. PICK relation : row = [relation |-> relation, id |-> 0]
    BY <1>1, <1>4 DEF SearchRow
  <2> QED
    BY <1>1, <2>1 DEF RowShape
<1> QED
  BY <1>2, <1>3, <1>4

LEMMA RowOfNow ==
  ASSUME ServerInv, NEW p \in People
  PROVE  /\ RowShape(RowNow(p)) /\ RowNow(p).id \in {0, ticket[p]}
         /\ Kind(RowNow(p)) = KindNow(p)
<1>1. PICK got : got = [part \in Parts |-> ReadNow(part)]
  OBVIOUS
<1>2. got.friends = FriendsNow /\ got.requests = RequestsNow /\ got.blocks = shut
  BY <1>1 DEF Parts, ReadNow, BlocksNow
<1>3. PICK row : row = RowNow(p)
  OBVIOUS
<1>4. row = SearchRow(got, p)
  BY <1>1, <1>3 DEF RowNow
<1>5. (p \in got.friends <=> link[p] = "friend") /\ (p \in DOMAIN got.requests <=> ticket[p] # 0)
  BY <1>2 DEF FriendsNow, RequestsNow
<1>6. CASE link[p] = "friend"
  <2>1. row = [relation |-> "direct_friend", id |-> 0]
    BY <1>4, <1>5, <1>6 DEF SearchRow
  <2> QED
    BY <1>3, <1>6, <2>1 DEF RowShape, Kind, KindNow
<1>7. CASE link[p] # "friend" /\ ticket[p] # 0
  <2>1. got.requests[p] = [dir |-> link[p], id |-> ticket[p]]
    BY <1>2, <1>7 DEF RequestsNow
  <2>2. PICK relation : relation = IF link[p] = "incoming" THEN "incoming_request" ELSE "outgoing_request"
    OBVIOUS
  <2>3. row = [relation |-> relation, id |-> ticket[p]]
    BY <1>4, <1>5, <1>7, <2>1, <2>2 DEF SearchRow
  <2> QED
    BY <1>3, <1>7, <2>2, <2>3 DEF RowShape, Kind, KindNow
<1>8. CASE link[p] # "friend" /\ ticket[p] = 0 /\ p \in shut
  <2>1. row = [relation |-> "blocked", id |-> 0]
    BY <1>2, <1>4, <1>5, <1>8 DEF SearchRow
  <2> QED
    BY <1>3, <1>8, <2>1 DEF RowShape, Kind, KindNow
<1>9. CASE link[p] # "friend" /\ ticket[p] = 0 /\ p \notin shut
  <2>1. PICK relation \in {"friend_of_friend", "none"} : row = [relation |-> relation, id |-> 0]
    BY <1>2, <1>4, <1>5, <1>9 DEF SearchRow
  <2>2. Kind(row) = [relation |-> "none", id |-> 0]
    BY <2>1 DEF Kind
  <2> QED
    BY <1>3, <1>9, <2>1, <2>2 DEF RowShape, KindNow
<1> QED
  BY <1>6, <1>7, <1>8, <1>9

\* What a row of some kind is.
LEMMA KindOf ==
  ASSUME NEW r, RowShape(r), NEW p, NEW id, Kind(r) = [relation |-> p, id |-> id]
  PROVE  /\ p \in {"incoming_request", "outgoing_request"} => r.relation = p /\ r.id = id
         /\ p # "direct_friend" => r.id = id
<1>1. r.relation = "friend_of_friend" => Kind(r) = [relation |-> "none", id |-> r.id]
  BY DEF Kind, RowShape
<1>2. r.relation = "direct_friend" => Kind(r) = [relation |-> "direct_friend", id |-> 0]
  BY DEF Kind, RowShape
<1>3. r.relation \notin {"friend_of_friend", "direct_friend"} => Kind(r) = [relation |-> r.relation, id |-> r.id]
  BY DEF Kind, RowShape
<1> QED
  BY <1>1, <1>2, <1>3

LEMMA RowOfThen == (\A p \in People : ServerInv => Kind(RowNow(p)) = KindNow(p))'
<1>1. \A p \in People : ServerInv => Kind(RowNow(p)) = KindNow(p)
  BY RowOfNow
<1> QED
  BY <1>1, PTL

\* A row of a person whose tables have not changed is as it was.
LEMMA KindStands ==
  ASSUME ServerInv, ServerInv', NEW p \in People,
         link'[p] = link[p], ticket'[p] = ticket[p], p \in shut' <=> p \in shut
  PROVE  Kind(RowNow(p))' = Kind(RowNow(p))
<1>1. Kind(RowNow(p)) = KindNow(p)
  BY RowOfNow
<1>2. Kind(RowNow(p))' = KindNow(p)'
  BY RowOfThen
<1>3. KindNow(p)' = KindNow(p)
  BY DEF KindNow
<1> QED
  BY <1>1, <1>2, <1>3

\* A call that is carried out touches one person, the one it was clicked for.
Untouched(p) == link'[p] = link[p] /\ ticket'[p] = ticket[p] /\ (p \in shut' <=> p \in shut)

LEMMA CallTouches ==
  ASSUME ServerInv, KnownApart, NEW c \in calls, c.op \in Operations, Accepted(c.op, c.p, c.id)
  PROVE  /\ \A q \in People : q # c.p => Untouched(q)
         /\ issued' = IF c.op = "send" THEN issued + 1 ELSE issued
         /\ c.op = "send" /\ c.p \in People => link'[c.p] = "outgoing" /\ ticket'[c.p] = issued + 1
         /\ c.op \in {"accept", "decline", "cancel"} =>
              /\ c.p \in People /\ c.id # 0 /\ ticket[c.p] = c.id /\ link[c.p] \in {"incoming", "outgoing"}
              /\ ticket'[c.p] = 0 /\ link'[c.p] = IF c.op = "accept" THEN "friend" ELSE "none"
              /\ c.op = "accept" => link[c.p] = "incoming"
              /\ c.p \in shut' <=> c.p \in shut
         /\ \A q \in People : ticket'[q] \in {0, ticket[q]} \/ (c.op = "send" /\ q = c.p /\ ticket'[q] = issued + 1)
<1> USE DEF Untouched
<1>1. link \in [People -> Relations] /\ ticket \in [People -> Nat] /\ issued \in Nat
  BY DEF ServerInv
<1>2. CASE c.op = "send"
  <2>1. /\ link' = [link EXCEPT ![c.p] = "outgoing"] /\ ticket' = [ticket EXCEPT ![c.p] = issued + 1]
        /\ issued' = issued + 1 /\ UNCHANGED shut
    BY <1>2 DEF Accepted, Asks, To
  <2> QED
    BY <1>1, <1>2, <2>1
<1>3. CASE c.op \in {"accept", "decline", "cancel"}
  <2>1. PICK relation : relation = IF c.op = "accept" THEN "friend" ELSE "none"
    OBVIOUS
  <2>2. Answers(c.id, IF c.op = "accept" THEN {"incoming"} ELSE {"incoming", "outgoing"}, relation)
    BY <1>3, <2>1 DEF Accepted
  <2>3. PICK q \in People :
          /\ ticket[q] = c.id /\ link[q] \in {"incoming", "outgoing"} /\ (c.op = "accept" => link[q] = "incoming")
          /\ c.id # 0 /\ To(q, relation, 0) /\ UNCHANGED <<shut, issued>>
    BY <2>2 DEF Answers
  <2>4. q = c.p
    <3>1. <<q, c.id>> \in Known /\ <<c.p, c.id>> \in Known
      BY <2>3 DEF Known
    <3>2. \A k, m \in Known : k[2] # 0 /\ k[2] = m[2] => k[1] = m[1]
      BY DEF KnownApart
    <3> QED
      BY <2>3, <3>1, <3>2
  <2>5. link' = [link EXCEPT ![c.p] = relation] /\ ticket' = [ticket EXCEPT ![c.p] = 0]
    BY <2>3, <2>4 DEF To
  <2> QED
    BY <1>1, <1>3, <2>1, <2>3, <2>4, <2>5
<1>4. CASE c.op = "remove" \/ c.op = "block"
  <2>1. /\ link' = [link EXCEPT ![c.p] = "none"] /\ ticket' = [ticket EXCEPT ![c.p] = 0]
        /\ (shut' = shut \/ shut' = shut \cup {c.p}) /\ issued' = issued
    BY <1>4 DEF Accepted, Parts_With, To
  <2> QED
    BY <1>1, <1>4, <2>1
<1>5. CASE c.op = "unblock"
  <2>1. shut' = shut \ {c.p} /\ UNCHANGED <<link, ticket, issued>>
    BY <1>5 DEF Accepted
  <2> QED
    BY <1>5, <2>1
<1> QED
  BY <1>2, <1>3, <1>4, <1>5 DEF Operations

LEMMA ShutStays ==
  ASSUME ServerInv, ShutApart, NEW op \in Operations, NEW p, NEW id, Accepted(op, p, id)
  PROVE  ShutApart'
<1>1. link \in [People -> Relations]
  BY DEF ServerInv
<1>2. CASE op = "send"
  BY <1>1, <1>2 DEF Accepted, Asks, To, ShutApart
<1>3. CASE op \in {"accept", "decline", "cancel"}
  <2>1. PICK q \in People, relation \in Relations :
          ticket[q] = id /\ id # 0 /\ link' = [link EXCEPT ![q] = relation] /\ shut' = shut
    BY <1>3 DEF Accepted, Answers, To, Relations
  <2>2. link[q] # "none"
    BY <2>1 DEF ServerInv
  <2> QED
    BY <1>1, <2>1, <2>2 DEF ShutApart
<1>4. CASE op \in {"remove", "block"}
  BY <1>1, <1>4 DEF Accepted, Parts_With, To, ShutApart
<1>5. CASE op = "unblock"
  BY <1>1, <1>5 DEF Accepted, ShutApart
<1> QED
  BY <1>2, <1>3, <1>4, <1>5 DEF Operations

LEMMA ShutOthers ==
  ASSUME ServerInv, ShutApart, NEW p, OtherActs(p)
  PROVE  ShutApart'
<1>1. link \in [People -> Relations]
  BY DEF ServerInv
<1>2. CASE Asks(p, "incoming")
  BY <1>1, <1>2 DEF Asks, To, ShutApart
<1>3. CASE link[p] = "friend" /\ Parts_With(p)
  BY <1>1, <1>3 DEF Parts_With, To, ShutApart
<1>4. CASE \E from, relation : ticket[p] # 0 /\ Answers(ticket[p], from, relation)
  <2>1. PICK q, relation :
          q \in People /\ ticket[q] # 0 /\ link' = [link EXCEPT ![q] = relation] /\ shut' = shut
    BY <1>4 DEF Answers, To
  <2>2. link[q] # "none"
    BY <2>1 DEF ServerInv
  <2> QED
    BY <1>1, <2>1, <2>2 DEF ShutApart
<1> QED
  BY <1>2, <1>3, <1>4 DEF OtherActs

-------------------------------------------------------------------------------
(* The requests seen: their ids stay apart.                                *)

Learns(q, id, p) == <<q, id>> \in Known \/ id = 0 \/ (q = p /\ id = issued + 1 /\ issued' = issued + 1)

LEMMA KnownParts ==
  /\ \A q \in People : <<q, ticket[q]>> \in Known
  /\ \A c \in calls : <<c.p, c.id>> \in Known
  /\ \A q \in DOMAIN rows : <<q, rows[q].id>> \in Known
  /\ \A q \in DOMAIN shown.requests : <<q, shown.requests[q].id>> \in Known
  /\ \A l \in loads : "requests" \in DOMAIN l.got => \A q \in DOMAIN l.got.requests : <<q, l.got.requests[q].id>> \in Known
  /\ \A l \in searches : "requests" \in DOMAIN l.got => \A q \in DOMAIN l.got.requests : <<q, l.got.requests[q].id>> \in Known
<1>1. /\ \A q \in People : <<q, ticket[q]>> \in Known
      /\ \A c \in calls : <<c.p, c.id>> \in Known
  BY DEF Known
<1>2. /\ \A q \in DOMAIN rows : <<q, rows[q].id>> \in Mentioned(rows)
      /\ \A q \in DOMAIN shown.requests : <<q, shown.requests[q].id>> \in Mentioned(shown.requests)
  BY DEF Mentioned
<1>3. ASSUME NEW l, "requests" \in DOMAIN l.got, NEW q \in DOMAIN l.got.requests
      PROVE  <<q, l.got.requests[q].id>> \in Seen(l)
  BY <1>3 DEF Seen, Mentioned
<1>4. \A l \in loads : Seen(l) \subseteq Known
  <2>1. \A l \in loads : Seen(l) \subseteq SeenIn(loads)
    BY Zenon DEF SeenIn
  <2> QED
    BY <2>1 DEF Known
<1>5. \A l \in searches : Seen(l) \subseteq Known
  <2>1. \A l \in searches : Seen(l) \subseteq SeenIn(searches)
    BY Zenon DEF SeenIn
  <2> QED
    BY <2>1 DEF Known
<1>6. Mentioned(rows) \subseteq Known /\ Mentioned(shown.requests) \subseteq Known
  BY DEF Known
<1> QED
  BY <1>1, <1>2, <1>3, <1>4, <1>5, <1>6

LEMMA KnownStep ==
  ASSUME KnownApart, issued \in Nat, issued' \in {issued, issued + 1}, NEW p,
         \A q \in People : Learns(q, ticket'[q], p),
         \A c \in calls' : Learns(c.p, c.id, p),
         \A q \in DOMAIN rows' : Learns(q, rows'[q].id, p),
         \A q \in DOMAIN shown'.requests : Learns(q, shown'.requests[q].id, p),
         \A l \in loads' : "requests" \in DOMAIN l.got =>
           \A q \in DOMAIN l.got.requests : Learns(q, l.got.requests[q].id, p),
         \A l \in searches' : "requests" \in DOMAIN l.got =>
           \A q \in DOMAIN l.got.requests : Learns(q, l.got.requests[q].id, p)
  PROVE  KnownApart'
<1>1. \A k \in Known' : \E q, id : k = <<q, id>> /\ Learns(q, id, p)
  <2>1. SUFFICES ASSUME NEW k \in Known'
                 PROVE  \E q, id : k = <<q, id>> /\ Learns(q, id, p)
    OBVIOUS
  <2>2. CASE k \in {<<q, ticket'[q]>> : q \in People}
    BY <2>2
  <2>3. CASE k \in {<<c.p, c.id>> : c \in calls'}
    BY <2>3
  <2>4. CASE k \in Mentioned(rows')
    BY <2>4 DEF Mentioned
  <2>5. CASE k \in Mentioned(shown'.requests)
    BY <2>5 DEF Mentioned
  <2>6. CASE k \in SeenIn(loads')
    <3>1. PICK l \in loads' : k \in Seen(l)
      BY <2>6, Zenon DEF SeenIn
    <3> QED
      BY <3>1 DEF Seen, Mentioned
  <2>7. CASE k \in SeenIn(searches')
    <3>1. PICK l \in searches' : k \in Seen(l)
      BY <2>7, Zenon DEF SeenIn
    <3> QED
      BY <3>1 DEF Seen, Mentioned
  <2>8. \/ k \in {<<q, ticket'[q]>> : q \in People} \/ k \in {<<c.p, c.id>> : c \in calls'} \/ k \in Mentioned(rows')
        \/ k \in Mentioned(shown'.requests) \/ k \in SeenIn(loads') \/ k \in SeenIn(searches')
    <3>1. SeenIn(loads)' = SeenIn(loads') /\ SeenIn(searches)' = SeenIn(searches')
      BY DEF SeenIn, Seen, Mentioned
    <3>2. Mentioned(rows)' = Mentioned(rows') /\ Mentioned(shown.requests)' = Mentioned(shown'.requests)
      BY DEF Mentioned
    <3> QED
      BY <3>1, <3>2 DEF Known
  <2> QED
    BY <2>1, <2>2, <2>3, <2>4, <2>5, <2>6, <2>7, <2>8
<1>2. \A q, id : Learns(q, id, p) =>
        /\ id \in 0..issued'
        /\ id = 0 \/ (<<q, id>> \in Known /\ id \in 1..issued) \/ (q = p /\ id = issued + 1)
  <2>1. \A k \in Known : k[2] \in 0..issued
    BY DEF KnownApart
  <2>2. \A q, id : <<q, id>> \in Known => id \in 0..issued
    BY <2>1
  <2> QED
    BY <2>2 DEF Learns
<1>3. ASSUME NEW k \in Known', NEW m \in Known'
      PROVE  k[2] \in 0..issued' /\ (k[2] # 0 /\ k[2] = m[2] => k[1] = m[1])
  <2>1. PICK q, id : k = <<q, id>> /\ Learns(q, id, p)
    BY <1>1
  <2>2. PICK r, jd : m = <<r, jd>> /\ Learns(r, jd, p)
    BY <1>1
  <2>3. id # 0 /\ id = jd => q = r
    <3>1. CASE id \in 1..issued /\ id = jd
      <4>1. <<q, id>> \in Known /\ <<r, id>> \in Known
        BY <3>1, <2>1, <2>2, <1>2
      <4>2. \A i, j \in Known : i[2] # 0 /\ i[2] = j[2] => i[1] = j[1]
        BY DEF KnownApart
      <4> QED
        BY <3>1, <4>1, <4>2
    <3>2. CASE id = issued + 1 /\ id = jd
      BY <3>2, <2>1, <2>2, <1>2
    <3> QED
      BY <3>1, <3>2, <2>1, <1>2
  <2> QED
    BY <2>1, <2>2, <2>3, <1>2
<1> QED
  BY <1>3 DEF KnownApart

\* The reads that a change of the server overtakes see what was there.
LEMMA CutLearns ==
  ASSUME NEW l, FlightShape(l), NEW early, NEW p, NEW q,
         "requests" \in DOMAIN Cut(l, early).got, q \in DOMAIN Cut(l, early).got.requests,
         "requests" \in DOMAIN l.got => \A r \in DOMAIN l.got.requests : <<r, l.got.requests[r].id>> \in Known
  PROVE  Learns(q, Cut(l, early).got.requests[q].id, p)
<1>1. PICK k : k = Cut(l, early)
  OBVIOUS
<1>2. k.got["requests"] = IF "requests" \in DOMAIN l.got THEN l.got["requests"] ELSE ReadNow("requests")
  BY <1>1, FlightHolds
<1>3. CASE "requests" \in DOMAIN l.got
  BY <1>1, <1>2, <1>3 DEF Learns
<1>4. CASE "requests" \notin DOMAIN l.got
  <2>1. k.got.requests = RequestsNow
    BY <1>2, <1>4 DEF ReadNow
  <2>2. q \in People /\ RequestsNow[q].id = ticket[q]
    BY <1>1, <2>1 DEF RequestsNow
  <2> QED
    BY <1>1, <2>1, <2>2, KnownParts DEF Learns
<1> QED
  BY <1>3, <1>4

LEMMA StraddledLearns ==
  ASSUME Straddled, NEW p, \A l \in loads : FlightShape(l), \A l \in searches : FlightShape(l)
  PROVE  /\ \A l \in loads' : "requests" \in DOMAIN l.got =>
              \A q \in DOMAIN l.got.requests : Learns(q, l.got.requests[q].id, p)
         /\ \A l \in searches' : "requests" \in DOMAIN l.got =>
              \A q \in DOMAIN l.got.requests : Learns(q, l.got.requests[q].id, p)
<1>1. \A k \in loads' : \E l \in loads : \E early : k = Cut(l, early)
  BY DEF Straddled
<1>2. \A k \in searches' : \E l \in searches : \E early : k = Cut(l, early)
  BY DEF Straddled
<1> QED
  BY <1>1, <1>2, KnownParts, CutLearns

\* An answer, or a read of now, learns nothing new.
LEMMA AnswerLearns ==
  ASSUME NEW l, NEW lost, NEW p, "requests" \in l.parts, NEW q \in DOMAIN Answer(l, lost).requests,
         "requests" \in DOMAIN l.got => \A r \in DOMAIN l.got.requests : <<r, l.got.requests[r].id>> \in Known
  PROVE  Learns(q, Answer(l, lost).requests[q].id, p)
<1>1. PICK requests : requests = Answer(l, lost).requests
  OBVIOUS
<1>2. CASE "requests" \in lost
  <2>1. requests = NoRequests
    BY <1>1, <1>2 DEF Answer, EmptyPart
  <2> QED
    BY <1>1, <2>1 DEF NoRequests
<1>3. CASE "requests" \notin lost /\ "requests" \in DOMAIN l.got
  <2>1. requests = l.got.requests
    BY <1>1, <1>3 DEF Answer
  <2> QED
    BY <1>1, <1>3, <2>1 DEF Learns
<1>4. CASE "requests" \notin lost /\ "requests" \notin DOMAIN l.got
  <2>1. requests = RequestsNow
    BY <1>1, <1>4 DEF Answer, ReadNow
  <2>2. q \in People /\ RequestsNow[q].id = ticket[q]
    BY <1>1, <2>1 DEF RequestsNow
  <2> QED
    BY <1>1, <2>1, <2>2, KnownParts DEF Learns
<1> QED
  BY <1>2, <1>3, <1>4

\* Where the server, and what is known of the calls and the flights, is as it was.
LEMMA KnownStill ==
  ASSUME KnownApart, ServerInv, UNCHANGED server,
         \A c \in calls' : Learns(c.p, c.id, Nobody),
         \A q \in DOMAIN rows' : Learns(q, rows'[q].id, Nobody),
         \A q \in DOMAIN shown'.requests : Learns(q, shown'.requests[q].id, Nobody),
         \A l \in loads' : "requests" \in DOMAIN l.got =>
           \A q \in DOMAIN l.got.requests : Learns(q, l.got.requests[q].id, Nobody),
         \A l \in searches' : "requests" \in DOMAIN l.got =>
           \A q \in DOMAIN l.got.requests : Learns(q, l.got.requests[q].id, Nobody)
  PROVE  KnownApart'
<1>1. issued \in Nat /\ issued' = issued
  BY DEF ServerInv, server
<1>2. \A q \in People : Learns(q, ticket'[q], Nobody)
  BY KnownParts DEF Learns, server
<1> QED
  BY <1>1, <1>2, KnownStep

LEMMA KnownServed ==
  ASSUME BusyInv, ListsInv, KnownApart, CallServed, \A s \in searches : FlightShape(s)
  PROVE  KnownApart'
<1>1. PICK c, k :
           /\ c \in calls
           /\ c.pc = "asked" /\ calls' = (calls \ {c}) \cup {k} /\ AskShape(k) /\ k.op = c.op /\ k.p = c.p
           /\ k.id = IF k.pc = "ok" /\ c.op = "send" THEN issued + 1 ELSE c.id
           /\ \/ k.pc = "ok" /\ Accepted(c.op, c.p, c.id) /\ Straddled /\ UNCHANGED drift
                 /\ late' = (late \/ searches # {})
              \/ k.pc = "failed" /\ Accepted(c.op, c.p, c.id) /\ Straddled /\ drift' = TRUE /\ late' = TRUE
              \/ k.pc = "failed" /\ UNCHANGED <<server, loads, searches, drift, late>>
  BY ServedOutcome
<1>2. ServerInv /\ issued \in Nat /\ c.op \in Operations /\ UNCHANGED <<rows, shown>>
  BY <1>1 DEF ListsInv, ServerInv, CallServed
<1>3. CASE Accepted(c.op, c.p, c.id) /\ Straddled
  <2>1. issued' = IF c.op = "send" THEN issued + 1 ELSE issued
    BY <1>1, <1>2, <1>3, CallTouches
  <2>2. \A q \in People : Learns(q, ticket'[q], c.p)
    <3>1. \A q \in People : ticket'[q] \in {0, ticket[q]} \/ (c.op = "send" /\ q = c.p /\ ticket'[q] = issued + 1)
      BY <1>1, <1>2, <1>3, CallTouches
    <3> QED
      BY <2>1, <3>1, KnownParts DEF Learns
  <2>3. \A d \in calls' : Learns(d.p, d.id, c.p)
    <3>1. Learns(k.p, k.id, c.p)
      BY <1>1, <2>1, KnownParts DEF Learns
    <3> QED
      BY <1>1, <3>1, KnownParts DEF Learns
  <2>4. /\ \A q \in DOMAIN rows' : Learns(q, rows'[q].id, c.p)
        /\ \A q \in DOMAIN shown'.requests : Learns(q, shown'.requests[q].id, c.p)
    BY <1>2, KnownParts DEF Learns
  <2>5. /\ \A l \in loads' : "requests" \in DOMAIN l.got =>
             \A q \in DOMAIN l.got.requests : Learns(q, l.got.requests[q].id, c.p)
        /\ \A l \in searches' : "requests" \in DOMAIN l.got =>
             \A q \in DOMAIN l.got.requests : Learns(q, l.got.requests[q].id, c.p)
    BY <1>3, StraddledLearns DEF BusyInv
  <2>6. issued' \in {issued, issued + 1}
    BY <2>1
  <2> QED
    BY <1>2, <2>2, <2>3, <2>4, <2>5, <2>6, KnownStep
<1>4. CASE k.pc = "failed" /\ UNCHANGED <<server, loads, searches>>
  BY <1>1, <1>2, <1>4, KnownParts, KnownStill DEF Learns
<1> QED
  BY <1>1, <1>3, <1>4

LEMMA KnownOthers ==
  ASSUME BusyInv, ServerInv, KnownApart, OthersAct, \A s \in searches : FlightShape(s)
  PROVE  KnownApart'
<1>1. PICK p \in People : OtherActs(p)
  BY DEF OthersAct
<1>2. Straddled /\ UNCHANGED <<rows, shown, calls>> /\ issued \in Nat /\ ticket \in [People -> Nat]
  BY DEF OthersAct, ServerInv
<1>3. /\ issued' \in {issued, issued + 1}
      /\ \A q \in People : ticket'[q] \in {0, ticket[q]} \/ (q = p /\ issued' = issued + 1 /\ ticket'[q] = issued + 1)
  <2>1. CASE Asks(p, "incoming")
    BY <1>2, <2>1 DEF Asks, To
  <2>2. CASE link[p] = "friend" /\ Parts_With(p)
    BY <1>2, <2>2 DEF Parts_With, To
  <2>3. CASE \E from, relation : ticket[p] # 0 /\ Answers(ticket[p], from, relation)
    BY <1>2, <2>3 DEF Answers, To
  <2> QED
    BY <1>1, <2>1, <2>2, <2>3 DEF OtherActs
<1>4. \A q \in People : Learns(q, ticket'[q], p)
  BY <1>3, KnownParts DEF Learns
<1>5. /\ \A q \in DOMAIN rows' : Learns(q, rows'[q].id, p)
      /\ \A q \in DOMAIN shown'.requests : Learns(q, shown'.requests[q].id, p)
      /\ \A d \in calls' : Learns(d.p, d.id, p)
  BY <1>2, KnownParts DEF Learns
<1>6. /\ \A l \in loads' : "requests" \in DOMAIN l.got =>
           \A q \in DOMAIN l.got.requests : Learns(q, l.got.requests[q].id, p)
      /\ \A l \in searches' : "requests" \in DOMAIN l.got =>
           \A q \in DOMAIN l.got.requests : Learns(q, l.got.requests[q].id, p)
  BY <1>2, StraddledLearns DEF BusyInv
<1> QED
  BY <1>2, <1>3, <1>4, <1>5, <1>6, KnownStep

\* A search that is typed, asked or answered.
LEMMA KnownSearched ==
  ASSUME ServerInv, KnownApart, UNCHANGED <<server, shown, loads, calls>>,
         \A s \in searches : s.parts = Parts,
         \/ searches' \subseteq searches /\ rows' \in {rows, NoRows}
         \/ searches' = searches \cup {Flight(query, Parts, 0)} /\ UNCHANGED rows
         \/ \E s \in searches : \E lost : searches' \subseteq searches /\ rows' = Found(s, lost)
  PROVE  KnownApart'
<1>1. /\ \A q \in DOMAIN shown'.requests : Learns(q, shown'.requests[q].id, Nobody)
      /\ \A d \in calls' : Learns(d.p, d.id, Nobody)
      /\ \A l \in loads' : "requests" \in DOMAIN l.got =>
           \A q \in DOMAIN l.got.requests : Learns(q, l.got.requests[q].id, Nobody)
      /\ \A l \in searches : "requests" \in DOMAIN l.got =>
           \A q \in DOMAIN l.got.requests : Learns(q, l.got.requests[q].id, Nobody)
      /\ \A q \in DOMAIN rows : Learns(q, rows[q].id, Nobody)
  BY KnownParts DEF Learns
<1>2. CASE searches' \subseteq searches /\ rows' \in {rows, NoRows}
  <2>1. \A q \in DOMAIN rows' : Learns(q, rows'[q].id, Nobody)
    BY <1>1, <1>2 DEF NoRows
  <2> QED
    BY <1>1, <1>2, <2>1, KnownStill
<1>3. CASE searches' = searches \cup {Flight(query, Parts, 0)} /\ UNCHANGED rows
  <2>1. PICK f : f = Flight(query, Parts, 0)
    OBVIOUS
  <2>2. DOMAIN f.got = {}
    BY <2>1, FlightNew
  <2>3. \A l \in searches' : "requests" \in DOMAIN l.got =>
           \A q \in DOMAIN l.got.requests : Learns(q, l.got.requests[q].id, Nobody)
    BY <1>1, <1>3, <2>1, <2>2
  <2> QED
    BY <1>1, <1>3, <2>3, KnownStill
<1>4. CASE \E s \in searches : \E lost : searches' \subseteq searches /\ rows' = Found(s, lost)
  <2>1. PICK s, lost : s \in searches /\ searches' \subseteq searches /\ rows' = Found(s, lost)
    BY <1>4
  <2>2. PICK got : got = Answer(s, lost)
    OBVIOUS
  <2>3. ASSUME NEW q \in DOMAIN rows'
        PROVE  Learns(q, rows'[q].id, Nobody)
    <3>1. rows'[q] = SearchRow(got, q)
      BY <2>1, <2>2 DEF Found
    <3>2. rows'[q].id = 0 \/ (q \in DOMAIN got.requests /\ rows'[q].id = got.requests[q].id)
      BY <3>1, RowFound
    <3>3. "requests" \in s.parts
      BY <2>1 DEF Parts
    <3>4. CASE q \in DOMAIN got.requests /\ rows'[q].id = got.requests[q].id
      <4>1. "requests" \in DOMAIN s.got => \A r \in DOMAIN s.got.requests : <<r, s.got.requests[r].id>> \in Known
        BY <2>1, KnownParts
      <4>2. Learns(q, Answer(s, lost).requests[q].id, Nobody)
        BY <2>2, <3>3, <3>4, <4>1, AnswerLearns
      <4> QED
        BY <2>2, <3>4, <4>2
    <3> QED
      BY <3>2, <3>4 DEF Learns
  <2> QED
    BY <1>1, <2>1, <2>3, KnownStill
<1> QED
  BY <1>2, <1>3, <1>4

\* What a button is for, the page has seen.
LEMMA ButtonIds ==
  ASSUME NEW p, NEW row, NEW handlers, NEW isBusy, NEW b \in Buttons(p, row, handlers, isBusy)
  PROVE  b.p = p /\ b.id \in {0, row.id}
BY DEF Buttons

LEMMA ItemKnown ==
  ASSUME NEW people, NEW relation, NEW handlers, NEW Busy(_), NEW b \in ListItems(people, relation, handlers, Busy),
         relation \in {"incoming_request", "outgoing_request"} => people \subseteq DOMAIN shown.requests
  PROVE  b.id = 0 \/ <<b.p, b.id>> \in Known
<1>1. PICK p \in people : b \in Buttons(p, RowOf(relation, p), handlers, Busy([p |-> p, id |-> RowOf(relation, p).id]))
  BY Zenon DEF ListItems
<1>2. b.p = p /\ b.id \in {0, RowOf(relation, p).id}
  BY <1>1, ButtonIds
<1>3. RowOf(relation, p).id =
        IF relation \in {"incoming_request", "outgoing_request"} THEN shown.requests[p].id ELSE 0
  BY DEF RowOf
<1> QED
  BY <1>1, <1>2, <1>3, KnownParts

LEMMA OffersKnown ==
  ASSUME NEW b \in Offers
  PROVE  b.id = 0 \/ <<b.p, b.id>> \in Known
<1>0. \A d : Requested(d) \subseteq DOMAIN shown.requests
  BY DEF Requested
<1>1. CASE b \in SearchList
  <2>1. PICK p \in DOMAIN rows : b \in Buttons(p, rows[p], Operations, busy = p \/ (rows[p].id # 0 /\ busy = rows[p].id))
    BY <1>1, Zenon DEF SearchList
  <2> QED
    BY <2>1, ButtonIds, KnownParts
<1>2. CASE b \in AllTab
  <2>1. CASE b \in ListItems(Requested("incoming"), "incoming_request", {"accept", "decline"}, SlotIsId)
    BY <2>1, <1>0, ItemKnown, Zenon
  <2>2. CASE b \in ListItems(Requested("outgoing"), "outgoing_request", {"cancel"}, SlotIsId)
    BY <2>2, <1>0, ItemKnown, Zenon
  <2> QED
    BY <1>2, <2>1, <2>2 DEF AllTab
<1>3. CASE b \in IncomingTab
  BY <1>3, <1>0, ItemKnown, Zenon DEF IncomingTab
<1>4. CASE b \in PendingTab
  BY <1>4, <1>0, ItemKnown, Zenon DEF PendingTab
<1>5. CASE b \in FriendsTab
  BY <1>5, ItemKnown, Zenon DEF FriendsTab
<1>6. CASE b \in FofTab
  BY <1>6, ItemKnown, Zenon DEF FofTab
<1>7. CASE b \in BlockedTab
  BY <1>7, ItemKnown, Zenon DEF BlockedTab
<1> QED
  BY <1>1, <1>2, <1>3, <1>4, <1>5, <1>6, <1>7 DEF Offers

LEMMA HomeOffersKnown ==
  ASSUME NEW b \in HomeOffers
  PROVE  b.id = 0 \/ <<b.p, b.id>> \in Known
<1>1. CASE b \in FoundHome
  <2>1. PICK p \in DOMAIN rows : b \in Buttons(p, rows[p], {"send", "accept", "decline", "cancel"}, RowBusy(p))
    BY <1>1, Zenon DEF FoundHome
  <2> QED
    BY <2>1, ButtonIds, KnownParts
<1>2. CASE b \in RequestsPreview
  BY <1>2, ItemKnown, Zenon DEF RequestsPreview
<1>3. CASE b \in Suggestions
  BY <1>3, ItemKnown, Zenon DEF Suggestions
<1> QED
  BY <1>1, <1>2, <1>3 DEF HomeOffers

LEMMA KnownClicked ==
  ASSUME ServerInv, KnownApart, NEW b, Click(b), b.id = 0 \/ <<b.p, b.id>> \in Known,
         UNCHANGED <<server, shown, loads, rows, searches>>
  PROVE  KnownApart'
<1>1. PICK k : k = [op |-> b.op, p |-> b.p, id |-> b.id, pc |-> "asked", depth |-> depth]
  OBVIOUS
<1>2. calls' = calls \cup {k}
  BY <1>1 DEF Click
<1>3. Learns(k.p, k.id, Nobody)
  BY <1>1 DEF Learns
<1>4. \A c \in calls' : Learns(c.p, c.id, Nobody)
  BY <1>2, <1>3, KnownParts DEF Learns
<1> QED
  BY <1>4, KnownParts, KnownStill DEF Learns

LEMMA PatchDomain ==
  ASSUME NEW c
  PROVE  DOMAIN Patched(c) = DOMAIN rows /\ DOMAIN RowPatch(c) = DOMAIN rows
<1>1. \A id, relation, newId : DOMAIN PatchedById(id, relation, newId) = DOMAIN rows
  BY DEF PatchedById
<1>2. DOMAIN RowPatch(c) = DOMAIN rows
  BY DEF RowPatch
<1> QED
  BY <1>1, <1>2 DEF Patched

\* The rows that an answer patches keep what they know, or learn of its request.
LEMMA PatchLearns ==
  ASSUME \A p \in DOMAIN rows : RowShape(rows[p]), NEW c \in calls, NEW p \in DOMAIN rows
  PROVE  /\ RowShape(Patched(c)[p]) /\ RowShape(RowPatch(c)[p])
         /\ Learns(p, Patched(c)[p].id, Nobody) /\ Learns(p, RowPatch(c)[p].id, Nobody)
<1>1. <<p, rows[p].id>> \in Known /\ <<c.p, c.id>> \in Known /\ RowShape(rows[p])
  BY KnownParts
<1>2. RowShape(Patched(c)[p]) /\ Learns(p, Patched(c)[p].id, Nobody)
  <2>1. CASE c.op = "send"
    <3>1. Patched(c) = [q \in DOMAIN rows |-> IF q = c.p THEN [relation |-> "outgoing_request", id |-> c.id] ELSE rows[q]]
      BY <2>1 DEF Patched
    <3> QED
      BY <1>1, <3>1 DEF RowShape, Learns
  <2>2. CASE c.op \in {"accept", "decline", "cancel"}
    <3>1. PICK relation \in {"direct_friend", "none"}, id \in {0, c.id} : Patched(c) = PatchedById(c.id, relation, id)
      BY <2>2 DEF Patched
    <3>2. Patched(c) = [q \in DOMAIN rows |-> IF rows[q].id = c.id THEN [relation |-> relation, id |-> id] ELSE rows[q]]
      BY <3>1 DEF PatchedById
    <3> QED
      BY <1>1, <3>1, <3>2 DEF RowShape, Learns
  <2>3. CASE c.op \notin {"send", "accept", "decline", "cancel"}
    <3>1. Patched(c) = rows
      BY <2>3 DEF Patched
    <3> QED
      BY <1>1, <3>1 DEF Learns
  <2> QED
    BY <2>1, <2>2, <2>3
<1>3. RowShape(RowPatch(c)[p]) /\ Learns(p, RowPatch(c)[p].id, Nobody)
  <2>1. [rows[p] EXCEPT !.relation = "direct_friend"] = [relation |-> "direct_friend", id |-> rows[p].id]
    BY <1>1 DEF RowShape
  <2>2. \/ RowPatch(c)[p] = rows[p]
        \/ RowPatch(c)[p] = [relation |-> "direct_friend", id |-> rows[p].id]
        \/ RowPatch(c)[p] = [relation |-> "none", id |-> 0]
        \/ p = c.p /\ RowPatch(c)[p] = [relation |-> "outgoing_request", id |-> c.id]
    BY <2>1 DEF RowPatch
  <2> QED
    BY <1>1, <2>2 DEF RowShape, Learns
<1> QED
  BY <1>2, <1>3

LEMMA KnownAnswered ==
  ASSUME ServerInv, KnownApart, \A p \in DOMAIN rows : RowShape(rows[p]), NEW c \in calls,
         calls' = calls \ {c}, rows' \in {rows, Patched(c), RowPatch(c)}, UNCHANGED <<server, searches>>,
         shown'.requests = shown.requests \/ shown'.requests = PreviewPatch(c),
         \A l \in loads' : l \in loads \/ DOMAIN l.got = {}
  PROVE  KnownApart'
<1>1. \A q \in DOMAIN rows' : Learns(q, rows'[q].id, Nobody)
  <2>1. CASE rows' = rows
    BY <2>1, KnownParts DEF Learns
  <2>2. CASE rows' = Patched(c)
    BY <2>2, PatchDomain, PatchLearns
  <2>3. CASE rows' = RowPatch(c)
    BY <2>3, PatchDomain, PatchLearns
  <2> QED
    BY <2>1, <2>2, <2>3
<1>2. \A d \in calls' : Learns(d.p, d.id, Nobody)
  BY KnownParts DEF Learns
<1>3. \A q \in DOMAIN shown'.requests : Learns(q, shown'.requests[q].id, Nobody)
  BY KnownParts DEF Learns, PreviewPatch
<1>4. \A l \in loads' : "requests" \in DOMAIN l.got =>
        \A q \in DOMAIN l.got.requests : Learns(q, l.got.requests[q].id, Nobody)
  BY KnownParts DEF Learns
<1>5. \A l \in searches' : "requests" \in DOMAIN l.got =>
        \A q \in DOMAIN l.got.requests : Learns(q, l.got.requests[q].id, Nobody)
  BY KnownParts DEF Learns
<1> QED
  BY <1>1, <1>2, <1>3, <1>4, <1>5, KnownStill

LEMMA KnownRead ==
  ASSUME BusyInv, ListsInv, RowsInv, LoadAnswers, page = "requests"
  PROVE  KnownApart'
<1>1. PICK l \in loads, lost \in AtMostOne(LoadParts) :
        /\ l.step = 0
        /\ loads' = (loads \ {l}) \cup {[l EXCEPT !.got = Answer(l, lost), !.step = 1]}
        /\ shown' = [shown EXCEPT !.stats = Answer(l, lost).stats]
        /\ Lose(lost, drift)
        /\ UNCHANGED <<server, depth, calls, busy, loading, search, late>>
  BY DEF LoadAnswers
<1>2. PICK got : got = Answer(l, lost)
  OBVIOUS
<1>3. PICK k : k = [for |-> l.for, parts |-> l.parts, got |-> got, local |-> l.local, step |-> 1]
  OBVIOUS
<1>4. loads' = (loads \ {l}) \cup {k} /\ k.got = got
  <2>1. FlightShape(l)
    BY DEF BusyInv
  <2>2. [l EXCEPT !.got = got, !.step = 1] = k
    BY <2>1, <1>3, LoadRead
  <2> QED
    BY <1>1, <1>2, <1>3, <2>2
<1>5. shown'.requests = shown.requests /\ UNCHANGED <<server, rows, searches, calls>>
  BY <1>1 DEF ListsInv, search
<1>6. "requests" \in l.parts
  BY <1>1 DEF RowsInv, RowsShaped, LoadParts, Parts
<1>7. "requests" \in DOMAIN l.got => \A r \in DOMAIN l.got.requests : <<r, l.got.requests[r].id>> \in Known
  BY <1>1, KnownParts
<1>8. \A q \in DOMAIN got.requests : Learns(q, got.requests[q].id, Nobody)
  BY <1>2, <1>6, <1>7, AnswerLearns
<1>9. \A m \in loads' : "requests" \in DOMAIN m.got =>
        \A q \in DOMAIN m.got.requests : Learns(q, m.got.requests[q].id, Nobody)
  BY <1>4, <1>8, KnownParts DEF Learns
<1>10. KnownApart /\ ServerInv
  BY DEF RowsInv, ListsInv
<1> QED
  BY <1>5, <1>9, <1>10, KnownParts, KnownStill DEF Learns

LEMMA KnownApplied ==
  ASSUME BusyInv, ListsInv, RowsInv, LoadApplies, page = "requests"
  PROVE  KnownApart'
<1>1. PICK l \in loads :
        /\ l.step \in DOMAIN Stages
        /\ shown' = [part \in DOMAIN shown |-> IF part \in Stages[l.step] THEN l.got[part] ELSE shown[part]]
        /\ loads' = (loads \ {l}) \cup {[l EXCEPT !.step = @ + 1]}
        /\ UNCHANGED <<server, depth, calls, busy, loading, search, drift, late, spent>>
  BY DEF LoadApplies
<1>2. PICK step : step = l.step + 1
  OBVIOUS
<1>3. PICK k : k = [for |-> l.for, parts |-> l.parts, got |-> l.got, local |-> l.local, step |-> step]
  OBVIOUS
<1>4. loads' = (loads \ {l}) \cup {k} /\ k.got = l.got
  <2>1. FlightShape(l)
    BY DEF BusyInv
  <2>2. [l EXCEPT !.step = step] = k
    BY <2>1, <1>3, LoadRead
  <2> QED
    BY <1>1, <1>2, <1>3, <2>2
<1>5. l.step > 0
  BY <1>1 DEF Stages
<1>6. "requests" \in DOMAIN l.got
  BY <1>1, <1>5 DEF RowsInv, RowsShaped, LoadParts, Parts
<1>7. shown'.requests \in {shown.requests, l.got.requests}
  <2>1. "requests" \in DOMAIN shown
    BY DEF ListsInv, AllParts, Parts
  <2> QED
    BY <1>1, <2>1
<1>8. \A q \in DOMAIN shown'.requests : Learns(q, shown'.requests[q].id, Nobody)
  BY <1>1, <1>6, <1>7, KnownParts DEF Learns
<1>9. \A m \in loads' : "requests" \in DOMAIN m.got =>
        \A q \in DOMAIN m.got.requests : Learns(q, m.got.requests[q].id, Nobody)
  BY <1>1, <1>4, KnownParts DEF Learns
<1>10. KnownApart /\ ServerInv /\ UNCHANGED <<server, rows, searches, calls>>
  BY <1>1 DEF RowsInv, ListsInv, search
<1> QED
  BY <1>8, <1>9, <1>10, KnownParts, KnownStill DEF Learns

\* Where nothing is learnt.
LEMMA KnownKept ==
  ASSUME KnownApart, ServerInv, UNCHANGED server, calls' \subseteq calls, rows' = rows, searches' \subseteq searches,
         \A l \in loads' : l \in loads \/ DOMAIN l.got = {},
         shown'.requests = shown.requests
  PROVE  KnownApart'
BY KnownParts, KnownStill DEF Learns

LEMMA KnownRequests ==
  ASSUME BusyInv, ListsInv, RowsInv, RequestsNext, page = "requests"
  PROVE  KnownApart'
<1>1. KnownApart /\ ServerInv /\ (\A s \in searches : FlightShape(s) /\ s.parts = Parts)
      /\ (\A p \in DOMAIN rows : RowShape(rows[p]))
  BY DEF RowsInv, RowsShaped, ListsInv
<1>2. CASE LoadEnds \/ CallFailed
  <2>1. /\ UNCHANGED <<server, rows, shown>> /\ calls' \subseteq calls /\ searches' \subseteq searches
        /\ \A l \in loads' : l \in loads \/ DOMAIN l.got = {}
    BY <1>2 DEF LoadEnds, CallFailed, search
  <2> QED
    BY <1>1, <2>1, KnownKept
<1>3. CASE Clicked
  <2>1. PICK c \in Offers : Click(c) /\ UNCHANGED <<server, shown, loads, rows, searches>>
    BY <1>3 DEF Clicked, search
  <2> QED
    BY <1>1, <2>1, OffersKnown, KnownClicked
<1>4. CASE CallDone
  <2>1. PICK c \in calls :
          /\ calls' = calls \ {c} /\ rows' = Patched(c) /\ StartLoad("action", LoadParts, depth)
          /\ UNCHANGED <<server, shown, searches>>
    BY <1>4 DEF CallDone
  <2>2. PICK f : f = Flight("action", LoadParts, depth)
    OBVIOUS
  <2>3. DOMAIN f.got = {}
    BY <2>2, FlightNew
  <2>4. loads' = loads \cup {f}
    BY <2>1, <2>2 DEF StartLoad
  <2> QED
    BY <1>1, <2>1, <2>3, <2>4, KnownAnswered
<1>5. CASE SearchEffect
  <2>1. UNCHANGED <<server, shown, loads, calls, searches>> /\ rows' \in {rows, NoRows}
    BY <1>5 DEF SearchEffect, Typed
  <2> QED
    BY <1>1, <2>1, KnownSearched
<1>6. CASE SearchAsk(0)
  <2>1. UNCHANGED <<server, shown, loads, calls, rows>> /\ searches' = searches \cup {Flight(query, Parts, 0)}
    BY <1>6 DEF SearchAsk
  <2> QED
    BY <1>1, <2>1, KnownSearched
<1>7. CASE SearchAnswer \/ SearchFails
  <2>1. PICK s \in searches : SearchDone(s, NoRows) \/ \E lost : SearchDone(s, Found(s, lost))
    BY <1>7 DEF SearchAnswer, SearchFails
  <2>2. /\ UNCHANGED <<server, shown, loads, calls>> /\ searches' \subseteq searches
        /\ rows' = NoRows \/ \E lost : rows' = Found(s, lost)
    BY <2>1 DEF SearchDone
  <2> QED
    BY <1>1, <2>2, KnownSearched
<1> QED
  BY <1>1, <1>2, <1>3, <1>4, <1>5, <1>6, <1>7, KnownRead, KnownApplied, KnownServed, KnownOthers DEF RequestsNext

LEMMA KnownHome ==
  ASSUME BusyInv, ListsInv, RowsInv, HomeNext, page = "home"
  PROVE  KnownApart'
<1>1. KnownApart /\ ServerInv /\ (\A s \in searches : FlightShape(s) /\ s.parts = Parts)
      /\ (\A p \in DOMAIN rows : RowShape(rows[p])) /\ shown = [part \in AllParts |-> shown[part]]
  BY DEF RowsInv, RowsShaped, ListsInv
<1>2. CASE PartArrives
  <2>1. PICK l, part :
          /\ l \in loads /\ part \in l.parts
          /\ shown' = [shown EXCEPT ![part] = IF part = "requests" THEN Preview(Answer(l, {})[part])
                                              ELSE IF part = "graph" THEN AtDepth(Answer(l, {})[part], l.local)
                                              ELSE Answer(l, {})[part]]
          /\ loads' = loads \ {l} /\ UNCHANGED <<server, calls, rows, searches>>
    BY <1>2 DEF PartArrives, search
  <2>2. CASE part = "requests"
    <3>1. PICK requests : requests = Answer(l, {}).requests
      OBVIOUS
    <3>2. shown'.requests = Preview(requests)
      BY <1>1, <2>1, <2>2, <3>1 DEF AllParts, Parts
    <3>3. "requests" \in DOMAIN l.got => \A r \in DOMAIN l.got.requests : <<r, l.got.requests[r].id>> \in Known
      BY <2>1, KnownParts
    <3>4. \A q \in DOMAIN requests : Learns(q, requests[q].id, Nobody)
      BY <2>1, <2>2, <3>1, <3>3, AnswerLearns
    <3>5. \A q \in DOMAIN shown'.requests : Learns(q, shown'.requests[q].id, Nobody)
      BY <3>2, <3>4 DEF Preview
    <3> QED
      BY <1>1, <2>1, <3>5, KnownParts, KnownStill DEF Learns
  <2>3. CASE part # "requests"
    <3>1. shown'.requests = shown.requests
      BY <1>1, <2>1, <2>3
    <3> QED
      BY <1>1, <2>1, <3>1, KnownKept
  <2> QED
    BY <2>2, <2>3
<1>3. CASE PartFails
  <2>1. /\ UNCHANGED <<server, calls, rows, searches>> /\ loads' \subseteq loads
        /\ shown' = shown \/ shown' = [shown EXCEPT !.graph = EmptyPart("graph")]
    BY <1>3 DEF PartFails, search
  <2>2. shown'.requests = shown.requests
    <3>1. PICK graph : graph = EmptyPart("graph")
      OBVIOUS
    <3> QED
      BY <1>1, <2>1, <3>1 DEF AllParts, Parts
  <2> QED
    BY <1>1, <2>1, <2>2, KnownKept
<1>4. CASE HomeDepthChosen
  <2>1. /\ UNCHANGED <<server, calls, rows, searches, shown>>
        /\ \E d : loads' = loads \cup {Flight("home", {"graph"}, d)}
    BY <1>4 DEF HomeDepthChosen, Read, search
  <2>2. \A d : DOMAIN Flight("home", {"graph"}, d).got = {}
    BY FlightNew
  <2>3. \A l \in loads' : l \in loads \/ DOMAIN l.got = {}
    BY <2>1, <2>2
  <2> QED
    BY <1>1, <2>1, <2>3, KnownKept
<1>5. CASE HomeClicked
  <2>1. PICK c \in HomeOffers : Click(c) /\ UNCHANGED <<server, shown, loads, rows, searches>>
    BY <1>5 DEF HomeClicked, search
  <2> QED
    BY <1>1, <2>1, HomeOffersKnown, KnownClicked
<1>6. CASE HomeCallDone
  <2>1. PICK c, parts :
          /\ c \in calls
          /\ calls' = calls \ {c} /\ rows' = RowPatch(c)
          /\ shown' = [shown EXCEPT !.requests = PreviewPatch(c), !.fof = IF c.op = "send" THEN @ \ {c.p} ELSE @]
          /\ Refreshed(parts, {"requests"}, c.depth)
          /\ UNCHANGED <<server, searches>>
    BY <1>6 DEF HomeCallDone
  <2>2. \A part : DOMAIN Flight("action", {part}, c.depth).got = {}
    BY FlightNew
  <2>3. \A l \in loads' : l \in loads \/ DOMAIN l.got = {}
    BY <2>1, <2>2 DEF Refreshed
  <2>4. shown'.requests = PreviewPatch(c)
    BY <1>1, <2>1 DEF AllParts, Parts
  <2> QED
    BY <1>1, <2>1, <2>3, <2>4, KnownAnswered
<1>7. CASE HomeCallFailed
  <2>1. UNCHANGED <<server, rows, shown, loads, searches>> /\ calls' \subseteq calls
    BY <1>7 DEF HomeCallFailed, search
  <2> QED
    BY <1>1, <2>1, KnownKept
<1>8. CASE HomeSearchEffect
  <2>1. UNCHANGED <<server, shown, loads, calls, searches>> /\ rows' \in {rows, NoRows}
    BY <1>8 DEF HomeSearchEffect, Typed
  <2> QED
    BY <1>1, <2>1, KnownSearched
<1>9. CASE SearchAsk(0)
  <2>1. UNCHANGED <<server, shown, loads, calls, rows>> /\ searches' = searches \cup {Flight(query, Parts, 0)}
    BY <1>9 DEF SearchAsk
  <2> QED
    BY <1>1, <2>1, KnownSearched
<1>10. CASE HomeSearchAnswer \/ HomeSearchFails
  <2>1. PICK s \in searches : SearchDone(s, rows) \/ \E lost : SearchDone(s, Found(s, lost))
    BY <1>10 DEF HomeSearchAnswer, HomeSearchFails
  <2>2. /\ UNCHANGED <<server, shown, loads, calls>> /\ searches' \subseteq searches
        /\ rows' = rows \/ \E lost : rows' = Found(s, lost)
    BY <2>1 DEF SearchDone
  <2> QED
    BY <1>1, <2>2, KnownSearched
<1> QED
  BY <1>1, <1>2, <1>3, <1>4, <1>5, <1>6, <1>7, <1>8, <1>9, <1>10, KnownServed, KnownOthers DEF HomeNext

-------------------------------------------------------------------------------
(* What the rows, the searches and the query are made of.                  *)

LEMMA ShapedKept ==
  ASSUME RowsShaped, UNCHANGED page, ShutApart',
         query' \in Queries \cup {NoQuery}, timer' => query' # NoQuery,
         \A s \in searches' : s \in searches \/ (FlightShape(s) /\ s.parts = Parts /\ s.for \in Queries),
         \A p \in DOMAIN rows' : p \in People /\ RowShape(rows'[p]),
         page = "home" => \A c \in calls' : c \in calls \/ c.op \in HomeOps,
         page = "requests" =>
           \A l \in loads' : l \in loads \/ (l.parts = LoadParts /\ (l.step > 0 => LoadParts \subseteq DOMAIN l.got))
  PROVE  RowsShaped'
<1>1. \A p : RowShape(rows[p])' <=> RowShape(rows'[p])
  BY DEF RowShape
<1>2. (\A s \in searches : FlightShape(s) /\ s.parts = Parts /\ s.for \in Queries)'
  BY DEF RowsShaped, FlightShape
<1>3. (page = "home" => \A c \in calls : c.op \in {"send", "accept", "decline", "cancel"})'
  BY DEF RowsShaped, HomeOps
<1>4. (page = "requests" => \A l \in loads : l.parts = LoadParts /\ (l.step > 0 => LoadParts \subseteq DOMAIN l.got))'
  BY DEF RowsShaped
<1> QED
  BY <1>1, <1>2, <1>3, <1>4 DEF RowsShaped

LEMMA CutKeeps ==
  ASSUME NEW l, FlightShape(l), NEW early
  PROVE  l.parts \cap DOMAIN l.got \subseteq DOMAIN Cut(l, early).got
<1>1. PICK parts : parts = {part \in l.parts : part \in DOMAIN l.got \/ <<l, part>> \in early}
  OBVIOUS
<1>2. PICK g : g = [part \in parts |-> IF part \in DOMAIN l.got THEN l.got[part] ELSE ReadNow(part)]
  OBVIOUS
<1>3. Cut(l, early) = [l EXCEPT !.got = g]
  BY <1>1, <1>2 DEF Cut
<1>4. [l EXCEPT !.got = g].got = g
  BY DEF FlightShape
<1> QED
  BY <1>1, <1>2, <1>3, <1>4

\* Reads that a change of the server overtakes are those of the same flights.
LEMMA StraddledShaped ==
  ASSUME BusyInv, RowsShaped, Straddled
  PROVE  /\ \A s \in searches' : FlightShape(s) /\ s.parts = Parts /\ s.for \in Queries
         /\ page = "requests" =>
              \A l \in loads' : l.parts = LoadParts /\ (l.step > 0 => LoadParts \subseteq DOMAIN l.got)
<1>1. /\ \A k \in searches' : \E l \in searches : \E early : k = Cut(l, early)
      /\ \A k \in loads' : \E l \in loads : \E early : k = Cut(l, early)
  BY DEF Straddled
<1>2. ASSUME NEW l \in loads, NEW early
      PROVE  /\ Cut(l, early).parts = l.parts /\ Cut(l, early).step = l.step
             /\ l.parts \cap DOMAIN l.got \subseteq DOMAIN Cut(l, early).got
  BY <1>2, FlightHolds, CutKeeps DEF BusyInv
<1>3. \A s \in searches' : FlightShape(s) /\ s.parts = Parts /\ s.for \in Queries
  BY <1>1, FlightHolds DEF RowsShaped
<1> QED
  BY <1>1, <1>2, <1>3 DEF RowsShaped

LEMMA ShapedServed ==
  ASSUME BusyInv, ListsInv, RowsShaped, CallServed, UNCHANGED page
  PROVE  RowsShaped'
<1>1. PICK c, k :
           /\ c \in calls
           /\ c.pc = "asked" /\ calls' = (calls \ {c}) \cup {k} /\ AskShape(k) /\ k.op = c.op /\ k.p = c.p
           /\ k.id = IF k.pc = "ok" /\ c.op = "send" THEN issued + 1 ELSE c.id
           /\ \/ k.pc = "ok" /\ Accepted(c.op, c.p, c.id) /\ Straddled /\ UNCHANGED drift
                 /\ late' = (late \/ searches # {})
              \/ k.pc = "failed" /\ Accepted(c.op, c.p, c.id) /\ Straddled /\ drift' = TRUE /\ late' = TRUE
              \/ k.pc = "failed" /\ UNCHANGED <<server, loads, searches, drift, late>>
  BY ServedOutcome
<1>2. ServerInv /\ ShutApart /\ c.op \in Operations /\ UNCHANGED <<rows, query, timer>>
  BY <1>1 DEF ListsInv, RowsShaped, CallServed
<1>3. ShutApart'
  BY <1>1, <1>2, ShutStays DEF ShutApart, server
<1>4. \A d \in calls' : d.op = c.op \/ d \in calls
  BY <1>1
<1>5. page = "home" => \A d \in calls' : d \in calls \/ d.op \in HomeOps
  BY <1>1, <1>4 DEF RowsShaped, HomeOps
<1> QED
  BY <1>1, <1>2, <1>3, <1>5, StraddledShaped, ShapedKept DEF RowsShaped

LEMMA ShapedOthers ==
  ASSUME BusyInv, ListsInv, RowsShaped, OthersAct, UNCHANGED page
  PROVE  RowsShaped'
<1>1. UNCHANGED <<calls, rows, query, timer>> /\ Straddled
  BY DEF OthersAct
<1>2. ShutApart'
  BY ShutOthers DEF OthersAct, ListsInv, RowsShaped
<1> QED
  BY <1>1, <1>2, StraddledShaped, ShapedKept DEF RowsShaped

LEMMA FoundShaped ==
  ASSUME PeoplePageAssumption, NEW s, s.for \in Queries, NEW lost
  PROVE  /\ DOMAIN Found(s, lost) = Match[s.for] /\ DOMAIN FoundHere(s, lost) = Match[s.for]
         /\ \A p \in Match[s.for] : p \in People /\ RowShape(Found(s, lost)[p]) /\ RowShape(FoundHere(s, lost)[p])
<1>1. Match[s.for] \subseteq People
  BY DEF PeoplePageAssumption
<1>2. DOMAIN Found(s, lost) = Match[s.for] /\ DOMAIN FoundHere(s, lost) = Match[s.for]
  BY DEF Found, FoundHere
<1>3. \A p \in Match[s.for] : Found(s, lost)[p] = SearchRow(Answer(s, lost), p)
  BY DEF Found
<1>4. \A p \in Match[s.for] : FoundHere(s, lost)[p] \in {Found(s, lost)[p], SearchRow(s.local, p)}
  BY DEF FoundHere
<1> QED
  BY <1>1, <1>2, <1>3, <1>4, RowFound DEF RowShape

\* A search that is typed, asked or answered, or debounced anew.
LEMMA ShapedSearched ==
  ASSUME PeoplePageAssumption, RowsShaped, UNCHANGED <<server, loads, calls, page>>,
         \/ \E q \in Queries \cup {NoQuery} : Typed(q, NoRows)
         \/ \E local : SearchAsk(local)
         \/ \E s \in searches : \/ SearchDone(s, NoRows) \/ SearchDone(s, rows)
                                \/ \E lost : SearchDone(s, Found(s, lost)) \/ SearchDone(s, FoundHere(s, lost))
  PROVE  RowsShaped'
<1>1. ShutApart' /\ (\A p \in DOMAIN rows : p \in People /\ RowShape(rows[p])) /\ DOMAIN NoRows = {}
      /\ query \in Queries \cup {NoQuery} /\ (timer => query # NoQuery)
      /\ \A s \in searches : FlightShape(s) /\ s.parts = Parts /\ s.for \in Queries
  BY DEF RowsShaped, ShutApart, server, NoRows
<1>2. CASE \E q \in Queries \cup {NoQuery} : Typed(q, NoRows)
  <2>1. /\ query' \in Queries \cup {NoQuery} /\ (timer' => query' # NoQuery) /\ searches' = searches
        /\ rows' = rows \/ rows' = NoRows
    BY <1>2 DEF Typed
  <2> QED
    BY <1>1, <2>1, ShapedKept DEF RowsShaped
<1>3. CASE \E local : SearchAsk(local)
  <2>1. PICK local : SearchAsk(local)
    BY <1>3
  <2>2. PICK f : f = Flight(query, Parts, local)
    OBVIOUS
  <2>3. FlightShape(f) /\ f.parts = Parts /\ f.for = query
    BY <2>2, FlightNew
  <2>4. query \in Queries /\ timer' = FALSE /\ searches' = searches \cup {f} /\ UNCHANGED <<query, rows>>
    BY <1>1, <2>1, <2>2 DEF SearchAsk
  <2> QED
    BY <1>1, <2>3, <2>4, ShapedKept DEF RowsShaped
<1>4. CASE \E s \in searches : \/ SearchDone(s, NoRows) \/ SearchDone(s, rows)
                               \/ \E lost : SearchDone(s, Found(s, lost)) \/ SearchDone(s, FoundHere(s, lost))
  <2>1. PICK s \in searches : \/ SearchDone(s, NoRows) \/ SearchDone(s, rows)
                              \/ \E lost : SearchDone(s, Found(s, lost)) \/ SearchDone(s, FoundHere(s, lost))
    BY <1>4
  <2>2. searches' \subseteq searches /\ UNCHANGED <<query, timer>>
    BY <2>1 DEF SearchDone
  <2>3. rows' \in {NoRows, rows} \/ \E lost : rows' \in {Found(s, lost), FoundHere(s, lost)}
    BY <2>1 DEF SearchDone
  <2>4. \A p \in DOMAIN rows' : p \in People /\ RowShape(rows'[p])
    <3>1. CASE rows' \in {NoRows, rows}
      BY <1>1, <3>1
    <3>2. CASE \E lost : rows' \in {Found(s, lost), FoundHere(s, lost)}
      <4>1. PICK lost : rows' \in {Found(s, lost), FoundHere(s, lost)}
        BY <3>2
      <4>2. s.for \in Queries
        BY <1>1
      <4> QED
        BY <4>1, <4>2, FoundShaped
    <3> QED
      BY <2>3, <3>1, <3>2
  <2> QED
    BY <1>1, <2>2, <2>4, ShapedKept DEF RowsShaped
<1> QED
  BY <1>2, <1>3, <1>4

\* A step of the lists that leaves the searches in flight alone.
LEMMA ShapedLists ==
  ASSUME RowsShaped, UNCHANGED <<server, query, searches, page>>,
         timer' = timer \/ (timer' => query # NoQuery),
         rows' \in {rows, NoRows} \/ \E c \in calls : rows' \in {Patched(c), RowPatch(c)},
         page = "home" => \A c \in calls' : c \in calls \/ c.op \in HomeOps,
         page = "requests" =>
           \A l \in loads' : l \in loads \/ (l.parts = LoadParts /\ (l.step > 0 => LoadParts \subseteq DOMAIN l.got))
  PROVE  RowsShaped'
<1>1. ShutApart' /\ (\A p \in DOMAIN rows : p \in People /\ RowShape(rows[p])) /\ DOMAIN NoRows = {}
      /\ query \in Queries \cup {NoQuery} /\ (timer => query # NoQuery)
  BY DEF RowsShaped, ShutApart, server, NoRows
<1>2. \A p \in DOMAIN rows' : p \in People /\ RowShape(rows'[p])
  <2>1. CASE rows' \in {rows, NoRows}
    BY <1>1, <2>1
  <2>2. CASE \E c \in calls : rows' \in {Patched(c), RowPatch(c)}
    <3>1. PICK c \in calls : rows' \in {Patched(c), RowPatch(c)}
      BY <2>2
    <3> QED
      BY <1>1, <3>1, PatchDomain, PatchLearns
  <2> QED
    BY <2>1, <2>2
<1> QED
  BY <1>1, <1>2, ShapedKept

LEMMA ShapedRequests ==
  ASSUME PeoplePageAssumption, BusyInv, ListsInv, RowsShaped, RequestsNext, page = "requests", UNCHANGED page
  PROVE  RowsShaped'
<1>1. CASE LoadAnswers
  <2>1. PICK l \in loads, lost \in AtMostOne(LoadParts) :
          /\ loads' = (loads \ {l}) \cup {[l EXCEPT !.got = Answer(l, lost), !.step = 1]}
          /\ UNCHANGED <<server, calls, rows, query, timer, searches>>
    BY <1>1 DEF LoadAnswers, search
  <2>2. PICK got : got = Answer(l, lost)
    OBVIOUS
  <2>3. PICK k : k = [for |-> l.for, parts |-> l.parts, got |-> got, local |-> l.local, step |-> 1]
    OBVIOUS
  <2>4. loads' = (loads \ {l}) \cup {k}
    BY <2>1, <2>2, <2>3, LoadRead DEF BusyInv
  <2>5. DOMAIN got = l.parts /\ l.parts = LoadParts
    BY <2>1, <2>2 DEF Answer, RowsShaped
  <2>6. k.parts = LoadParts /\ LoadParts \subseteq DOMAIN k.got
    BY <2>3, <2>5
  <2> QED
    BY <2>1, <2>4, <2>6, ShapedLists
<1>2. CASE LoadApplies
  <2>1. PICK l \in loads :
          /\ l.step \in DOMAIN Stages
          /\ loads' = (loads \ {l}) \cup {[l EXCEPT !.step = @ + 1]}
          /\ UNCHANGED <<server, calls, rows, query, timer, searches>>
    BY <1>2 DEF LoadApplies, search
  <2>2. PICK step : step = l.step + 1
    OBVIOUS
  <2>3. PICK k : k = [for |-> l.for, parts |-> l.parts, got |-> l.got, local |-> l.local, step |-> step]
    OBVIOUS
  <2>4. loads' = (loads \ {l}) \cup {k}
    <3>1. [l EXCEPT !.step = step] = k
      BY <2>1, <2>3, LoadRead DEF BusyInv
    <3> QED
      BY <2>1, <2>2, <3>1
  <2>5. l.step > 0
    BY <2>1 DEF Stages
  <2>6. k.parts = LoadParts /\ LoadParts \subseteq DOMAIN k.got
    BY <2>1, <2>3, <2>5 DEF RowsShaped
  <2> QED
    BY <2>1, <2>4, <2>6, ShapedLists
<1>3. CASE LoadEnds \/ CallFailed
  <2>1. UNCHANGED <<server, rows, query, timer, searches>> /\ loads' \subseteq loads /\ calls' \subseteq calls
    BY <1>3 DEF LoadEnds, CallFailed, search
  <2> QED
    BY <2>1, ShapedLists
<1>4. CASE Clicked
  <2>1. UNCHANGED <<server, loads, rows, query, timer, searches>>
    BY <1>4 DEF Clicked, search
  <2> QED
    BY <2>1, ShapedLists
<1>5. CASE CallDone
  <2>1. PICK c \in calls :
          /\ calls' = calls \ {c} /\ rows' = Patched(c) /\ StartLoad("action", LoadParts, depth)
          /\ UNCHANGED <<server, query, timer, searches>>
    BY <1>5 DEF CallDone
  <2>2. PICK f : f = Flight("action", LoadParts, depth)
    OBVIOUS
  <2>3. f.parts = LoadParts /\ f.step = 0
    BY <2>2, FlightNew
  <2>4. loads' = loads \cup {f}
    BY <2>1, <2>2 DEF StartLoad
  <2> QED
    BY <2>1, <2>3, <2>4, ShapedLists
<1>6. CASE SearchEffect \/ SearchAsk(0) \/ SearchAnswer \/ SearchFails
  <2>1. UNCHANGED <<server, loads, calls>>
    BY <1>6 DEF SearchEffect, SearchAsk, SearchAnswer, SearchFails, Typed, SearchDone
  <2>2. \/ \E q \in Queries \cup {NoQuery} : Typed(q, NoRows)
        \/ \E local : SearchAsk(local)
        \/ \E s \in searches : SearchDone(s, NoRows) \/ \E lost : SearchDone(s, Found(s, lost))
    BY <1>6 DEF SearchEffect, SearchAnswer, SearchFails
  <2> QED
    BY <2>1, <2>2, ShapedSearched
<1> QED
  BY <1>1, <1>2, <1>3, <1>4, <1>5, <1>6, ShapedServed, ShapedOthers DEF RequestsNext

LEMMA ShapedNetwork ==
  ASSUME PeoplePageAssumption, BusyInv, ListsInv, RowsShaped, NetworkNext, page = "network", UNCHANGED page
  PROVE  RowsShaped'
<1>1. CASE NetworkLoaded \/ GraphLoaded
  <2>1. /\ UNCHANGED <<server, query, searches, calls>>
        /\ Researched \/ UNCHANGED <<timer, rows>>
    BY <1>1 DEF NetworkLoaded, GraphLoaded
  <2>2. (timer' = timer \/ (timer' => query # NoQuery)) /\ rows' \in {rows, NoRows}
    BY <2>1 DEF Researched
  <2> QED
    BY <2>1, <2>2, ShapedLists
<1>2. CASE NetworkLoadFails \/ DepthChosen \/ NetworkClicked \/ NetworkCallDone \/ NetworkCallFailed
  <2>1. UNCHANGED <<server, rows, query, timer, searches>>
    BY <1>2 DEF NetworkLoadFails, DepthChosen, NetworkClicked, NetworkCallDone, NetworkCallFailed, search
  <2> QED
    BY <2>1, ShapedLists
<1>3. CASE NetworkSearchEffect \/ SearchAsk(Local) \/ NetworkSearchAnswer \/ NetworkSearchFails
  <2>1. UNCHANGED <<server, loads, calls>>
    BY <1>3 DEF NetworkSearchEffect, SearchAsk, NetworkSearchAnswer, NetworkSearchFails, Typed, SearchDone
  <2>2. \/ \E q \in Queries \cup {NoQuery} : Typed(q, NoRows)
        \/ \E local : SearchAsk(local)
        \/ \E s \in searches : SearchDone(s, NoRows) \/ \E lost : SearchDone(s, FoundHere(s, lost))
    BY <1>3 DEF NetworkSearchEffect, NetworkSearchAnswer, NetworkSearchFails
  <2> QED
    BY <2>1, <2>2, ShapedSearched
<1> QED
  BY <1>1, <1>2, <1>3, ShapedServed, ShapedOthers DEF NetworkNext

LEMMA ShapedHome ==
  ASSUME PeoplePageAssumption, BusyInv, ListsInv, RowsShaped, HomeNext, page = "home", UNCHANGED page
  PROVE  RowsShaped'
<1>1. CASE PartArrives \/ PartFails \/ HomeDepthChosen \/ HomeCallFailed
  <2>1. UNCHANGED <<server, rows, query, timer, searches>> /\ calls' \subseteq calls
    BY <1>1 DEF PartArrives, PartFails, HomeDepthChosen, HomeCallFailed, search
  <2> QED
    BY <2>1, ShapedLists
<1>2. CASE HomeClicked
  <2>1. PICK b \in HomeOffers : Click(b) /\ UNCHANGED <<server, rows, query, timer, searches>>
    BY <1>2 DEF HomeClicked, search
  <2>2. PICK k : k = [op |-> b.op, p |-> b.p, id |-> b.id, pc |-> "asked", depth |-> depth]
    OBVIOUS
  <2>3. calls' = calls \cup {k} /\ k.op \in HomeOps
    BY <2>1, <2>2, HomeOfferOps DEF Click
  <2> QED
    BY <2>1, <2>3, ShapedLists
<1>3. CASE HomeCallDone
  <2>1. PICK c \in calls : calls' = calls \ {c} /\ rows' = RowPatch(c) /\ UNCHANGED <<server, query, timer, searches>>
    BY <1>3 DEF HomeCallDone
  <2> QED
    BY <2>1, ShapedLists
<1>4. CASE HomeSearchEffect \/ SearchAsk(0) \/ HomeSearchAnswer \/ HomeSearchFails
  <2>1. UNCHANGED <<server, loads, calls>>
    BY <1>4 DEF HomeSearchEffect, SearchAsk, HomeSearchAnswer, HomeSearchFails, Typed, SearchDone
  <2>2. \/ \E q \in Queries \cup {NoQuery} : Typed(q, NoRows)
        \/ \E local : SearchAsk(local)
        \/ \E s \in searches : SearchDone(s, rows) \/ \E lost : SearchDone(s, Found(s, lost))
    BY <1>4 DEF HomeSearchEffect, HomeSearchAnswer, HomeSearchFails
  <2> QED
    BY <2>1, <2>2, ShapedSearched
<1> QED
  BY <1>1, <1>2, <1>3, <1>4, ShapedServed, ShapedOthers DEF HomeNext

-------------------------------------------------------------------------------
(* Whom the rows are of.                                                   *)

LEMMA OfQueryKept ==
  ASSUME RowsOfQuery, UNCHANGED <<query, searches>>, timer' = timer, DOMAIN rows' = DOMAIN rows
  PROVE  RowsOfQuery'
<1>1. (DOMAIN rows)' = DOMAIN rows'
  OBVIOUS
<1> QED
  BY <1>1 DEF RowsOfQuery

LEMMA OfQuerySearched ==
  ASSUME PeoplePageAssumption, RowsShaped, ~late', ~late => RowsOfQuery,
         \/ \E q \in Queries \cup {NoQuery} : Typed(q, NoRows)
         \/ \E local : SearchAsk(local)
         \/ \E s \in searches : \E lost :
              (SearchDone(s, Found(s, lost)) \/ SearchDone(s, FoundHere(s, lost))) /\ Lose(lost, late)
  PROVE  RowsOfQuery'
<1>1. CASE \E q \in Queries \cup {NoQuery} : Typed(q, NoRows)
  <2>1. PICK q \in Queries \cup {NoQuery} : Typed(q, NoRows)
    BY <1>1
  <2>2. CASE q # NoQuery
    BY <2>1, <2>2 DEF Typed, RowsOfQuery
  <2>3. CASE q = NoQuery
    <3>1. searches' = {} /\ query' = NoQuery /\ DOMAIN rows' = {}
      BY <2>1, <2>3 DEF Typed, NoRows
    <3> QED
      BY <3>1 DEF RowsOfQuery
  <2> QED
    BY <2>2, <2>3
<1>2. CASE \E local : SearchAsk(local)
  <2>1. PICK local : SearchAsk(local)
    BY <1>2
  <2>2. PICK f : f = Flight(query, Parts, local)
    OBVIOUS
  <2>3. searches' = {f} /\ query' = query
    BY <2>1, <2>2 DEF SearchAsk
  <2>4. f.for = query
    BY <2>2, FlightNew
  <2> QED
    BY <2>3, <2>4 DEF RowsOfQuery
<1>3. CASE \E s \in searches : \E lost :
             (SearchDone(s, Found(s, lost)) \/ SearchDone(s, FoundHere(s, lost))) /\ Lose(lost, late)
  <2>1. PICK s, lost : s \in searches /\ (SearchDone(s, Found(s, lost)) \/ SearchDone(s, FoundHere(s, lost))) /\ Lose(lost, late)
    BY <1>3
  <2>2. /\ RowsOfQuery /\ searches' = searches \ {s} /\ UNCHANGED <<query, timer>>
        /\ rows' = Found(s, lost) \/ rows' = FoundHere(s, lost)
    BY <2>1 DEF SearchDone, Lose
  <2>3. s.for \in Queries /\ NoQuery \notin Queries
    BY <2>1 DEF RowsShaped, PeoplePageAssumption
  <2>4. DOMAIN rows' = Match[s.for]
    BY <2>2, <2>3, FoundShaped
  <2>5. CASE timer
    BY <2>2, <2>5 DEF RowsOfQuery
  <2>6. CASE ~timer
    <3>1. searches = {s} /\ s.for = query
      BY <2>1, <2>2, <2>6 DEF RowsOfQuery
    <3> QED
      BY <2>2, <2>3, <2>4, <3>1 DEF RowsOfQuery
  <2> QED
    BY <2>5, <2>6
<1> QED
  BY <1>1, <1>2, <1>3

\* A call served while a search is in flight makes the rows late.
LEMMA ServedSearches ==
  ASSUME BusyInv, CallServed, ~late'
  PROVE  ~late /\ searches' = searches /\ UNCHANGED <<rows, query, timer>>
<1>1. PICK c, k :
           /\ c \in calls
           /\ c.pc = "asked" /\ calls' = (calls \ {c}) \cup {k} /\ AskShape(k) /\ k.op = c.op /\ k.p = c.p
           /\ k.id = IF k.pc = "ok" /\ c.op = "send" THEN issued + 1 ELSE c.id
           /\ \/ k.pc = "ok" /\ Accepted(c.op, c.p, c.id) /\ Straddled /\ UNCHANGED drift
                 /\ late' = (late \/ searches # {})
              \/ k.pc = "failed" /\ Accepted(c.op, c.p, c.id) /\ Straddled /\ drift' = TRUE /\ late' = TRUE
              \/ k.pc = "failed" /\ UNCHANGED <<server, loads, searches, drift, late>>
  BY ServedOutcome
<1>2. UNCHANGED <<rows, query, timer>>
  BY DEF CallServed
<1>3. CASE Straddled /\ late' = (late \/ searches # {})
  <2>1. searches' = {}
    BY <1>3 DEF Straddled
  <2> QED
    BY <1>2, <1>3, <2>1
<1> QED
  BY <1>1, <1>2, <1>3

LEMMA OfQueryResearched ==
  ASSUME RowsShaped, RowsOfQuery, PeoplePageAssumption, UNCHANGED <<query, searches>>, Researched
  PROVE  RowsOfQuery'
<1>1. CASE query # NoQuery
  BY <1>1 DEF Researched, RowsOfQuery
<1>2. CASE query = NoQuery
  <2>1. searches = {}
    BY <1>2 DEF RowsShaped, RowsOfQuery, PeoplePageAssumption
  <2>2. DOMAIN rows' = {}
    BY <1>2 DEF Researched, NoRows
  <2> QED
    BY <1>2, <2>1, <2>2 DEF RowsOfQuery
<1> QED
  BY <1>1, <1>2

LEMMA OfQueryStep ==
  ASSUME PeoplePageAssumption, BusyInv, RowsShaped, ~late => RowsOfQuery, ~late', ListsNext
  PROVE  RowsOfQuery'
<1>1. CASE page = "requests"
  <2>1. RequestsNext
    BY <1>1 DEF ListsNext
  <2>2. CASE LoadAnswers \/ LoadApplies \/ LoadEnds \/ Clicked \/ CallFailed
    <3>1. ~late /\ UNCHANGED <<rows, query, searches, timer>>
      <4>1. CASE LoadAnswers
        BY <4>1 DEF LoadAnswers, search
      <4>2. CASE LoadApplies
        BY <4>2 DEF LoadApplies, search
      <4>3. CASE LoadEnds
        BY <4>3 DEF LoadEnds, search
      <4>4. CASE Clicked
        BY <4>4 DEF Clicked, search
      <4>5. CASE CallFailed
        BY <4>5 DEF CallFailed, search
      <4> QED
        BY <2>2, <4>1, <4>2, <4>3, <4>4, <4>5
    <3> QED
      BY <3>1, OfQueryKept
  <2>3. CASE CallServed
    BY <2>3, ServedSearches, OfQueryKept
  <2>4. CASE CallDone
    <3>1. PICK c \in calls : ~late /\ UNCHANGED <<query, searches, timer>> /\ rows' = Patched(c)
      BY <2>4 DEF CallDone
    <3> QED
      BY <3>1, PatchDomain, OfQueryKept
  <2>5. CASE SearchEffect \/ SearchAsk(0) \/ SearchAnswer
    <3>1. \/ \E q \in Queries \cup {NoQuery} : Typed(q, NoRows)
          \/ \E local : SearchAsk(local)
          \/ \E s \in searches : \E lost : SearchDone(s, Found(s, lost)) /\ Lose(lost, late)
      BY <2>5 DEF SearchEffect, SearchAnswer
    <3> QED
      BY <3>1, OfQuerySearched
  <2>6. ~SearchFails /\ ~OthersAct
    BY DEF SearchFails, OthersAct
  <2> QED
    BY <2>1, <2>2, <2>3, <2>4, <2>5, <2>6 DEF RequestsNext
<1>2. CASE page = "network"
  <2>1. NetworkNext
    BY <1>2 DEF ListsNext
  <2>2. CASE DepthChosen \/ NetworkClicked \/ NetworkCallDone \/ NetworkCallFailed
    <3>1. ~late /\ UNCHANGED <<rows, query, searches, timer>>
      <4>1. CASE DepthChosen
        BY <4>1 DEF DepthChosen, search
      <4>2. CASE NetworkClicked
        BY <4>2 DEF NetworkClicked, search
      <4>3. CASE NetworkCallDone
        BY <4>3 DEF NetworkCallDone, search
      <4>4. CASE NetworkCallFailed
        BY <4>4 DEF NetworkCallFailed, search
      <4> QED
        BY <2>2, <4>1, <4>2, <4>3, <4>4
    <3> QED
      BY <3>1, OfQueryKept
  <2>3. CASE CallServed
    BY <2>3, ServedSearches, OfQueryKept
  <2>4. CASE NetworkLoaded \/ GraphLoaded
    <3>1. ~late /\ UNCHANGED <<query, searches>> /\ (Researched \/ UNCHANGED <<timer, rows>>)
      BY <2>4 DEF NetworkLoaded, GraphLoaded
    <3> QED
      BY <3>1, OfQueryResearched, OfQueryKept
  <2>5. CASE NetworkSearchEffect \/ SearchAsk(Local) \/ NetworkSearchAnswer
    <3>1. \/ \E q \in Queries \cup {NoQuery} : Typed(q, NoRows)
          \/ \E local : SearchAsk(local)
          \/ \E s \in searches : \E lost : SearchDone(s, FoundHere(s, lost)) /\ Lose(lost, late)
      BY <2>5 DEF NetworkSearchEffect, NetworkSearchAnswer
    <3> QED
      BY <3>1, OfQuerySearched
  <2>6. ~NetworkSearchFails /\ ~OthersAct /\ ~NetworkLoadFails
    BY DEF NetworkSearchFails, OthersAct, NetworkLoadFails
  <2> QED
    BY <2>1, <2>2, <2>3, <2>4, <2>5, <2>6 DEF NetworkNext
<1>3. CASE page = "home"
  <2>1. HomeNext
    BY <1>3 DEF ListsNext
  <2>2. CASE PartArrives \/ PartFails \/ HomeDepthChosen \/ HomeClicked \/ HomeCallFailed
    <3>1. ~late /\ UNCHANGED <<rows, query, searches, timer>>
      <4>1. CASE PartArrives
        BY <4>1 DEF PartArrives, search
      <4>2. CASE PartFails
        BY <4>2 DEF PartFails, search
      <4>3. CASE HomeDepthChosen
        BY <4>3 DEF HomeDepthChosen, search
      <4>4. CASE HomeClicked
        BY <4>4 DEF HomeClicked, search
      <4>5. CASE HomeCallFailed
        BY <4>5 DEF HomeCallFailed, search
      <4> QED
        BY <2>2, <4>1, <4>2, <4>3, <4>4, <4>5
    <3> QED
      BY <3>1, OfQueryKept
  <2>3. CASE CallServed
    BY <2>3, ServedSearches, OfQueryKept
  <2>4. CASE HomeCallDone
    <3>1. PICK c \in calls : ~late /\ UNCHANGED <<query, searches, timer>> /\ rows' = RowPatch(c)
      BY <2>4 DEF HomeCallDone
    <3> QED
      BY <3>1, PatchDomain, OfQueryKept
  <2>5. CASE HomeSearchEffect \/ SearchAsk(0) \/ HomeSearchAnswer
    <3>1. \/ \E q \in Queries \cup {NoQuery} : Typed(q, NoRows)
          \/ \E local : SearchAsk(local)
          \/ \E s \in searches : \E lost : SearchDone(s, Found(s, lost)) /\ Lose(lost, late)
      BY <2>5 DEF HomeSearchEffect, HomeSearchAnswer
    <3> QED
      BY <3>1, OfQuerySearched
  <2>6. ~HomeSearchFails /\ ~OthersAct
    BY DEF HomeSearchFails, OthersAct
  <2> QED
    BY <2>1, <2>2, <2>3, <2>4, <2>5, <2>6 DEF HomeNext
<1> QED
  BY <1>1, <1>2, <1>3 DEF ListsNext

-------------------------------------------------------------------------------
(* The rows to come: what an answer makes of a row.                        *)

PatchedRow(row, p, c) ==
  CASE c.op = "send" /\ p = c.p -> [relation |-> "outgoing_request", id |-> c.id]
    [] c.op = "accept" /\ row.id = c.id -> [relation |-> "direct_friend", id |-> c.id]
    [] c.op \in {"decline", "cancel"} /\ row.id = c.id -> [relation |-> "none", id |-> 0]
    [] OTHER -> row
Comes(row, p, flights, kind) ==
  /\ (\A c \in flights : c.p = p => c.pc # "ok") => Kind(row) = kind
  /\ \A c \in flights : c.p = p /\ c.pc = "ok" =>
       c.op \in {"remove", "block", "unblock"} \/ Kind(PatchedRow(row, p, c)) = kind

LEMMA PatchRow ==
  ASSUME RowsShaped, NEW c \in calls, NEW p \in DOMAIN rows
  PROVE  Patch(c)[p] = PatchedRow(rows[p], p, c)
<1>1. PICK row : row = rows[p]
  OBVIOUS
<1>2. row = [relation |-> row.relation, id |-> row.id]
  BY <1>1 DEF RowsShaped, RowShape
<1>3. CASE page = "home"
  <2>1. c.op \in {"send", "accept", "decline", "cancel"}
    BY <1>3 DEF RowsShaped
  <2>2. [row EXCEPT !.relation = "direct_friend"] = [relation |-> "direct_friend", id |-> row.id]
    BY <1>2
  <2>3. RowPatch(c)[p] =
          IF c.op = "send" /\ p = c.p THEN [relation |-> "outgoing_request", id |-> c.id]
          ELSE IF c.op = "send" \/ row.id # c.id THEN row
          ELSE IF c.op = "accept" THEN [row EXCEPT !.relation = "direct_friend"]
          ELSE [relation |-> "none", id |-> 0]
    BY <1>1 DEF RowPatch
  <2>4. Patch(c)[p] = RowPatch(c)[p]
    BY <1>3 DEF Patch
  <2> QED
    BY <1>1, <2>1, <2>2, <2>3, <2>4 DEF PatchedRow
<1>4. CASE page # "home"
  <2>1. Patch(c) = Patched(c)
    BY <1>4 DEF Patch
  <2>2. \A relation, id : PatchedById(c.id, relation, id)[p] = IF row.id = c.id THEN [relation |-> relation, id |-> id] ELSE row
    BY <1>1 DEF PatchedById
  <2>3. CASE c.op = "send"
    BY <1>1, <2>1, <2>3 DEF Patched, PatchedRow
  <2>4. CASE c.op = "accept"
    BY <1>1, <2>1, <2>2, <2>4 DEF Patched, PatchedRow
  <2>5. CASE c.op \in {"decline", "cancel"}
    BY <1>1, <2>1, <2>2, <2>5 DEF Patched, PatchedRow
  <2>6. CASE c.op \notin {"send", "accept", "decline", "cancel"}
    BY <1>1, <2>1, <2>6 DEF Patched, PatchedRow
  <2> QED
    BY <2>3, <2>4, <2>5, <2>6
<1> QED
  BY <1>3, <1>4

LEMMA ComesNow ==
  ASSUME RowsShaped, ServerInv, NEW p \in DOMAIN rows
  PROVE  RowToCome(p) <=> Comes(rows[p], p, calls, KindNow(p))
<1>1. p \in People /\ Kind(RowNow(p)) = KindNow(p)
  BY RowOfNow DEF RowsShaped
<1>2. \A c \in calls : Patch(c)[p] = PatchedRow(rows[p], p, c)
  BY PatchRow
<1> QED
  BY <1>1, <1>2 DEF RowToCome, RowIsNow, Comes

LEMMA ComesAlways ==
  (\A q : RowsShaped /\ ServerInv /\ q \in DOMAIN rows => (RowToCome(q) <=> Comes(rows[q], q, calls, KindNow(q))))'
<1>1. \A q : RowsShaped /\ ServerInv /\ q \in DOMAIN rows => (RowToCome(q) <=> Comes(rows[q], q, calls, KindNow(q)))
  BY ComesNow
<1> QED
  BY <1>1, PTL

LEMMA ComesThen ==
  ASSUME RowsShaped', ServerInv', NEW p \in DOMAIN rows'
  PROVE  RowToCome(p)' <=> Comes(rows'[p], p, calls', KindNow(p)')
<1>1. (\A q : RowsShaped /\ ServerInv /\ q \in DOMAIN rows => (RowToCome(q) <=> Comes(rows[q], q, calls, KindNow(q))))'
  BY ComesAlways
<1>2. RowToCome(p)' <=> Comes(rows[p], p, calls, KindNow(p))'
  BY <1>1
<1>3. Comes(rows[p], p, calls, KindNow(p))' <=> Comes(rows'[p], p, calls', KindNow(p)')
  BY DEF Comes, Kind, PatchedRow
<1> QED
  BY <1>2, <1>3

\* Where no answer comes, the rows wait for what they waited for.
LEMMA KindSame ==
  ASSUME UNCHANGED server, NEW p
  PROVE  KindNow(p)' = KindNow(p)
BY DEF server, KindNow

LEMMA StandsKept ==
  ASSUME AnswersStand, UNCHANGED server,
         \A c \in calls' : c.pc = "ok" => c \in calls,
         \A c, d \in calls' : c.p = d.p => c = d
  PROVE  AnswersStand'
BY DEF AnswersStand, server

LEMMA ToComeKept ==
  ASSUME RowsToCome, RowsShaped, ServerInv, RowsShaped', ServerInv', UNCHANGED <<server, rows, timer, searches>>,
         \A c : c.pc = "ok" => (c \in calls' <=> c \in calls)
  PROVE  RowsToCome'
<1>1. CASE timer
  BY <1>1 DEF RowsToCome
<1>2. CASE \E s \in searches : searches = {s} /\ Fresh(s)
  <2>1. PICK s \in searches : searches = {s} /\ Fresh(s)
    BY <1>2
  <2>2. Fresh(s)'
    BY <2>1, StandsStill
  <2> QED
    BY <2>1, <2>2 DEF RowsToCome
<1>3. CASE searches = {} /\ \A p \in DOMAIN rows : RowToCome(p)
  <2>1. ASSUME NEW p \in DOMAIN rows'
        PROVE  RowToCome(p)'
    <3>1. Comes(rows[p], p, calls, KindNow(p))
      BY <1>3, <2>1, ComesNow
    <3>2. KindNow(p)' = KindNow(p)
      BY KindSame
    <3>3. Comes(rows'[p], p, calls', KindNow(p)')
      BY <3>1, <3>2 DEF Comes
    <3> QED
      BY <2>1, <3>3, ComesThen
  <2> QED
    BY <1>3, <2>1 DEF RowsToCome
<1> QED
  BY <1>1, <1>2, <1>3 DEF RowsToCome

\* A call that the server carries out: the answer to come patches the row.
LEMMA PatchServed ==
  ASSUME ServerInv, ShutApart, KnownApart, NEW c \in calls, c.op \in Operations, c.p \in People, Accepted(c.op, c.p, c.id),
         NEW k, k.op = c.op, k.p = c.p, k.id = IF c.op = "send" THEN issued + 1 ELSE c.id,
         NEW row, RowShape(row), Kind(row) = KindNow(c.p)
  PROVE  c.op \in {"remove", "block", "unblock"} \/ Kind(PatchedRow(row, c.p, k)) = KindNow(c.p)'
<1>1. /\ c.op = "send" => link'[c.p] = "outgoing" /\ ticket'[c.p] = issued + 1
      /\ c.op \in {"accept", "decline", "cancel"} =>
              /\ c.p \in People /\ c.id # 0 /\ ticket[c.p] = c.id /\ link[c.p] \in {"incoming", "outgoing"}
              /\ ticket'[c.p] = 0 /\ link'[c.p] = IF c.op = "accept" THEN "friend" ELSE "none"
              /\ c.op = "accept" => link[c.p] = "incoming"
              /\ c.p \in shut' <=> c.p \in shut
  BY CallTouches
<1>2. issued + 1 # 0
  BY DEF ServerInv
<1>3. CASE c.op = "send"
  <2>1. PatchedRow(row, c.p, k) = [relation |-> "outgoing_request", id |-> issued + 1]
    BY <1>3 DEF PatchedRow
  <2>2. KindNow(c.p)' = [relation |-> "outgoing_request", id |-> issued + 1]
    BY <1>1, <1>2, <1>3 DEF KindNow
  <2>3. PICK n : n = issued + 1
    OBVIOUS
  <2> QED
    BY <2>1, <2>2, <2>3 DEF Kind
<1>4. CASE c.op \in {"accept", "decline", "cancel"}
  <2>1. PICK relation \in {"incoming_request", "outgoing_request"} : KindNow(c.p) = [relation |-> relation, id |-> c.id]
    BY <1>1, <1>4 DEF KindNow
  <2>2. row.id = c.id
    BY <2>1, KindOf
  <2>3. CASE c.op = "accept"
    <3>1. PatchedRow(row, c.p, k) = [relation |-> "direct_friend", id |-> c.id]
      BY <2>2, <2>3 DEF PatchedRow
    <3>2. KindNow(c.p)' = [relation |-> "direct_friend", id |-> 0]
      BY <1>1, <2>3 DEF KindNow
    <3> QED
      BY <3>1, <3>2 DEF Kind
  <2>4. CASE c.op \in {"decline", "cancel"}
    <3>1. PatchedRow(row, c.p, k) = [relation |-> "none", id |-> 0]
      BY <2>2, <2>4 DEF PatchedRow
    <3>2. c.p \notin shut'
      BY <1>1, <1>4 DEF ShutApart
    <3>3. KindNow(c.p)' = [relation |-> "none", id |-> 0]
      BY <1>1, <2>4, <3>2 DEF KindNow
    <3> QED
      BY <3>1, <3>3 DEF Kind
  <2> QED
    BY <1>4, <2>3, <2>4
<1> QED
  BY <1>3, <1>4 DEF Operations

LEMMA StandServed ==
  ASSUME ServerInv, KnownApart, AnswersStand, NEW c \in calls, c.op \in Operations, c.pc = "asked",
         Accepted(c.op, c.p, c.id), NEW k, calls' = (calls \ {c}) \cup {k}, k.op = c.op, k.p = c.p,
         k.id = IF c.op = "send" THEN issued + 1 ELSE c.id
  PROVE  AnswersStand'
<1>1. \A d, e \in calls' : d.p = e.p => d = e
  BY DEF AnswersStand
<1>2. \A q \in People : ticket'[q] \in {0, ticket[q]} \/ ticket'[q] = issued + 1
  BY CallTouches
<1>3. \A d \in calls : d.id \in 0..issued
  <2>1. \A d \in calls : <<d.p, d.id>> \in Known
    BY KnownParts
  <2> QED
    BY <2>1 DEF KnownApart
<1>4. ASSUME NEW d \in calls \ {c}, d.pc = "ok"
      PROVE  /\ d.op = "send" /\ d.p \in People => link'[d.p] = "outgoing" /\ ticket'[d.p] = d.id
             /\ d.op \in {"accept", "decline", "cancel"} => d.id # 0 /\ \A p \in People : ticket'[p] # d.id
  <2>1. d.p # c.p
    BY <1>4 DEF AnswersStand
  <2>2. d.p \in People => Untouched(d.p)
    BY <2>1, CallTouches
  <2>3. d.id # issued + 1
    BY <1>3, <1>4 DEF ServerInv
  <2> QED
    BY <1>2, <1>4, <2>2, <2>3 DEF AnswersStand, Untouched
<1>5. /\ k.op = "send" /\ k.p \in People => link'[k.p] = "outgoing" /\ ticket'[k.p] = k.id
      /\ k.op \in {"accept", "decline", "cancel"} => k.id # 0 /\ \A p \in People : ticket'[p] # k.id
  <2>1. CASE k.op = "send"
    BY <2>1, CallTouches
  <2>2. CASE k.op \in {"accept", "decline", "cancel"}
    <3>1. c.p \in People /\ c.id # 0 /\ ticket[c.p] = c.id /\ ticket'[c.p] = 0
      BY <2>2, CallTouches
    <3>2. \A p \in People : p # c.p => ticket'[p] = ticket[p]
      BY CallTouches DEF Untouched
    <3>3. \A p \in People : p # c.p => ticket[c.p] # ticket[p]
      BY <3>1 DEF ServerInv
    <3> QED
      BY <2>2, <3>1, <3>2, <3>3
  <2> QED
    BY <2>1, <2>2
<1>6. \A d \in calls' : d = k \/ d \in calls \ {c}
  OBVIOUS
<1>7. \A d \in calls' : d.pc = "ok" =>
        /\ d.op = "send" /\ d.p \in People => link'[d.p] = "outgoing" /\ ticket'[d.p] = d.id
        /\ d.op \in {"accept", "decline", "cancel"} => d.id # 0 /\ \A p \in People : ticket'[p] # d.id
  BY <1>4, <1>5, <1>6
<1> QED
  BY <1>1, <1>7 DEF AnswersStand

LEMMA ToComeServed ==
  ASSUME ListsInv, BusyInv, RowsShaped, RowsShaped', ServerInv', KnownApart, AnswersStand, RowsToCome, CallServed, ~late'
  PROVE  AnswersStand' /\ RowsToCome'
<1>1. PICK c, k :
           /\ c \in calls
           /\ c.pc = "asked" /\ calls' = (calls \ {c}) \cup {k} /\ AskShape(k) /\ k.op = c.op /\ k.p = c.p
           /\ k.id = IF k.pc = "ok" /\ c.op = "send" THEN issued + 1 ELSE c.id
           /\ \/ k.pc = "ok" /\ Accepted(c.op, c.p, c.id) /\ Straddled /\ UNCHANGED drift
                 /\ late' = (late \/ searches # {})
              \/ k.pc = "failed" /\ Accepted(c.op, c.p, c.id) /\ Straddled /\ drift' = TRUE /\ late' = TRUE
              \/ k.pc = "failed" /\ UNCHANGED <<server, loads, searches, drift, late>>
  BY ServedOutcome
<1>2. ServerInv /\ ShutApart /\ c.op \in Operations /\ UNCHANGED <<rows, timer, searches>>
  BY <1>1, ServedSearches DEF ListsInv, RowsShaped
<1>3. \A d \in calls : d.p = c.p => d = c
  BY <1>1 DEF AnswersStand
<1>4. CASE k.pc = "failed" /\ UNCHANGED server
  <2>1. \A d : d.pc = "ok" => (d \in calls' <=> d \in calls)
    BY <1>1, <1>4
  <2>2. \A d, e \in calls' : d.p = e.p => d = e
    BY <1>1, <1>3 DEF AnswersStand
  <2> QED
    BY <1>2, <1>4, <2>1, <2>2, StandsKept, ToComeKept
<1>5. CASE k.pc = "ok" /\ Accepted(c.op, c.p, c.id) /\ searches = {}
  <2>1. AnswersStand'
    BY <1>1, <1>2, <1>5, StandServed
  <2>2. CASE timer
    BY <1>2, <2>1, <2>2 DEF RowsToCome
  <2>3. ASSUME ~timer, NEW p \in DOMAIN rows'
        PROVE  RowToCome(p)'
    <3>1. p \in People /\ RowShape(rows[p]) /\ p \in DOMAIN rows
      BY <1>2, <2>3 DEF RowsShaped
    <3>2. Comes(rows[p], p, calls, KindNow(p))
      BY <1>2, <1>5, <2>3, <3>1, ComesNow DEF RowsToCome
    <3>3. CASE p # c.p
      <4>1. KindNow(p)' = KindNow(p)
        BY <1>1, <1>2, <1>5, <3>1, <3>3, CallTouches DEF Untouched, KindNow
      <4>2. \A d : d.p = p => (d \in calls' <=> d \in calls)
        BY <1>1, <3>3
      <4>3. Comes(rows[p], p, calls', KindNow(p))
        BY <3>2, <4>2 DEF Comes
      <4> QED
        BY <1>2, <2>3, <4>1, <4>3, ComesThen
    <3>4. CASE p = c.p
      <4>1. \A d \in calls' : d.p = p => d = k
        BY <1>1, <1>3, <3>4
      <4>2. Kind(rows[p]) = KindNow(p)
        BY <1>1, <1>3, <3>2, <3>4 DEF Comes
      <4>3. k.op \in {"remove", "block", "unblock"} \/ Kind(PatchedRow(rows[p], p, k)) = KindNow(p)'
        BY <1>1, <1>2, <1>5, <3>1, <3>4, <4>2, PatchServed
      <4>4. Comes(rows[p], p, calls', KindNow(p)')
        BY <1>1, <1>5, <3>4, <4>1, <4>3 DEF Comes
      <4> QED
        BY <1>2, <2>3, <4>4, ComesThen
    <3> QED
      BY <3>3, <3>4
  <2> QED
    BY <1>2, <1>5, <2>1, <2>2, <2>3 DEF RowsToCome
<1> QED
  BY <1>1, <1>4, <1>5

\* An answer patches the row of its person, and of no other.
LEMMA ToComeAnswered ==
  ASSUME ServerInv, RowsShaped, RowsShaped', ServerInv', KnownApart, AnswersStand, RowsToCome,
         NEW c \in calls, c.pc = "ok", c.op \in {"send", "accept", "decline", "cancel"},
         calls' = calls \ {c}, rows' = Patch(c), searches = {}, UNCHANGED <<server, timer, searches>>
  PROVE  AnswersStand' /\ RowsToCome'
<1>1. AnswersStand'
  BY StandsKept DEF AnswersStand
<1>2. CASE timer
  BY <1>1, <1>2 DEF RowsToCome
<1>3. ASSUME ~timer, NEW p \in DOMAIN rows'
      PROVE  RowToCome(p)'
  <2>1. p \in DOMAIN rows
    BY <1>3, PatchDomain DEF Patch
  <2>2. Comes(rows[p], p, calls, KindNow(p)) /\ rows'[p] = PatchedRow(rows[p], p, c)
    BY <1>3, <2>1, ComesNow, PatchRow DEF RowsToCome
  <2>3. KindNow(p)' = KindNow(p)
    BY KindSame
  <2>4. CASE p = c.p
    <3>1. \A d \in calls' : d.p # p
      BY <2>4 DEF AnswersStand
    <3>2. Kind(rows'[p]) = KindNow(p)
      BY <2>2, <2>4 DEF Comes
    <3>3. Comes(rows'[p], p, calls', KindNow(p))
      BY <3>1, <3>2 DEF Comes
    <3> QED
      BY <1>3, <2>3, <3>3, ComesThen
  <2>5. CASE p # c.p
    <3>1. <<p, rows[p].id>> \in Known /\ <<c.p, c.id>> \in Known
      BY <2>1, KnownParts
    <3>2. \A k, m \in Known : k[2] # 0 /\ k[2] = m[2] => k[1] = m[1]
      BY DEF KnownApart
    <3>3. c.op \in {"accept", "decline", "cancel"} => rows[p].id # c.id
      BY <2>5, <3>1, <3>2 DEF AnswersStand
    <3>4. rows'[p] = rows[p]
      BY <2>2, <2>5, <3>3 DEF PatchedRow
    <3>5. \A d : d.p = p => (d \in calls' <=> d \in calls)
      BY <2>5
    <3>6. Comes(rows'[p], p, calls', KindNow(p))
      BY <2>2, <3>4, <3>5 DEF Comes
    <3> QED
      BY <1>3, <2>3, <3>6, ComesThen
  <2> QED
    BY <2>4, <2>5
<1> QED
  BY <1>1, <1>2, <1>3 DEF RowsToCome

\* What a fresh search finds stands, and so does what the answers still make of it.
LEMMA FoundNow ==
  ASSUME NEW s, s.parts = Parts, Fresh(s)
  PROVE  Answer(s, {}) = [part \in Parts |-> ReadNow(part)]
<1>1. ASSUME NEW part \in Parts
      PROVE  (IF part \in DOMAIN s.got THEN s.got[part] ELSE ReadNow(part)) = ReadNow(part)
  BY DEF Fresh
<1> QED
  BY <1>1 DEF Answer

LEMMA PatchFound ==
  ASSUME ServerInv, AnswersStand, NEW p \in People, NEW row, RowShape(row), Kind(row) = KindNow(p), row.id \in {0, ticket[p]}
  PROVE  Comes(row, p, calls, KindNow(p))
<1>1. ASSUME NEW c \in calls, c.p = p, c.pc = "ok", c.op \notin {"remove", "block", "unblock"}
      PROVE  Kind(PatchedRow(row, p, c)) = KindNow(p)
  <2>1. CASE c.op = "send"
    <3>1. link[p] = "outgoing" /\ ticket[p] = c.id /\ ticket[p] # 0
      BY <1>1, <2>1 DEF AnswersStand, ServerInv
    <3>2. PatchedRow(row, p, c) = [relation |-> "outgoing_request", id |-> c.id]
      BY <1>1, <2>1 DEF PatchedRow
    <3>3. Kind(PatchedRow(row, p, c)) = [relation |-> "outgoing_request", id |-> c.id]
      BY <3>2 DEF Kind
    <3> QED
      BY <3>1, <3>3 DEF KindNow
  <2>2. CASE c.op \in {"accept", "decline", "cancel"}
    <3>1. row.id # c.id
      BY <1>1, <2>2 DEF AnswersStand
    <3> QED
      BY <2>2, <3>1 DEF PatchedRow
  <2>3. CASE c.op \notin {"send", "accept", "decline", "cancel"}
    BY <2>3 DEF PatchedRow
  <2> QED
    BY <2>1, <2>2, <2>3
<1> QED
  BY <1>1 DEF Comes

LEMMA ToComeSearched ==
  ASSUME PeoplePageAssumption, ServerInv, RowsShaped, RowsShaped', ServerInv', ~late',
         ~late => AnswersStand /\ RowsToCome,
         \/ \E q \in Queries \cup {NoQuery} : Typed(q, NoRows)
         \/ SearchAsk(0)
         \/ \E s \in searches : \E lost : SearchDone(s, Found(s, lost)) /\ Lose(lost, late)
  PROVE  AnswersStand' /\ RowsToCome'
<1>1. UNCHANGED <<server, calls>>
  BY DEF Typed, SearchAsk, SearchDone
<1>2. ~late \/ calls = {}
  BY DEF Typed, SearchAsk, Lose
<1>3. AnswersStand'
  BY <1>1, <1>2, StandsKept DEF AnswersStand
<1>4. CASE \E q \in Queries \cup {NoQuery} : Typed(q, NoRows)
  <2>1. PICK q \in Queries \cup {NoQuery} : Typed(q, NoRows)
    BY <1>4
  <2>2. CASE q # NoQuery
    BY <1>3, <2>1, <2>2 DEF Typed, RowsToCome
  <2>3. CASE q = NoQuery
    <3>1. searches' = {} /\ DOMAIN rows' = {}
      BY <2>1, <2>3 DEF Typed, NoRows
    <3>2. \A p \in DOMAIN rows' : RowToCome(p)'
      BY <3>1
    <3> QED
      BY <1>3, <3>1, <3>2 DEF RowsToCome
  <2> QED
    BY <2>2, <2>3
<1>5. CASE SearchAsk(0)
  <2>1. PICK f : f = Flight(query, Parts, 0)
    OBVIOUS
  <2>2. searches' = {f} /\ DOMAIN f.got = {}
    BY <1>5, <2>1, FlightNew DEF SearchAsk
  <2>3. Fresh(f)'
    BY <2>2 DEF Fresh
  <2> QED
    BY <1>3, <2>2, <2>3 DEF RowsToCome
<1>6. CASE \E s \in searches : \E lost : SearchDone(s, Found(s, lost)) /\ Lose(lost, late)
  <2>1. PICK s, lost : s \in searches /\ SearchDone(s, Found(s, lost)) /\ Lose(lost, late)
    BY <1>6
  <2>2. ~late /\ lost = {} /\ searches' = searches \ {s} /\ UNCHANGED timer /\ rows' = Found(s, {})
    BY <2>1 DEF SearchDone, Lose
  <2>3. CASE timer
    BY <1>3, <2>2, <2>3 DEF RowsToCome
  <2>4. CASE ~timer
    <3>1. searches = {s} /\ Fresh(s) /\ s.parts = Parts /\ s.for \in Queries
      BY <2>1, <2>2, <2>4 DEF RowsToCome, RowsShaped
    <3>2. Answer(s, {}) = [part \in Parts |-> ReadNow(part)]
      BY <3>1, FoundNow
    <3>3. ASSUME NEW p \in DOMAIN rows'
          PROVE  RowToCome(p)'
      <4>1. p \in Match[s.for] /\ p \in People
        BY <2>2, <3>1, <3>3, FoundShaped
      <4>2. rows'[p] = RowNow(p)
        BY <2>2, <3>2, <4>1 DEF Found, RowNow
      <4>3. Comes(rows'[p], p, calls, KindNow(p))
        BY <2>2, <4>1, <4>2, RowOfNow, PatchFound
      <4>4. KindNow(p)' = KindNow(p)
        BY <1>1, KindSame
      <4> QED
        BY <1>1, <3>3, <4>3, <4>4, ComesThen
    <3> QED
      BY <1>3, <2>2, <3>1, <3>3 DEF RowsToCome
  <2> QED
    BY <2>3, <2>4
<1> QED
  BY <1>4, <1>5, <1>6

\* A click on a person whom no call is about yet.
LEMMA ToComeClicked ==
  ASSUME ServerInv, RowsShaped, RowsShaped', ServerInv', AnswersStand, RowsToCome,
         NEW b, Click(b), ~Overlaps(b), UNCHANGED <<server, rows, timer, searches>>
  PROVE  AnswersStand' /\ RowsToCome'
<1>1. PICK k : k = [op |-> b.op, p |-> b.p, id |-> b.id, pc |-> "asked", depth |-> depth]
  OBVIOUS
<1>2. calls' = calls \cup {k} /\ k.p = b.p /\ k.pc # "ok"
  BY <1>1 DEF Click
<1>3. \A c, d \in calls' : c.p = d.p => c = d
  BY <1>2 DEF AnswersStand, Overlaps
<1>4. \A c : c.pc = "ok" => (c \in calls' <=> c \in calls)
  BY <1>2
<1> QED
  BY <1>3, <1>4, StandsKept, ToComeKept

LEMMA ToComeStill ==
  ASSUME ServerInv, RowsShaped, RowsShaped', ServerInv', AnswersStand, RowsToCome,
         UNCHANGED <<server, rows, timer, searches>>,
         \/ calls' = calls
         \/ \E c \in calls : c.pc = "failed" /\ calls' = calls \ {c}
  PROVE  AnswersStand' /\ RowsToCome'
<1>1. \A c, d \in calls' : c.p = d.p => c = d
  BY DEF AnswersStand
<1>2. \A c : c.pc = "ok" => (c \in calls' <=> c \in calls)
  OBVIOUS
<1> QED
  BY <1>1, <1>2, StandsKept, ToComeKept

LEMMA ToComeRequests ==
  ASSUME PeoplePageAssumption, BusyInv, ListsInv, RowsInv, RowsShaped', ServerInv', ~late', RequestsNext, page = "requests"
  PROVE  AnswersStand' /\ RowsToCome'
<1>1. ServerInv /\ RowsShaped /\ KnownApart /\ (~late => AnswersStand /\ RowsToCome)
  BY DEF ListsInv, RowsInv
<1>2. CASE LoadAnswers \/ LoadApplies \/ LoadEnds \/ CallFailed
  <2>1. /\ ~late /\ UNCHANGED <<server, rows, timer, searches>>
        /\ calls' = calls \/ \E c \in calls : c.pc = "failed" /\ calls' = calls \ {c}
    <3>1. CASE LoadAnswers
      BY <3>1 DEF LoadAnswers, search
    <3>2. CASE LoadApplies
      BY <3>2 DEF LoadApplies, search
    <3>3. CASE LoadEnds
      BY <3>3 DEF LoadEnds, search
    <3>4. CASE CallFailed
      BY <3>4 DEF CallFailed, search
    <3> QED
      BY <1>2, <3>1, <3>2, <3>3, <3>4
  <2> QED
    BY <1>1, <2>1, ToComeStill
<1>3. CASE Clicked
  <2>1. PICK b : Click(b) /\ ~late /\ ~Overlaps(b) /\ UNCHANGED <<server, rows, timer, searches>>
    BY <1>3 DEF Clicked, search
  <2> QED
    BY <1>1, <2>1, ToComeClicked
<1>4. CASE CallServed
  BY <1>1, <1>4, ServedSearches, ToComeServed
<1>5. CASE CallDone
  <2>1. PICK c \in calls :
          /\ c.pc = "ok" /\ calls' = calls \ {c} /\ rows' = Patched(c) /\ UNCHANGED <<server, timer, searches>>
          /\ late' = (late \/ searches # {} \/ c.op \in {"remove", "block", "unblock"})
    BY <1>5 DEF CallDone
  <2>2. ~late /\ searches = {} /\ c.op \in {"send", "accept", "decline", "cancel"}
    BY <2>1 DEF ListsInv, Operations
  <2>3. rows' = Patch(c)
    BY <2>1 DEF Patch
  <2> QED
    BY <1>1, <2>1, <2>2, <2>3, ToComeAnswered
<1>6. CASE SearchEffect \/ SearchAsk(0) \/ SearchAnswer
  <2>1. \/ \E q \in Queries \cup {NoQuery} : Typed(q, NoRows)
        \/ SearchAsk(0)
        \/ \E s \in searches : \E lost : SearchDone(s, Found(s, lost)) /\ Lose(lost, late)
    BY <1>6 DEF SearchEffect, SearchAnswer
  <2> QED
    BY <1>1, <2>1, ToComeSearched
<1>7. ~SearchFails /\ ~OthersAct
  BY DEF SearchFails, OthersAct
<1> QED
  BY <1>2, <1>3, <1>4, <1>5, <1>6, <1>7 DEF RequestsNext

LEMMA ToComeHome ==
  ASSUME PeoplePageAssumption, BusyInv, ListsInv, RowsInv, RowsShaped', ServerInv', ~late', HomeNext, page = "home"
  PROVE  AnswersStand' /\ RowsToCome'
<1>1. ServerInv /\ RowsShaped /\ KnownApart /\ (~late => AnswersStand /\ RowsToCome)
  BY DEF ListsInv, RowsInv
<1>2. CASE PartArrives \/ PartFails \/ HomeDepthChosen \/ HomeCallFailed
  <2>1. /\ ~late /\ UNCHANGED <<server, rows, timer, searches>>
        /\ calls' = calls \/ \E c \in calls : c.pc = "failed" /\ calls' = calls \ {c}
    <3>1. CASE PartArrives
      BY <3>1 DEF PartArrives, search
    <3>2. CASE PartFails
      BY <3>2 DEF PartFails, search
    <3>3. CASE HomeDepthChosen
      BY <3>3 DEF HomeDepthChosen, search
    <3>4. CASE HomeCallFailed
      BY <3>4 DEF HomeCallFailed, search
    <3> QED
      BY <1>2, <3>1, <3>2, <3>3, <3>4
  <2> QED
    BY <1>1, <2>1, ToComeStill
<1>3. CASE HomeClicked
  <2>1. PICK b : Click(b) /\ ~late /\ ~Overlaps(b) /\ UNCHANGED <<server, rows, timer, searches>>
    BY <1>3 DEF HomeClicked, search
  <2> QED
    BY <1>1, <2>1, ToComeClicked
<1>4. CASE CallServed
  BY <1>1, <1>4, ServedSearches, ToComeServed
<1>5. CASE HomeCallDone
  <2>1. PICK c \in calls :
          /\ c.pc = "ok" /\ calls' = calls \ {c} /\ rows' = RowPatch(c) /\ UNCHANGED <<server, timer, searches>>
          /\ late' = (late \/ searches # {})
    BY <1>5 DEF HomeCallDone
  <2>2. ~late /\ searches = {} /\ c.op \in {"send", "accept", "decline", "cancel"}
    BY <1>1, <2>1 DEF RowsShaped
  <2>3. rows' = Patch(c)
    BY <2>1 DEF Patch
  <2> QED
    BY <1>1, <2>1, <2>2, <2>3, ToComeAnswered
<1>6. CASE HomeSearchEffect \/ SearchAsk(0) \/ HomeSearchAnswer
  <2>1. \/ \E q \in Queries \cup {NoQuery} : Typed(q, NoRows)
        \/ SearchAsk(0)
        \/ \E s \in searches : \E lost : SearchDone(s, Found(s, lost)) /\ Lose(lost, late)
    BY <1>6 DEF HomeSearchEffect, HomeSearchAnswer
  <2> QED
    BY <1>1, <2>1, ToComeSearched
<1>7. ~HomeSearchFails /\ ~OthersAct
  BY DEF HomeSearchFails, OthersAct
<1> QED
  BY <1>2, <1>3, <1>4, <1>5, <1>6, <1>7 DEF HomeNext

-------------------------------------------------------------------------------
(* The network page searches again.                                        *)

LEMMA AgainKept ==
  ASSUME RowsSearchedAgain, RowsShaped, ServerInv, ServerInv', UNCHANGED <<server, rows, timer, searches>>,
         Answering(Operations) => Answering(Operations)',
         \A l \in loads : l.for # "graph" => l \in loads'
  PROVE  RowsSearchedAgain'
<1>1. CASE Answering(Operations) \/ (\E l \in loads : l.for # "graph") \/ timer
  BY <1>1 DEF RowsSearchedAgain
<1>2. CASE \E s \in searches :
             searches = {s} /\ Fresh(s) /\ \A part \in NetworkParts \ {"graph"} : s.local[part] = ReadNow(part)
  <2>1. PICK s \in searches :
          searches = {s} /\ Fresh(s) /\ \A part \in NetworkParts \ {"graph"} : s.local[part] = ReadNow(part)
    BY <1>2
  <2>2. Fresh(s)' /\ \A part : ReadNow(part)' = ReadNow(part)
    BY <2>1, StandsStill, ReadsSame
  <2> QED
    BY <2>1, <2>2 DEF RowsSearchedAgain
<1>3. CASE searches = {} /\ \A p \in DOMAIN rows : RowIsNow(p, rows[p])
  <2>1. ASSUME NEW p \in DOMAIN rows'
        PROVE  RowIsNow(p, rows[p])'
    <3>1. p \in People /\ Kind(rows[p]) = Kind(RowNow(p))
      BY <1>3, <2>1 DEF RowsShaped, RowIsNow
    <3>2. Kind(RowNow(p)) = KindNow(p) /\ Kind(RowNow(p))' = KindNow(p)' /\ KindNow(p)' = KindNow(p)
      BY <3>1, RowOfNow, RowOfThen, KindSame
    <3>3. Kind(rows[p])' = Kind(rows'[p])
      BY DEF Kind
    <3> QED
      BY <3>1, <3>2, <3>3 DEF RowIsNow
  <2> QED
    BY <1>3, <2>1 DEF RowsSearchedAgain
<1> QED
  BY <1>1, <1>2, <1>3 DEF RowsSearchedAgain

LEMMA AgainDebounced ==
  ASSUME PeoplePageAssumption, RowsShaped, RowsOfQuery, UNCHANGED <<query, searches>>, Researched
  PROVE  RowsSearchedAgain'
<1>1. CASE query # NoQuery
  BY <1>1 DEF Researched, RowsSearchedAgain
<1>2. CASE query = NoQuery
  <2>1. searches = {}
    BY <1>2 DEF RowsShaped, RowsOfQuery, PeoplePageAssumption
  <2>2. DOMAIN rows' = {}
    BY <1>2 DEF Researched, NoRows
  <2>3. \A p \in DOMAIN rows' : RowIsNow(p, rows[p])'
    BY <2>2
  <2> QED
    BY <2>1, <2>3 DEF RowsSearchedAgain
<1> QED
  BY <1>1, <1>2

\* The lists of the page decide the same where they are as a read of now.
LEMMA HereIsNow ==
  ASSUME ServerInv, NEW local, NEW p \in People, RowNow(p).relation = "none",
         \A part \in NetworkParts \ {"graph"} : local[part] = ReadNow(part)
  PROVE  Kind(SearchRow(local, p)) = KindNow(p)
<1>1. local.friends = FriendsNow /\ local.requests = RequestsNow /\ local.blocks = shut
  BY DEF NetworkParts, ReadNow, BlocksNow
<1>2. Kind(RowNow(p)) = KindNow(p) /\ RowNow(p).relation \notin {"friend_of_friend", "direct_friend"}
  BY RowOfNow
<1>3. Kind(RowNow(p)) = RowNow(p)
  BY <1>2 DEF Kind
<1>4. link[p] # "friend" /\ ticket[p] = 0 /\ p \notin shut
  BY <1>2, <1>3 DEF KindNow
<1>5. PICK relation \in {"friend_of_friend", "none"} : SearchRow(local, p) = [relation |-> relation, id |-> 0]
  BY <1>1, <1>4 DEF SearchRow, FriendsNow, RequestsNow
<1>6. Kind(SearchRow(local, p)) = [relation |-> "none", id |-> 0]
  BY <1>5 DEF Kind
<1> QED
  BY <1>4, <1>6 DEF KindNow

LEMMA AgainSearched ==
  ASSUME PeoplePageAssumption, BusyInv, ServerInv, ServerInv', RowsShaped, ~late', ~drift, ~late => RowsSearchedAgain,
         NetworkFollows,
         \/ \E q \in Queries \cup {NoQuery} : Typed(q, NoRows)
         \/ SearchAsk(Local)
         \/ \E s \in searches : \E lost : SearchDone(s, FoundHere(s, lost)) /\ Lose(lost, late)
  PROVE  RowsSearchedAgain'
<1>1. UNCHANGED <<server, calls, loads>>
  BY DEF Typed, SearchAsk, SearchDone
<1>2. Answering(Operations) => Answering(Operations)'
  BY <1>1 DEF Answering
<1>3. CASE \E q \in Queries \cup {NoQuery} : Typed(q, NoRows)
  <2>1. PICK q \in Queries \cup {NoQuery} : Typed(q, NoRows)
    BY <1>3
  <2>2. CASE q # NoQuery
    BY <2>1, <2>2 DEF Typed, RowsSearchedAgain
  <2>3. CASE q = NoQuery
    <3>1. searches' = {} /\ DOMAIN rows' = {}
      BY <2>1, <2>3 DEF Typed, NoRows
    <3>2. \A p \in DOMAIN rows' : RowIsNow(p, rows[p])'
      BY <3>1
    <3> QED
      BY <3>1, <3>2 DEF RowsSearchedAgain
  <2> QED
    BY <2>2, <2>3
<1>4. CASE SearchAsk(Local)
  <2>1. PICK f : f = Flight(query, Parts, Local)
    OBVIOUS
  <2>2. searches' = {f} /\ DOMAIN f.got = {} /\ f.local = Local
    <3>1. PICK local : local = Local
      OBVIOUS
    <3>2. f = Flight(query, Parts, local) /\ SearchAsk(local)
      BY <1>4, <2>1, <3>1
    <3>3. searches' = {f}
      BY <3>2 DEF SearchAsk
    <3>4. DOMAIN f.got = {} /\ f.local = local
      BY <3>2, FlightNew
    <3> QED
      BY <3>1, <3>3, <3>4
  <2>3. Fresh(f)'
    BY <2>2 DEF Fresh
  <2>4. CASE Answering(Operations) \/ \E l \in loads : l.for # "graph"
    BY <1>1, <1>2, <2>4 DEF RowsSearchedAgain
  <2>5. CASE Shows(NetworkParts \ {"graph"})
    <3>1. \A part \in NetworkParts \ {"graph"} : Local[part] = shown[part]
      BY DEF Local, NetworkParts, Parts
    <3>2. \A part \in NetworkParts \ {"graph"} : Local[part] = ReadNow(part)'
      BY <1>1, <2>5, <3>1, ReadsSame DEF Shows
    <3>3. \A part \in NetworkParts \ {"graph"} : f.local[part] = ReadNow(part)'
      BY <2>2, <3>2
    <3> QED
      BY <2>2, <2>3, <3>3 DEF RowsSearchedAgain
  <2> QED
    BY <2>4, <2>5 DEF NetworkFollows
<1>5. CASE \E s \in searches : \E lost : SearchDone(s, FoundHere(s, lost)) /\ Lose(lost, late)
  <2>1. PICK s, lost : s \in searches /\ SearchDone(s, FoundHere(s, lost)) /\ Lose(lost, late)
    BY <1>5
  <2>2. ~late /\ lost = {} /\ searches' = searches \ {s} /\ UNCHANGED timer /\ rows' = FoundHere(s, {})
    BY <2>1 DEF SearchDone, Lose
  <2>3. CASE Answering(Operations) \/ (\E l \in loads : l.for # "graph") \/ timer
    BY <1>1, <1>2, <2>2, <2>3 DEF RowsSearchedAgain
  <2>4. CASE searches = {s} /\ Fresh(s) /\ \A part \in NetworkParts \ {"graph"} : s.local[part] = ReadNow(part)
    <3>1. s.parts = Parts /\ s.for \in Queries
      BY <2>1 DEF RowsShaped
    <3>2. Answer(s, {}) = [part \in Parts |-> ReadNow(part)]
      BY <2>4, <3>1, FoundNow
    <3>3. ASSUME NEW p \in DOMAIN rows'
          PROVE  RowIsNow(p, rows[p])'
      <4>1. p \in Match[s.for] /\ p \in People
        BY <2>2, <3>1, <3>3, FoundShaped
      <4>2. Found(s, {})[p] = RowNow(p)
        BY <3>2, <4>1 DEF Found, RowNow
      <4>3. rows'[p] = IF RowNow(p).relation = "none" THEN SearchRow(s.local, p) ELSE RowNow(p)
        BY <2>2, <4>1, <4>2 DEF FoundHere
      <4>4. Kind(rows'[p]) = KindNow(p)
        BY <2>4, <4>1, <4>3, HereIsNow, RowOfNow
      <4>5. KindNow(p)' = KindNow(p) /\ Kind(RowNow(p))' = KindNow(p)'
        BY <1>1, <4>1, KindSame, RowOfThen
      <4>6. Kind(rows[p])' = Kind(rows'[p])
        BY DEF Kind
      <4> QED
        BY <4>4, <4>5, <4>6 DEF RowIsNow
    <3> QED
      BY <2>2, <2>4, <3>3 DEF RowsSearchedAgain
  <2> QED
    BY <2>1, <2>2, <2>3, <2>4 DEF RowsSearchedAgain
<1> QED
  BY <1>3, <1>4, <1>5

LEMMA AgainNetwork ==
  ASSUME PeoplePageAssumption, BusyInv, ListsInv, RowsInv, ServerInv', ~late', ~drift', NetworkNext, page = "network"
  PROVE  RowsSearchedAgain'
<1>1. ServerInv /\ RowsShaped /\ (~late => RowsOfQuery /\ (~drift => RowsSearchedAgain)) /\ (~drift => NetworkFollows)
  BY DEF ListsInv, RowsInv
<1>2. CASE NetworkLoaded \/ GraphLoaded
  <2>1. ~late /\ UNCHANGED <<query, searches>> /\ Researched
    BY <1>2 DEF NetworkLoaded, GraphLoaded
  <2> QED
    BY <1>1, <2>1, AgainDebounced
<1>3. CASE DepthChosen \/ NetworkClicked \/ NetworkCallFailed
  <2>1. ~late /\ ~drift /\ UNCHANGED <<server, rows, timer, searches>> /\ loads \subseteq loads'
    <3>1. CASE DepthChosen
      BY <3>1 DEF DepthChosen, search
    <3>2. CASE NetworkClicked
      BY <3>2 DEF NetworkClicked, search
    <3>3. CASE NetworkCallFailed
      BY <3>3 DEF NetworkCallFailed, search
    <3> QED
      BY <1>3, <3>1, <3>2, <3>3
  <2>2. Answering(Operations) => Answering(Operations)'
    <3>1. CASE DepthChosen
      BY <3>1 DEF DepthChosen, Answering
    <3>2. CASE NetworkClicked
      BY <3>2 DEF NetworkClicked, Click, Answering
    <3>3. CASE NetworkCallFailed
      BY <3>3 DEF NetworkCallFailed, Answering
    <3> QED
      BY <1>3, <3>1, <3>2, <3>3
  <2> QED
    BY <1>1, <2>1, <2>2, AgainKept
<1>4. CASE CallServed
  <2>1. ~drift /\ ~late /\ UNCHANGED <<rows, timer, searches>>
    BY <1>4, ServedFollow, ServedSearches
  <2>2. CASE Answering(Operations)'
    BY <2>2 DEF RowsSearchedAgain
  <2>3. CASE UNCHANGED <<server, loads>> /\ \A ops : Answering(ops) => Answering(ops)'
    BY <1>1, <2>1, <2>3, AgainKept
  <2> QED
    BY <1>4, <2>2, <2>3, ServedFollow
<1>5. CASE NetworkCallDone
  <2>1. PICK for \in {"send", "action"}, c \in calls : StartLoad(for, NetworkParts, c.depth)
    BY <1>5 DEF NetworkCallDone
  <2>2. PICK f : f = Flight(for, NetworkParts, c.depth)
    OBVIOUS
  <2>3. f \in loads' /\ f.for # "graph"
    BY <2>1, <2>2, FlightNew DEF StartLoad
  <2> QED
    BY <2>3 DEF RowsSearchedAgain
<1>6. CASE NetworkSearchEffect \/ SearchAsk(Local) \/ NetworkSearchAnswer
  <2>1. \/ \E q \in Queries \cup {NoQuery} : Typed(q, NoRows)
        \/ SearchAsk(Local)
        \/ \E s \in searches : \E lost : SearchDone(s, FoundHere(s, lost)) /\ Lose(lost, late)
    BY <1>6 DEF NetworkSearchEffect, NetworkSearchAnswer
  <2>2. ~drift
    BY <2>1 DEF Typed, SearchAsk, SearchDone
  <2> QED
    BY <1>1, <2>1, <2>2, AgainSearched
<1>7. ~NetworkSearchFails /\ ~OthersAct /\ ~NetworkLoadFails
  BY DEF NetworkSearchFails, OthersAct, NetworkLoadFails
<1> QED
  BY <1>2, <1>3, <1>4, <1>5, <1>6, <1>7 DEF NetworkNext

-------------------------------------------------------------------------------
(* The rows: from the start to what a run checks.                          *)

LEMMA RowsStart ==
  ASSUME PeoplePageAssumption, ClientInit
  PROVE  RowsInv
<1>1. calls = {} /\ searches = {} /\ shut = {} /\ ServerInv
  BY ListsStart DEF ClientInit, InitLists, InitServer, ListsClosed, ListsInv
<1>2. \/ query = NoQuery /\ timer = FALSE /\ rows = NoRows
      \/ query \in Queries /\ timer = TRUE /\ rows = NoRows
      \/ query \in Queries /\ timer = FALSE /\ rows = [p \in Match[query] |-> RowNow(p)]
  BY DEF ClientInit, InitLists, NoSearch, InitSearch, ListsClosed
<1>3. NoQuery \notin Queries /\ (query \in Queries => Match[query] \subseteq People) /\ DOMAIN NoRows = {}
  BY DEF PeoplePageAssumption, NoRows
<1>4. \A p \in DOMAIN rows : p \in People /\ rows[p] = RowNow(p)
  BY <1>2, <1>3
<1>5. \/ loads = {} \/ \E for : loads = {Flight(for, LoadParts, depth)}
      \/ page # "requests" /\ \A l \in loads : \E for, parts : l = Flight(for, parts, depth)
  <2>1. loads = {} \/ (page = "requests" /\ Mounted) \/ (page = "network" /\ NetworkMounted) \/ (page = "home" /\ HomeMounted)
    BY DEF ClientInit, InitLists, ListsClosed, PeoplePages
  <2>2. NetworkMounted => \A l \in loads : \E for, parts : l = Flight(for, parts, depth)
    BY DEF NetworkMounted, GraphRead
  <2>3. HomeMounted => \A l \in loads : \E for, parts : l = Flight(for, parts, depth)
    BY DEF HomeMounted, Read
  <2>4. Mounted => \E for : loads = {Flight(for, LoadParts, depth)}
    BY DEF Mounted
  <2> QED
    BY <2>1, <2>2, <2>3, <2>4
<1>6. \A l \in loads : DOMAIN l.got = {} /\ l.step = 0 /\ (page = "requests" => l.parts = LoadParts)
  <2>1. \A for, parts : LET f == Flight(for, parts, depth)
                        IN  DOMAIN f.got = {} /\ f.step = 0 /\ f.parts = parts
    BY FlightNew
  <2> QED
    BY <1>5, <2>1
<1>7. RowsShaped
  <2>1. ShutApart
    BY <1>1 DEF ShutApart
  <2>2. \A p \in DOMAIN rows : p \in People /\ RowShape(rows[p])
    BY <1>1, <1>4, RowOfNow
  <2>3. \A l \in loads : ~(l.step > 0)
    BY <1>6
  <2> QED
    BY <1>1, <1>2, <1>3, <1>6, <2>1, <2>2, <2>3 DEF RowsShaped
<1>8. KnownApart
  <2>1. shown.requests \in {NoRequests, RequestsNow, Preview(RequestsNow)}
    <3>1. shown = Settled \/ shown = [part \in AllParts |-> EmptyPart(part)]
      BY DEF ClientInit, InitLists, Mounted, NetworkMounted, HomeMounted, ListsClosed, PeoplePages
    <3> QED
      BY <3>1 DEF Settled, AllParts, Parts, ReadNow, EmptyPart
  <2>2. \A q \in DOMAIN shown.requests : q \in People /\ shown.requests[q].id = ticket[q]
    <3>1. \A q \in DOMAIN RequestsNow : q \in People /\ RequestsNow[q].id = ticket[q]
      BY DEF RequestsNow
    <3>2. \A q \in DOMAIN Preview(RequestsNow) : q \in DOMAIN RequestsNow /\ Preview(RequestsNow)[q] = RequestsNow[q]
      BY DEF Preview
    <3>3. DOMAIN NoRequests = {}
      BY DEF NoRequests
    <3> QED
      BY <2>1, <3>1, <3>2, <3>3
  <2>3. \A k \in Known : k[2] # 0 => k[1] \in People /\ k[2] = ticket[k[1]]
    <3>1. SUFFICES ASSUME NEW k \in Known, k[2] # 0
                   PROVE  k[1] \in People /\ k[2] = ticket[k[1]]
      OBVIOUS
    <3>2. CASE k \in {<<p, ticket[p]>> : p \in People}
      BY <3>2
    <3>3. CASE k \in Mentioned(rows)
      <4>1. PICK p \in DOMAIN rows : k = <<p, rows[p].id>>
        BY <3>3 DEF Mentioned
      <4>2. p \in People /\ rows[p].id \in {0, ticket[p]}
        BY <1>1, <1>4, <4>1, RowOfNow
      <4> QED
        BY <3>1, <4>1, <4>2
    <3>4. CASE k \in Mentioned(shown.requests)
      BY <2>2, <3>4 DEF Mentioned
    <3>5. SeenIn(loads) = {} /\ SeenIn(searches) = {}
      <4>1. \A l \in loads : Seen(l) = {}
        BY <1>6 DEF Seen
      <4>2. \A k2 : k2 \in SeenIn(loads) => \E l \in loads : k2 \in Seen(l)
        BY Zenon DEF SeenIn
      <4>3. \A k2 : k2 \in SeenIn(searches) => \E l \in searches : k2 \in Seen(l)
        BY Zenon DEF SeenIn
      <4> QED
        BY <1>1, <4>1, <4>2, <4>3
    <3> QED
      BY <1>1, <3>1, <3>2, <3>3, <3>4, <3>5 DEF Known
  <2>4. \A k \in Known : k[2] \in 0..issued
    <3>1. \A p \in People : ticket[p] \in 0..issued
      BY <1>1 DEF ServerInv
    <3>2. 0 \in 0..issued
      BY <1>1 DEF ServerInv
    <3>3. \A k \in Known : k[2] = 0 \/ (k[1] \in People /\ k[2] = ticket[k[1]])
      BY <2>3
    <3> QED
      BY <3>1, <3>2, <3>3
  <2>5. \A k, m \in Known : k[2] # 0 /\ k[2] = m[2] => k[1] = m[1]
    BY <1>1, <2>3 DEF ServerInv
  <2> QED
    BY <2>4, <2>5 DEF KnownApart
<1>9. RowsOfQuery
  BY <1>1, <1>2, <1>3 DEF RowsOfQuery
<1>10. AnswersStand /\ RowsToCome /\ RowsSearchedAgain
  <2>1. \A p \in DOMAIN rows : RowIsNow(p, rows[p])
    BY <1>4 DEF RowIsNow
  <2> QED
    BY <1>1, <2>1 DEF AnswersStand, RowsToCome, RowToCome, RowsSearchedAgain
<1> QED
  BY <1>7, <1>8, <1>9, <1>10 DEF RowsInv

LEMMA RowsStill ==
  ASSUME ServerInv, ServerInv', RowsInv, UNCHANGED <<vars, page>>
  PROVE  RowsInv'
<1>1. UNCHANGED <<server, shown, loads, calls, query, timer, searches, rows, drift, late>>
  BY DEF vars, pageVars, search
<1>2. RowsShaped'
  <2>1. ShutApart'
    BY <1>1 DEF RowsInv, RowsShaped, ShutApart, server
  <2> QED
    BY <1>1, <2>1, ShapedKept DEF RowsInv, RowsShaped
<1>3. page # "network" => KnownApart'
  BY <1>1, KnownKept DEF RowsInv
<1>4. ~late => RowsOfQuery'
  BY <1>1, OfQueryKept DEF RowsInv
<1>5. ~late /\ page # "network" => AnswersStand' /\ RowsToCome'
  BY <1>1, <1>2, ToComeStill DEF RowsInv
<1>6. ~late /\ page = "network" /\ ~drift => RowsSearchedAgain'
  <2>1. Answering(Operations) => Answering(Operations)'
    BY <1>1 DEF Answering
  <2> QED
    BY <1>1, <2>1, AgainKept DEF RowsInv
<1> QED
  BY <1>1, <1>2, <1>3, <1>4, <1>5, <1>6 DEF RowsInv

LEMMA RowsStep ==
  ASSUME PeoplePageAssumption, BusyInv, ListsInv, RowsInv, ListsInv', [ClientNext]_clientVars
  PROVE  RowsInv'
<1>1. UNCHANGED page /\ ServerInv /\ ServerInv' /\ RowsShaped
  BY DEF ClientNext, clientVars, ListsInv, RowsInv
<1>2. CASE UNCHANGED <<vars, page>>
  BY <1>1, <1>2, RowsStill
<1>3. CASE ListsNext
  <2>1. ~late' => RowsOfQuery'
    BY <1>1, <1>3, OfQueryStep DEF RowsInv
  <2>2. CASE page = "requests"
    <3>1. RequestsNext
      BY <1>3, <2>2 DEF ListsNext
    <3>2. RowsShaped' /\ KnownApart'
      BY <1>1, <2>2, <3>1, ShapedRequests, KnownRequests
    <3>3. ~late' => AnswersStand' /\ RowsToCome'
      BY <1>1, <2>2, <3>1, <3>2, ToComeRequests
    <3> QED
      BY <1>1, <2>1, <2>2, <3>2, <3>3 DEF RowsInv
  <2>3. CASE page = "home"
    <3>1. HomeNext
      BY <1>3, <2>3 DEF ListsNext
    <3>2. RowsShaped' /\ KnownApart'
      BY <1>1, <2>3, <3>1, ShapedHome, KnownHome
    <3>3. ~late' => AnswersStand' /\ RowsToCome'
      BY <1>1, <2>3, <3>1, <3>2, ToComeHome
    <3> QED
      BY <1>1, <2>1, <2>3, <3>2, <3>3 DEF RowsInv
  <2>4. CASE page = "network"
    <3>1. NetworkNext
      BY <1>3, <2>4 DEF ListsNext
    <3>2. RowsShaped'
      BY <1>1, <2>4, <3>1, ShapedNetwork
    <3>3. ~late' /\ ~drift' => RowsSearchedAgain'
      BY <1>1, <2>4, <3>1, AgainNetwork
    <3> QED
      BY <1>1, <2>1, <2>4, <3>2, <3>3 DEF RowsInv
  <2> QED
    BY <1>3, <2>2, <2>3, <2>4 DEF ListsNext
<1> QED
  BY <1>1, <1>2, <1>3 DEF ClientNext, clientVars

LEMMA RowsEnd ==
  ASSUME RowsInv
  PROVE  RowsFollow
<1>1. SUFFICES ASSUME searches = {}, ~timer, ~late
               PROVE  /\ DOMAIN rows = IF query = NoQuery THEN {} ELSE Match[query]
                      /\ Quiet /\ (page = "network" => ~drift) => \A p \in DOMAIN rows : Kind(rows[p]) = Kind(RowNow(p))
  BY DEF RowsFollow, Searched
<1>2. DOMAIN rows = IF query = NoQuery THEN {} ELSE Match[query]
  BY <1>1 DEF RowsInv, RowsOfQuery
<1>3. ASSUME Quiet, page = "network" => ~drift, NEW p \in DOMAIN rows
      PROVE  Kind(rows[p]) = Kind(RowNow(p))
  <2>1. CASE page # "network"
    BY <1>1, <1>3, <2>1 DEF RowsInv, RowsToCome, RowToCome, RowIsNow, Quiet
  <2>2. CASE page = "network"
    BY <1>1, <1>3, <2>2 DEF RowsInv, RowsSearchedAgain, RowIsNow, Answering, Quiet
  <2> QED
    BY <2>1, <2>2
<1> QED
  BY <1>2, <1>3

-------------------------------------------------------------------------------
(* The client: one page is open, and its steps leave the others alone.     *)

LEMMA ClientInvStart ==
  ASSUME PeoplePageAssumption, AccountAssumption, CardsAssumption, ClientInit
  PROVE  ClientInv
<1>1. BusyInv
  BY BusyInvStart
<1>2. HandoffsInv
  BY HandoffsStart DEF ClientInit
<1>3. PanelInv
  BY PanelStart DEF ClientInit
<1>4. AccountInv
  BY AccountStart DEF ClientInit
<1>5. CardsInv
  BY CardsStart DEF ClientInit
<1>6. ListsInv
  BY ListsStart
<1>7. RowsInv
  BY RowsStart
<1> QED
  BY <1>1, <1>2, <1>3, <1>4, <1>5, <1>6, <1>7 DEF ClientInv

LEMMA ClientInvStep ==
  ASSUME PeoplePageAssumption, CardsAssumption, ClientInv, [ClientNext]_clientVars
  PROVE  ClientInv'
<1>1. BusyInv'
  BY BusyStep DEF ClientInv
<1>2. HandoffsInv'
  BY HandoffsStep DEF ClientInv, ClientNext, clientVars
<1>3. PanelInv'
  BY PanelStep DEF ClientInv, ClientNext, clientVars
<1>4. AccountInv'
  BY AccountStep DEF ClientInv, ClientNext, clientVars
<1>5. CardsInv'
  BY CardsStep DEF ClientInv, ClientNext, clientVars
<1>6. ListsInv'
  BY ListsStep DEF ClientInv
<1>7. RowsInv'
  BY <1>6, RowsStep DEF ClientInv
<1> QED
  BY <1>1, <1>2, <1>3, <1>4, <1>5, <1>6, <1>7 DEF ClientInv

\* Whatever the pages do, their inductive invariants hold.
THEOREM ClientInvHolds == ClientSpec => []ClientInv
<1>1. ClientInit => ClientInv
  BY ClientInvStart, PeoplePageAssumption, AccountAssumption, CardsAssumption
<1>2. ClientInv /\ [ClientNext]_clientVars => ClientInv'
  BY ClientInvStep, PeoplePageAssumption, CardsAssumption
<1> QED
  BY <1>1, <1>2, PTL DEF ClientSpec

\* No page stays busy: a button or a spinner that waits, waits for something in
\* flight, so with nothing in flight none does (the finally blocks and the early
\* returns of every handler and load).
THEOREM NeverStuck == ClientSpec => []NothingStuck
<1>1. ClientInv => NothingStuck
  <2> SUFFICES ASSUME ClientInv PROVE NothingStuck
    OBVIOUS
  <2>1. Quiet => busy = Nobody /\ ~loading
    <3>1. CASE page = "requests"
      BY <3>1 DEF ClientInv, BusyInv, Quiet
    <3>2. CASE page = "network"
      BY <3>2 DEF ClientInv, BusyInv, Quiet
    <3>3. CASE page = "home"
      BY <3>3 DEF ClientInv, BusyInv, Quiet
    <3>4. CASE page \notin {"requests", "network", "home"}
      BY <3>4 DEF ClientInv, BusyInv
    <3> QED
      BY <3>1, <3>2, <3>3, <3>4
  <2>2. Searched => ~searching
    BY DEF ClientInv, BusyInv, Searched
  <2>3. HandoffsQuiet => dealBusy = NoDeal
    BY DEF ClientInv, HandoffsInv, HandoffsQuiet
  <2>4. fetches = {} => ~cardsLoading
    BY DEF ClientInv, PanelInv
  <2>5. AccountQuiet => ~authLoading /\ updating = {}
    BY DEF ClientInv, AccountInv, AccountQuiet
  <2>6. CardsQuiet => ~loadingCards /\ ~submitting /\ deletingCardId = 0
    BY DEF ClientInv, CardsInv, CardsQuiet
  <2> QED
    BY <2>1, <2>2, <2>3, <2>4, <2>5, <2>6 DEF NothingStuck
<1> QED
  BY <1>1, ClientInvHolds, PTL

\* With nothing in flight each page shows what the database holds: its lists,
\* badges and graph (loadRequests, the load of my network, and the home page,
\* which patches its preview by request ids). Not once the others have acted, a
\* read or an answer was lost, two loads of a part overlapped, or the home page
\* asked for the graph at the former depth of an accepted request.
THEOREM ListsSettle == ClientSpec => []SettledLists
<1>1. ClientInv => SettledLists
  BY ListsEnd DEF ClientInv
<1> QED
  BY <1>1, ClientInvHolds, PTL

\* With no search pending the rows of a search are the people the query finds,
\* and once the user's own calls have been answered each has the buttons for the
\* link the database has: patched on the requests page and the home page,
\* searched again on my network (Patched, RowPatch, the search effect). The
\* conditions are those of RowsFollow.
THEOREM RowsSettle == ClientSpec => []RowsFollow
<1>1. ClientInv => RowsFollow
  BY RowsEnd DEF ClientInv
<1> QED
  BY <1>1, ClientInvHolds, PTL

\* The tab of card handoffs, with nothing in flight, shows the requests as the
\* database has them after the user's own answers (loadData after each of them).
THEOREM HandoffsSettle == ClientSpec => []SettledHandoffs
<1>1. ClientInv => SettledHandoffs
  BY DEF ClientInv, HandoffsInv, SettledHandoffs, HandoffsQuiet
<1> QED
  BY <1>1, ClientInvHolds, PTL

\* The panel of the constellation holds the cards and the profile of the person
\* selected, however clicks, drags and answers interleave (the effect of
\* NetworkGraph on selectedGraphNode).
THEOREM PanelOfSelected == ClientSpec => []PanelShowsSelected
<1>1. ClientInv => PanelShowsSelected
  BY DEF ClientInv, PanelInv, PanelShowsSelected
<1> QED
  BY <1>1, ClientInvHolds, PTL

\* The profile shown is the stored one of who is signed in, through sign-in,
\* sign-up, sign-out, reload, token refresh and every save (AuthProvider and the
\* profile page, over sync_profile). Not where writes crossed each other or a
\* change of session, one was lost, or a sign-out failed.
THEOREM ProfileMatchesSession == ClientSpec => []ProfileIsOfSession
<1>1. ClientInv => ProfileIsOfSession
  BY DEF ClientInv, AccountInv, ProfileIsOfSession, AccountQuiet, UpToDate
<1> QED
  BY <1>1, ClientInvHolds, PTL

\* The list of one's cards settles on the table after every save and delete
\* (loadUserCards after each of them). Not once another tab has changed it, the
\* answer of a save or a deletion was lost, or loads failed or overlapped.
THEOREM CardsSettle == ClientSpec => []SettledCards
<1>1. ClientInv => SettledCards
  BY DEF ClientInv, CardsInv, ListFollows, SettledCards, CardsQuiet
<1> QED
  BY <1>1, ClientInvHolds, PTL

\* A card added or edited never renames another card of the owner's, unless its
\* name fits that card's item or every item of the catalogue is taken
\* (the reads and the three writes of createCard and updateCard). Not where the
\* table changed between those, or the read of the cards owned failed.
THEOREM AddsBesides == ClientSpec => AddsInPlaceOfNone
<1>1. ClientInv /\ [ClientNext]_clientVars =>
        [\A i \in DOMAIN mine \cap DOMAIN mine' :
           mine'[i].name # mine[i].name =>
             \/ raced \/ DOMAIN mine = Items \/ i \in UNION {Fits[mine'[i].name][t] : t \in 1..3}
             \/ \E c \in saves : c.edits = mine[i].id]_cardVars
  BY CardsRenamed DEF ClientInv, ClientNext, clientVars
<1> QED
  BY <1>1, ClientInvHolds, PTL DEF ClientSpec, AddsInPlaceOfNone
===============================================================================
