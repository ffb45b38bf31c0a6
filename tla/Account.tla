-------------------------------- MODULE Account --------------------------------
(***************************************************************************)
(* Who is signed in, and their profile: AuthProvider, the login page, the  *)
(* profile page, and sync_profile, which every one of them ends in. The    *)
(* function reads the row in one statement and writes it back in another.  *)
(***************************************************************************)
EXTENDS Naturals, FiniteSets

CONSTANTS
  Accounts,    \* who may sign in here
  Guest,       \* no session
  MaxTries     \* bound: what the user does, token refreshes and faults

ASSUME AccountAssumption == Guest \notin Accounts /\ MaxTries \in Nat

VARIABLES
  profiles,    \* the table
  registered,  \* who has signed up, as the auth service knows
  signedIn,    \* the session the auth client stores
  session, profile, authLoading,   \* AuthProvider
  boot,        \* of the first render: getSession and the first auth event
  entering,    \* the login form in flight
  syncs,       \* calls of sync_profile in flight
  updating,    \* isUpdatingProfile, isUploadingAvatar, isUpdatingPassword
  form,        \* displayName and username (here handle) of the profile form
  avatarPreview,
  said,        \* history: what the page said is saved
  crossed,     \* history: calls overlapped that write, or one failed, or a sign-out did
  tries

authVars == <<registered, signedIn, session, profile, authLoading, boot, entering>>
pageState == <<updating, form, avatarPreview, said>>
accountVars == <<profiles, authVars, syncs, pageState, crossed, tries>>

Names == {1, 2}            \* 1 is the name of the sign-up
Handles == {0, 1}          \* what is typed as a username, 0 for none
NoRow == [name |-> 0, avatar |-> "null"]
Nothing == [name |-> 0, handle |-> 0]
Tries == tries < MaxTries /\ tries' = tries + 1

-------------------------------------------------------------------------------
(* sync_profile.                                                           *)

Sync(for, user, name, avatar) ==
  [for |-> for, user |-> user, name |-> name, avatar |-> avatar, row |-> NoRow, pc |-> "asked",
   form |-> IF for = "profile" THEN form ELSE Nothing,
   last |-> IF for = "avatar" THEN profile.avatar ELSE "null",   \* what the handler closed over
   here |-> for \in {"profile", "avatar", "password"},           \* the page that asked is still open
   n |-> tries]
Writes(s) == s.for \in {"profile", "avatar"}
Start(new) ==
  /\ syncs' = syncs \cup new
  /\ crossed' = (crossed \/ (syncs # {} /\ \E s \in syncs \cup new : Writes(s)))

SyncReads ==
  \E s \in syncs :
    /\ s.pc = "asked" /\ syncs' = (syncs \ {s}) \cup {[s EXCEPT !.row = profiles[s.user], !.pc = "read"]}
    /\ UNCHANGED <<profiles, authVars, pageState, crossed, tries>>

\* The row written: what is not given is taken from the row read, and the
\* avatar, where that has none either, from the row as it is now.
Upserted(s) ==
  LET now == profiles[s.user]
  IN  [name |-> IF s.name # 0 THEN s.name ELSE IF s.row # NoRow THEN s.row.name ELSE 1,
       avatar |-> IF s.avatar # "null" THEN s.avatar
                  ELSE IF s.row.avatar # "null" THEN s.row.avatar ELSE now.avatar]

SyncWrites ==
  \E s \in syncs :
    /\ s.pc = "read" /\ profiles' = [profiles EXCEPT ![s.user] = Upserted(s)]
    /\ syncs' = (syncs \ {s}) \cup {[s EXCEPT !.row = Upserted(s), !.pc = "ok"]}
    /\ UNCHANGED <<authVars, pageState, crossed, tries>>

\* The call, or its answer, is lost.
SyncLost ==
  \E s \in syncs :
    /\ Tries /\ s.pc \in {"asked", "ok"} /\ syncs' = (syncs \ {s}) \cup {[s EXCEPT !.pc = "failed"]}
    /\ crossed' = TRUE
    /\ UNCHANGED <<profiles, authVars, pageState>>

-------------------------------------------------------------------------------
(* AuthProvider.                                                           *)

\* profile.username: the table has no such column.
Handle(row) == 0

\* What hangs on the profile: the form and the preview are set anew.
Profile(row) ==
  /\ profile' = row
  /\ IF row = NoRow THEN UNCHANGED <<form, avatarPreview>>
     ELSE form' = [name |-> row.name, handle |-> Handle(row)] /\ avatarPreview' = row.avatar

\* The profile page is left: when it is opened again its state is new, and what
\* the last one asked for answers to nobody.
Left(row) ==
  /\ form' = [name |-> row.name, handle |-> Handle(row)] /\ avatarPreview' = row.avatar
  /\ updating' = {} /\ said' = Nothing
  /\ syncs' = {[s EXCEPT !.here = FALSE] : s \in syncs}

\* getSession resolves; the first auth event comes on its own.
SessionRead ==
  /\ "session" \in boot /\ boot' = boot \ {"session"} /\ session' = signedIn
  /\ IF signedIn # Guest THEN Start({Sync("init", signedIn, 0, "null")}) /\ UNCHANGED authLoading
     ELSE authLoading' = FALSE /\ UNCHANGED <<syncs, crossed>>
  /\ UNCHANGED <<profiles, registered, signedIn, profile, entering, pageState, tries>>

InitialEvent ==
  /\ "event" \in boot /\ boot' = boot \ {"event"} /\ session' = signedIn
  /\ IF signedIn # Guest THEN Start({Sync("event", signedIn, 0, "null")}) /\ UNCHANGED <<profile, form, avatarPreview>>
     ELSE profile' = NoRow /\ UNCHANGED <<syncs, crossed, form, avatarPreview>>
  /\ UNCHANGED <<profiles, registered, signedIn, authLoading, entering, updating, said, tries>>

TokenRefreshed ==
  /\ Tries /\ boot = {} /\ session # Guest /\ Start({Sync("event", session, 0, "null")})
  /\ UNCHANGED <<profiles, authVars, pageState>>

\* What is rendered at a protected route: RequireAuth and the login page.
View == IF authLoading THEN "loading" ELSE IF session = Guest /\ profile = NoRow THEN "login" ELSE "page"

LoginSubmitted ==
  /\ Tries /\ View = "login" /\ entering = {} /\ boot = {}
  /\ \E u \in Accounts : entering' = {[mode |-> IF u \in registered THEN "sign-in" ELSE "sign-up", user |-> u]}
  /\ UNCHANGED <<profiles, registered, signedIn, session, profile, authLoading, boot, syncs, pageState, crossed>>

\* A session changes hands: what was in flight is not.
Entered == crossed' = (syncs # {})

\* Refused, or signed up but to be confirmed first: no session.
LoginAnswered ==
  \E e \in entering :
    /\ entering' = {}
    /\ \/ /\ signedIn' = e.user /\ session' = e.user /\ Entered /\ registered' = registered \cup {e.user}
          /\ syncs' = syncs \cup {Sync("event", e.user, 0, "null")}
                            \cup IF e.mode = "sign-up" THEN {Sync("signup", e.user, 1, "null")} ELSE {}
       \/ registered' \in {registered, registered \cup {e.user}} /\ UNCHANGED <<signedIn, session, syncs, crossed>>
    /\ UNCHANGED <<profiles, profile, authLoading, boot, pageState, tries>>

\* Mutant: signing out keeps the profile for the next session.
SignOut_Kept ==
  /\ Tries /\ View = "page" /\ boot = {} /\ session # Guest
  /\ signedIn' = Guest /\ session' = Guest /\ Left(NoRow) /\ Entered
  /\ UNCHANGED <<profiles, registered, profile, authLoading, boot, entering>>

\* Without a session and a profile the login page takes the place of any other.
SignOut ==
  /\ Tries /\ View = "page" /\ boot = {} /\ session # Guest
  /\ signedIn' = Guest /\ session' = Guest /\ profile' = NoRow /\ Left(NoRow) /\ Entered
  /\ UNCHANGED <<profiles, registered, authLoading, boot, entering>>

\* The error of a sign-out is not looked at: the session stays, the profile is
\* dropped. From the bar the page stays as it is; its own button leaves it for
\* the login page, which a session is sent away from.
SignOutFails ==
  /\ Tries /\ View = "page" /\ boot = {} /\ session # Guest
  /\ profile' = NoRow /\ crossed' = TRUE
  /\ Left(NoRow) \/ UNCHANGED <<syncs, pageState>>
  /\ UNCHANGED <<profiles, registered, signedIn, session, authLoading, boot, entering>>

-------------------------------------------------------------------------------
(* The profile page.                                                       *)

PageReopened == Tries /\ View = "page" /\ Left(profile) /\ UNCHANGED <<profiles, authVars, crossed>>

FormTyped ==
  /\ Tries /\ View = "page" /\ form' \in [name : Names, handle : Handles] /\ form' # form
  /\ UNCHANGED <<profiles, authVars, syncs, updating, avatarPreview, said, crossed>>

\* updateProfile does not send the username.
ProfileSubmit ==
  /\ Tries /\ View = "page" /\ session # Guest /\ "profile" \notin updating /\ form.name # 0
  /\ updating' = updating \cup {"profile"}
  /\ Start({Sync("profile", session, form.name, "null")}) /\ said' = Nothing
  /\ UNCHANGED <<profiles, authVars, form, avatarPreview>>

PhotoSelected ==
  /\ Tries /\ View = "page" /\ session # Guest /\ "avatar" \notin updating
  /\ updating' = updating \cup {"avatar"} /\ avatarPreview' = "chosen"
  /\ \/ Start({Sync("avatar", session, 0, "photo")})
     \/ Start({[Sync("avatar", session, 0, "photo") EXCEPT !.pc = "failed"]})     \* the upload fails
  /\ UNCHANGED <<profiles, authVars, form, said>>

RemovePhoto ==
  /\ Tries /\ View = "page" /\ session # Guest /\ "avatar" \notin updating /\ profile.avatar = "photo"
  /\ updating' = updating \cup {"avatar"} /\ Start({Sync("avatar", session, 0, "")})
  /\ UNCHANGED <<profiles, authVars, form, avatarPreview, said>>

\* changePassword signs in again and updates the user, an auth event each (one
\* here); then the profile is refreshed. Or the current password is wrong.
PasswordSubmit ==
  /\ Tries /\ View = "page" /\ session # Guest /\ "password" \notin updating
  /\ \/ /\ updating' = updating \cup {"password"}
        /\ Start({Sync("event", session, 0, "null"), Sync("password", session, 0, "null")})
     \/ UNCHANGED <<updating, syncs, crossed>>
  /\ UNCHANGED <<profiles, authVars, form, avatarPreview, said>>

\* An answer arrives, whoever is signed in by now. A photo that fails gives the
\* preview back.
SyncDone ==
  \E s \in syncs :
    /\ s.pc \in {"ok", "failed"} /\ syncs' = syncs \ {s}
    /\ IF s.pc = "ok" THEN Profile(s.row)
       ELSE /\ UNCHANGED <<profile, form>>
            /\ avatarPreview' = IF s.avatar = "photo" /\ s.here THEN s.last ELSE avatarPreview
    /\ authLoading' = (authLoading /\ s.for # "init")
    /\ updating' = IF s.here THEN updating \ {s.for} ELSE updating
    /\ said' = IF s.for = "profile" /\ s.pc = "ok" /\ s.here THEN s.form ELSE said
    /\ UNCHANGED <<profiles, registered, signedIn, session, boot, entering, crossed, tries>>

-------------------------------------------------------------------------------
AccountQuiet == boot = {} /\ syncs = {} /\ entering = {}

\* The application starts, or a signed-in user has had it open for a while.
AccountMounted ==
  /\ profiles \in [Accounts -> {NoRow, [name |-> 1, avatar |-> "null"], [name |-> 1, avatar |-> "photo"]}]
  /\ registered = {u \in Accounts : profiles[u] # NoRow} /\ signedIn \in registered \cup {Guest}
  /\ entering = {} /\ syncs = {} /\ updating = {} /\ said = Nothing /\ crossed = FALSE
  /\ \/ /\ session = Guest /\ profile = NoRow /\ authLoading = TRUE /\ boot = {"session", "event"}
        /\ form = Nothing /\ avatarPreview = "null" /\ tries = 1
        /\ \A u \in Accounts : profiles[u].avatar = "null"
     \/ /\ signedIn # Guest /\ session = signedIn /\ profile = profiles[session]
        /\ authLoading = FALSE /\ boot = {}
        /\ form = [name |-> profile.name, handle |-> 0] /\ avatarPreview = profile.avatar /\ tries = 0

AccountNext ==
  SyncReads \/ SyncWrites \/ SyncLost \/ SessionRead \/ InitialEvent \/ TokenRefreshed \/ LoginSubmitted
  \/ LoginAnswered \/ SignOut \/ SignOutFails \/ PageReopened \/ FormTyped \/ ProfileSubmit \/ PhotoSelected
  \/ RemovePhoto \/ PasswordSubmit \/ SyncDone

-------------------------------------------------------------------------------
(* The inductive invariant behind what Client says of the profile.         *)

Reasons == {"init", "event", "signup", "profile", "avatar", "password"}
Avatars == {"null", "", "photo"}
Rows == [name : Names, avatar : Avatars]
Forms == [name : {0} \cup Names, handle : Handles]
SyncCall ==
  [for : Reasons, user : Accounts, name : {0} \cup Names, avatar : Avatars, row : Rows \cup {NoRow},
   pc : {"asked", "read", "ok", "failed"}, form : Forms, last : Avatars,
   here : BOOLEAN, n : Nat]

AccountTypes ==
  /\ profiles \in [Accounts -> Rows \cup {NoRow}]
  /\ registered \subseteq Accounts
  /\ signedIn \in Accounts \cup {Guest} /\ session \in Accounts \cup {Guest}
  /\ profile \in Rows \cup {NoRow}
  /\ authLoading \in BOOLEAN /\ crossed \in BOOLEAN
  /\ boot \subseteq {"session", "event"}
  /\ entering \subseteq [mode : {"sign-in", "sign-up"}, user : Accounts]
  /\ syncs \subseteq SyncCall
  /\ updating \subseteq {"profile", "avatar", "password"}
  /\ form \in Forms /\ said \in Forms
  /\ tries \in Nat

\* What a call carries: only the form and the sign-up give a name, only the
\* photo an avatar, and a row is returned with the name that was given.
WellFormed(s) ==
  /\ s.for = "profile" => s.name # 0 /\ s.form.name = s.name /\ s.avatar = "null"
  /\ s.for = "avatar" => s.name = 0
  /\ s.for = "signup" => s.name = 1
  /\ ~Writes(s) => s.avatar = "null" /\ (s.for # "signup" => s.name = 0)
  /\ s.pc = "ok" => s.row # NoRow /\ (s.name # 0 => s.row.name = s.name)
  /\ s.here => s.for \in {"profile", "avatar", "password"}

\* The row a sign-up ends in.
FirstRow == [name |-> 1, avatar |-> "null"]

\* A call that has not crossed another one's way has the row of who is signed
\* in, as it stands, or saw none where the first one has been made since.
Current(s) ==
  /\ s.user = session
  /\ IF Writes(s) THEN syncs = {s} ELSE s.pc # "failed"
  /\ s.pc = "read" =>
       s.row = profiles[session] \/ (~Writes(s) /\ s.row = NoRow /\ profiles[session] = FirstRow)
  /\ s.pc = "ok" => s.row = profiles[session]
  /\ s.for = "signup" => profiles[session] \in {NoRow, FirstRow}
  /\ s.for = "profile" => said = Nothing

\* Nothing will set the profile, and it is the stored one already.
UpToDate ==
  /\ profile = profiles[session]
  /\ (\A s \in syncs : s.avatar = "photo" /\ s.here => s.last = profile.avatar)
  /\ (\A s \in syncs : s.avatar = "photo" => ~s.here) => avatarPreview = profile.avatar

AccountInv ==
  /\ AccountTypes
  /\ \A u \in Accounts : profiles[u] # NoRow => u \in registered
  /\ signedIn # Guest => signedIn \in registered
  /\ \A e \in entering : e.mode = "sign-up" => e.user \notin registered
  /\ boot = {} => session = signedIn
  /\ boot # {} => entering = {} /\ session \in {Guest, signedIn}
  /\ entering # {} => session = Guest
  /\ session = Guest /\ signedIn # Guest => boot = {"session", "event"}
  /\ \A s \in syncs : WellFormed(s) /\ s.user \in registered
  /\ session = Guest => said = Nothing /\ \A s \in syncs : ~s.here
  /\ said # Nothing => said.name # 0
  /\ authLoading => "session" \in boot \/ \E s \in syncs : s.for = "init"
  /\ \A x \in updating : \E s \in syncs : s.for = x /\ s.here
  /\ ~crossed =>
       /\ session = Guest => syncs = {} /\ profile = NoRow
       /\ \A s \in syncs : Current(s)
       /\ session # Guest =>
            /\ said # Nothing => profiles[session].name = said.name
            /\ (\E s \in syncs : s.pc # "failed") \/ UpToDate
===============================================================================
