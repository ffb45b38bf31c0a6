------------------------------ MODULE Disclosure ------------------------------
(***************************************************************************)
(* What the card requests promise about contact details: they are shown    *)
(* only for a request the owner approved, and the owner approves a         *)
(* friend-of-friend request only after the mutual friend vouched for it.   *)
(***************************************************************************)
CONSTANTS
  Requests,  \* the requests there may be
  Referred   \* those that go through a mutual friend

VARIABLES asked, vouched, granted, disclosed  \* sets of requests

dvars == <<asked, vouched, granted, disclosed>>

DInit == asked = {} /\ vouched = {} /\ granted = {} /\ disclosed = {}

Ask(r) ==
  /\ r \in Requests \ asked
  /\ asked' = asked \cup {r}
  /\ UNCHANGED <<vouched, granted, disclosed>>

Vouch(r) ==
  /\ r \in asked \cap Referred
  /\ vouched' = vouched \cup {r}
  /\ UNCHANGED <<asked, granted, disclosed>>

Grant(r) ==
  /\ r \in asked
  /\ r \in Referred => r \in vouched
  /\ granted' = granted \cup {r}
  /\ UNCHANGED <<asked, vouched, disclosed>>

Disclose(r) ==
  /\ r \in granted
  /\ disclosed' = disclosed \cup {r}
  /\ UNCHANGED <<asked, vouched, granted>>

\* A card is deleted, and its requests with it.
Withdraw(gone) ==
  /\ asked' = asked \ gone
  /\ vouched' = vouched \ gone
  /\ granted' = granted \ gone
  /\ disclosed' = disclosed \ gone

DNext ==
  \/ \E r \in Requests : Ask(r) \/ Vouch(r) \/ Grant(r) \/ Disclose(r)
  \/ \E gone \in SUBSET Requests : Withdraw(gone)

DSpec == DInit /\ [][DNext]_dvars
===============================================================================
