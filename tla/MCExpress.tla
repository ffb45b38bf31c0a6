------------------------------- MODULE MCExpress -------------------------------
(***************************************************************************)
(* The Express server, and a limiter, small. The connections of three      *)
(* people are made and changed by calls that overlap; then, for every      *)
(* network of the three at rest, a card is asked for while it changes, and *)
(* the request is answered, by calls that overlap.                         *)
(***************************************************************************)
EXTENDS Express, RateLimit, TLC

CONSTANTS asker, friend, holder
VARIABLE part

MCUsers == {asker, friend, holder}
Conn(u, v, status) == [from |-> u, to |-> v, status |-> status, keyed |-> status # "removed"]
Withheld == [visibility |-> "private", request_enabled |-> FALSE, active |-> FALSE]

InitServer ==
  /\ IF part = "ask" THEN \E a \in {"accepted", "removed"}, b, c \in Active \cup {"removed"} :
          conns = <<Conn(asker, friend, a), Conn(holder, friend, b), Conn(asker, holder, c)>>
     ELSE conns = <<>>
  /\ cards \in [Users -> CardRows] /\ \A u \in Users \ {holder} : cards[u] = Withheld
  /\ part # "ask" => cards[holder] = Withheld
  /\ reqs = <<>> /\ edits = 0 /\ calls = [s \in Slots |-> Idle]
  /\ alone = {} /\ crossed = FALSE /\ consented = {} /\ vouched = {} /\ revealed = {}

InitMC == part \in {"connect", "ask", "limit"} /\ InitServer /\ RateInit

\* Bound: the connections that are made are all of one pair.
OnePair == \A s \in Slots : calls[s].pc = "send" => {calls[s].from, calls[s].to} = {asker, holder}

NextMC ==
  /\ UNCHANGED part
  /\ \/ part = "connect" /\ (\E s \in Slots : ConnectionCall(s)) /\ OnePair' /\ UNCHANGED rateVars
     \/ part = "ask" /\ (\E s \in Slots : RequestCall(s)) /\ UNCHANGED rateVars
     \/ part = "ask" /\ CardWrite(holder, Withheld) /\ UNCHANGED rateVars
     \/ part = "limit" /\ RateNext /\ UNCHANGED expressVars
SpecMC == InitMC /\ [][NextMC]_<<expressVars, rateVars, part>>
Symmetry == Permutations(Slots)
===============================================================================
