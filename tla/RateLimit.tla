------------------------------- MODULE RateLimit -------------------------------
(***************************************************************************)
(* createRateLimitMiddleware: how many calls of one address a router lets  *)
(* through. Each router has its own; a call is counted before it is        *)
(* authenticated, by its address alone.                                    *)
(***************************************************************************)
EXTENDS Naturals, FiniteSets

CONSTANTS
  Ips,
  Window, MaxRequests,   \* windowMs in ticks, maxRequests
  MaxTime                \* bound

ASSUME RateAssumption == {Window, MaxRequests, MaxTime} \subseteq Nat /\ Window > 0 /\ MaxRequests > 0

VARIABLES
  now,
  requestsByIp,  \* the entry of an address; count 0 is none
  passed,        \* history: the calls let through, of each address, with their times
  refused        \* history: the addresses refused at this instant

rateVars == <<now, requestsByIp, passed, refused>>
NoEntry == [count |-> 0, resetAt |-> 0]

\* pruneExpiredEntries
Kept == [ip \in Ips |-> IF requestsByIp[ip].resetAt <= now THEN NoEntry ELSE requestsByIp[ip]]

\* Mutant: an entry that was refused starts a window of its own.
Counted_Renewed(entry) ==
  IF entry.count = 0 \/ entry.count >= MaxRequests THEN [count |-> 1, resetAt |-> now + Window]
  ELSE [entry EXCEPT !.count = @ + 1]

Counted(entry) ==
  IF entry.count = 0 THEN [count |-> 1, resetAt |-> now + Window]
  ELSE IF entry.count >= MaxRequests THEN entry ELSE [entry EXCEPT !.count = @ + 1]

Call(ip) ==
  LET entry == Kept[ip]
  IN  /\ requestsByIp' = [Kept EXCEPT ![ip] = Counted(entry)]
      /\ IF requestsByIp'[ip] = entry
           THEN refused' = refused \cup {ip} /\ UNCHANGED passed
           ELSE /\ UNCHANGED refused
                /\ passed' = [passed EXCEPT ![ip] = @ \cup {<<now, Cardinality({c \in @ : c[1] = now})>>}]
  /\ UNCHANGED now

Tick == now < MaxTime /\ now' = now + 1 /\ refused' = {} /\ UNCHANGED <<requestsByIp, passed>>

RateInit == now = 0 /\ requestsByIp = [ip \in Ips |-> NoEntry] /\ passed = [ip \in Ips |-> {}] /\ refused = {}
RateNext == Tick \/ \E ip \in Ips : Call(ip)
RateSpec == RateInit /\ [][RateNext]_rateVars

Since(ip, time) == {c \in passed[ip] : c[1] >= time /\ c[1] < time + Window}

\* In no stretch as long as the window does an address get more than twice the
\* limit through, and one that is refused has had all of it within the last
\* window. (The window is fixed, not sliding: once the limit itself would be wrong.)
LimitHolds ==
  \A ip \in Ips :
    /\ \A time \in 0..now : Cardinality(Since(ip, time)) <= 2 * MaxRequests
    /\ ip \in refused => Cardinality({c \in passed[ip] : c[1] + Window > now}) >= MaxRequests

-------------------------------------------------------------------------------
(* The inductive invariant behind it.                                      *)

\* The calls of an address that were let through at the same time are told apart
\* by their number.
Numbered(served) == \A c \in served : c[1] <= now /\ c[2] < Cardinality({d \in served : d[1] = c[1]})

\* An entry counts the calls since its window started, and there were no more
\* than the limit in as long a time before. Without an entry no more than the
\* limit are younger than a window.
Counts(entry, served) ==
  IF entry.count = 0 THEN
    (\A c \in served : c[1] < now) /\ Cardinality({c \in served : c[1] + Window > now}) <= MaxRequests
  ELSE
    /\ \A c \in served : c[1] < entry.resetAt
    /\ Window <= entry.resetAt /\ entry.resetAt <= now + Window /\ entry.count <= MaxRequests
    /\ Cardinality({c \in served : c[1] + Window >= entry.resetAt}) = entry.count
    /\ Cardinality({c \in served : c[1] + Window < entry.resetAt /\ c[1] + 2 * Window > entry.resetAt}) <= MaxRequests

RateInv ==
  /\ now \in Nat /\ requestsByIp \in [Ips -> [count : Nat, resetAt : Nat]] /\ refused \subseteq Ips
  /\ DOMAIN passed = Ips
  /\ \A ip \in Ips :
       /\ passed[ip] \subseteq Nat \X Nat /\ IsFiniteSet(passed[ip])
       /\ Numbered(passed[ip]) /\ Counts(requestsByIp[ip], passed[ip])
  /\ LimitHolds
===============================================================================
