----------------------------- MODULE RateLimit -----------------------------
(***************************************************************************)
(* The limiter of coffeecup/src/lib/rate-limit.ts, which the sign-in and   *)
(* triage routes put in front of their handlers.  check() is synchronous,  *)
(* so a call is one step; the map belongs to one process and a cold start  *)
(* begins with an empty one.                                               *)
(***************************************************************************)
EXTENDS Integers, Sequences, FiniteSets

CONSTANTS
  Callers,      \* keys: an action and the last hop of X-Forwarded-For
  Window,       \* opts.windowMs
  MaxRequests,  \* opts.maxRequests
  Horizon       \* bound on the clock

ASSUME RateLimitAssumption ==
  /\ Window \in Nat \ {0} /\ MaxRequests \in Nat \ {0} /\ Callers # {} /\ Horizon \in Nat

VARIABLES
  clock,     \* Date.now()
  admitted,  \* times of the calls let through, per key, in this process
  map,       \* the Map: for each key it holds, which of those it remembers
  verdict    \* the last call and its answer

limiterVars == <<clock, admitted, map, verdict>>

LimiterInit ==
  /\ clock = 0
  /\ admitted = [k \in Callers |-> <<>>]
  /\ map = [k \in {} |-> {}]
  /\ verdict = [key |-> CHOOSE k \in Callers : TRUE, ok |-> "none"]

\* now - ts < windowMs
WithinShort(k, i) == clock - admitted[k][i] < Window - 1   \* a mistake: a unit short
Within(k, i)      == clock - admitted[k][i] < Window

\* The sweep: entries with no stamp, or whose latest is out of the window.
KeepsAll(k) == TRUE                                        \* a mistake: no sweep
Keeps(k)    == \E i \in map[k] : Within(k, i)

Held(k) == IF k \in DOMAIN map /\ Keeps(k) THEN map[k] ELSE {}

Recent(k) == {i \in Held(k) : Within(k, i)}

FullEarly(k) == Cardinality(Recent(k)) + 1 >= MaxRequests  \* a mistake: one too few
Full(k)      == Cardinality(Recent(k)) >= MaxRequests

Swept(k, entry) ==
  [j \in {j \in DOMAIN map : Keeps(j)} \cup {k} |-> IF j = k THEN entry ELSE map[j]]

NextIndexFromZero(k) == Len(admitted[k])                   \* a mistake: counts from 0
NextIndex(k)         == Len(admitted[k]) + 1

\* check(key)
Check(k) ==
  /\ IF Full(k)
       THEN /\ map' = Swept(k, Recent(k))
            /\ verdict' = [key |-> k, ok |-> "no"]
            /\ UNCHANGED admitted
       ELSE /\ admitted' = [admitted EXCEPT ![k] = Append(@, clock)]
            /\ map' = Swept(k, Recent(k) \cup {NextIndex(k)})
            /\ verdict' = [key |-> k, ok |-> "yes"]
  /\ UNCHANGED clock

Tick ==
  /\ clock < Horizon
  /\ clock' = clock + 1
  /\ UNCHANGED <<admitted, map, verdict>>

ColdStart ==
  /\ admitted' = [k \in Callers |-> <<>>]
  /\ map' = [k \in {} |-> {}]
  /\ verdict' = [verdict EXCEPT !.ok = "none"]
  /\ UNCHANGED clock

LimiterNext == (\E k \in Callers : Check(k)) \/ Tick \/ ColdStart

LimiterSpec == LimiterInit /\ [][LimiterNext]_limiterVars

-----------------------------------------------------------------------------
(* Properties.                                                             *)

LimiterTypeOK ==
  /\ clock \in Nat
  /\ admitted \in [Callers -> Seq(Nat)]
  /\ DOMAIN map \subseteq Callers
  /\ \A k \in DOMAIN map : map[k] \subseteq DOMAIN admitted[k]
  /\ verdict \in [key : Callers, ok : {"none", "yes", "no"}]

\* However its calls fall, across the edges of any fixed window too, a key
\* gets no more than MaxRequests of them in any stretch of Window: the
\* MaxRequests-th call after one comes a window later at least.  The sweep
\* forgets nothing that still counts.
AtMostMax ==
  \A k \in Callers : \A i \in DOMAIN admitted[k] :
    i + MaxRequests <= Len(admitted[k])
      => admitted[k][i + MaxRequests] - admitted[k][i] >= Window

\* A refusal is earned: MaxRequests calls of that key were let through in the
\* last Window.  One key's calls never use up another's allowance, and the
\* calls refused do not count.
RefusedOnlyWhenFull ==
  [][\A k \in Callers : verdict' = [key |-> k, ok |-> "no"] /\ clock' = clock =>
       Cardinality({i \in DOMAIN admitted[k] : clock - admitted[k][i] < Window}) >= MaxRequests
    ]_limiterVars

\* "it can never grow without limit under distinct keys": after a call the map
\* holds no key whose calls all left the window.
MapHoldsLiveKeys ==
  [][map' # map =>
       \A k \in DOMAIN map' : \E i \in map'[k] : clock' - admitted'[k][i] < Window
    ]_limiterVars

\* The limiter is exact: no call too many, none refused too early, and nothing
\* remembered that no longer counts.
LimiterIsExact == [][AtMostMax']_limiterVars /\ RefusedOnlyWhenFull /\ MapHoldsLiveKeys

=============================================================================
