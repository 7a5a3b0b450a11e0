------------------------------ MODULE CaseLaw ------------------------------
(***************************************************************************)
(* The check of a cited authority: the curated list                        *)
(* (coffeecup/src/legal/sources/verified-authorities.ts and                *)
(* citation-validator.ts) and, where it does not settle the matter, the    *)
(* National Archives' Find Case Law, through a cache in memory             *)
(* (find-case-law.ts).  Calls overlap; the archive gains judgments, and    *)
(* now and then does not answer.  A name is a sequence of words, a number  *)
(* a neutral citation once normalised.                                     *)
(***************************************************************************)
EXTENDS Integers, Sequences

CONSTANTS
  Numbers, NoNumber, \* the neutral citations of judgments the archive covers
  TitleOf,      \* the title of the judgment that has, or will have, a number
  Boilerplate,  \* words that identify nobody: "v", "ltd", "the"...
  Authorities,  \* the curated list: a sequence of [short, full, number]
  Citations,    \* what callers pass: [number, words, name], from "words number" and "name"
  Calls,
  Ttl, Timeout, LastHour

ASSUME CaseLawAssumption ==
  /\ NoNumber \notin Numbers /\ DOMAIN TitleOf = Numbers
  /\ Ttl \in Nat \ {0} /\ Timeout \in Nat /\ LastHour \in Nat
  /\ \A n \in DOMAIN Authorities : Authorities[n].short # << >>
  /\ \A c \in Citations : c.words \in Seq(STRING)

VARIABLES
  clock,
  published, \* when the archive gained the judgment with a number, or Never
  cache,     \* verifyCache: a verdict and its time for a key, or NoEntry; history:
             \* the citation the verdict was reached for (of)
  calls,     \* validateCitationAuthoritative under way
  answered   \* what a call told its caller last, and on a verdict reached for which

caseLawVars == <<clock, published, cache, calls, answered>>

NoName  == << >>
Never   == LastHour + 1
NoEntry == [at |-> -1, trust |-> "none"]
Idle    == [at |-> "idle"]

LawKeys == {[number |-> c.number, name |-> c.name] : c \in Citations}

CaseLawInit ==
  /\ clock = 0
  /\ published \in [Numbers -> {0, Never}]
  /\ cache = [k \in LawKeys |-> NoEntry]
  /\ calls = [i \in Calls |-> Idle]
  /\ answered = Idle

-----------------------------------------------------------------------------
(* The curated list.                                                       *)

Trusts            == {"QUARANTINED", "CHECK", "VERIFIED"}
Rank              == [QUARANTINED |-> 1, CHECK |-> 2, VERIFIED |-> 3]
HigherTrust(a, b) == IF Rank[a] >= Rank[b] THEN a ELSE b

Within(s, t) == \E a, b \in 1..Len(t) : SubSeq(t, a, b) = s

\* findAuthorityByShortName and findAuthorityByPartialMatch: the one indexed
\* under a short name, or the first that occurs anywhere in the text.
ByShortName(name) == {n \in DOMAIN Authorities : Authorities[n].short = name}
Occurring(text)   == {n \in DOMAIN Authorities : \/ Within(Authorities[n].short, text)
                                                 \/ Within(Authorities[n].full, text)}

Earliest(places) == CHOOSE n \in places : \A o \in places : n <= o

FirstWords(n, text) == SubSeq(text, 1, IF n < Len(text) THEN n ELSE Len(text))

\* What each strategy finds, in their order: the first word, four, three or two
\* words, any part.
Tries(text) ==
  <<ByShortName(FirstWords(1, text)), ByShortName(FirstWords(4, text)),
    ByShortName(FirstWords(3, text)), ByShortName(FirstWords(2, text)),
    {n \in Occurring(text) : \A o \in Occurring(text) : n <= o}>>

Recognised(text) ==
  LET found == {n \in DOMAIN Tries(text) : Tries(text)[n] # {}}
  IN  IF found = {} THEN {} ELSE Tries(text)[Earliest(found)]

\* resolveNameMatch: a name alone verifies nothing.
NameMatchVerifies(c, authority) == "VERIFIED"                             \* a mistake
NameMatch(c, authority) == IF c.number = authority.number THEN "VERIFIED" ELSE "CHECK"

\* validateCitation reads the citation string only.
Curated(c) ==
  IF Recognised(c.words) = {} THEN "QUARANTINED"
  ELSE NameMatch(c, Authorities[CHOOSE n \in Recognised(c.words) : TRUE])

-----------------------------------------------------------------------------
(* verifyCitation.                                                         *)

\* significantPartyTokens.
WordsOf(name)     == {name[n] : n \in DOMAIN name}
Significant(name) == WordsOf(name) \ Boilerplate

Contradicts(name, title) == Significant(name) # {} /\ Significant(name) \cap WordsOf(title) = {}

\* The name a matching number is checked against.
NameToCheck(c)     == IF c.name # NoName THEN c.name ELSE c.words

KeyByNumber(c) == [number |-> c.number, name |-> NoName]                 \* a mistake
\* The name as it is given apart; the words beside the number are not in the key.
Key(c)         == [number |-> c.number, name |-> c.name]

Fresh(k) == cache[k] # NoEntry /\ clock - cache[k].at < Ttl

\* What is asked of the archive, and nothing if there is neither number nor name.
Query(c) == IF c.number # NoNumber THEN <<c.number>> ELSE c.name

\* parseAtomFeed and the rest of verifyCitation: the verdict on a response.
Verdict(c, hits) ==
  CASE hits = "nothing" -> "QUARANTINED"
    [] hits = "exact"   -> IF Contradicts(NameToCheck(c), TitleOf[c.number])
                           THEN "CHECK" ELSE "VERIFIED"
    [] hits = "related" -> "CHECK"

\* What the caller is told, once the live verdict, one reached for o, is known.
Told(c, o, live) ==
  answered' =
    [at |-> "answered", citation |-> c, of |-> o, time |-> clock, live |-> live,
     trust |-> CASE live = "VERIFIED"    -> "VERIFIED"
                 [] live = "unavailable" -> Curated(c)
                 [] OTHER                -> HigherTrust(Curated(c), live)]

AnsweredAtOnce(c) ==
  /\ Curated(c) = "VERIFIED"
  /\ Told(c, c, "VERIFIED")
  /\ UNCHANGED calls

AnsweredFromCache(c) ==
  /\ Curated(c) # "VERIFIED"
  /\ Fresh(Key(c))
  /\ Told(c, cache[Key(c)].of, cache[Key(c)].trust)
  /\ UNCHANGED calls

NothingToVerify(c) ==
  /\ Curated(c) # "VERIFIED" /\ ~Fresh(Key(c))
  /\ Query(c) = << >>
  /\ Told(c, c, "QUARANTINED")
  /\ UNCHANGED calls

SearchStarts(i, c) ==
  /\ Curated(c) # "VERIFIED" /\ ~Fresh(Key(c))
  /\ Query(c) # << >>
  /\ calls' = [calls EXCEPT ![i] = [at |-> "asked", citation |-> c, since |-> clock]]
  /\ UNCHANGED answered

Validate(i, c) ==
  /\ calls[i] = Idle
  /\ \/ AnsweredAtOnce(c) \/ AnsweredFromCache(c)
     \/ NothingToVerify(c) \/ SearchStarts(i, c)
  /\ UNCHANGED <<clock, published, cache>>

InArchive(c) == c.number \in Numbers /\ published[c.number] # Never

\* External: the archive looks.  A published judgment is among the hits for its
\* number; judgments that merely mention it, or have a like name, may be too.
Archive(i) ==
  LET c == calls[i].citation IN
  /\ calls[i].at = "asked"
  /\ \E hits \in {"exact", "related", "nothing"} :
       /\ (hits = "exact") <=> InArchive(c)
       /\ calls' = [calls EXCEPT ![i] =
            [at |-> "looked", citation |-> c, since |-> calls[i].since, hits |-> hits]]
  /\ UNCHANGED <<clock, published, cache, answered>>

StampAsExpiry == clock + Ttl                                              \* a mistake
Stamp         == clock

\* An answer of the archive is kept, whatever it says, with the time.
Received(i) ==
  LET c == calls[i].citation
      v == Verdict(c, calls[i].hits)
  IN  /\ calls[i].at = "looked"
      /\ cache' = [cache EXCEPT ![Key(c)] = [at |-> Stamp, trust |-> v, of |-> c]]
      /\ Told(c, c, v)
      /\ calls' = [calls EXCEPT ![i] = Idle]
      /\ UNCHANGED <<clock, published>>

\* A refusal (404 apart), a network error, or the timer: nothing is kept.
FailedAsNotFound(c) ==                                                    \* a mistake
  [cache EXCEPT ![Key(c)] = [at |-> clock, trust |-> "QUARANTINED", of |-> c]]
Failed(c)           == cache

Outage(i) ==
  LET c == calls[i].citation IN
  /\ calls[i].at \in {"asked", "looked"}
  /\ cache' = Failed(c)
  /\ Told(c, c, "unavailable")
  /\ calls' = [calls EXCEPT ![i] = Idle]
  /\ UNCHANGED <<clock, published>>

Publish(n) ==
  /\ published[n] = Never
  /\ published' = [published EXCEPT ![n] = clock]
  /\ UNCHANGED <<clock, cache, calls, answered>>

\* The timer stops a search that takes longer than Timeout.
Tick ==
  /\ clock < LastHour
  /\ \A i \in Calls : calls[i] # Idle => clock < calls[i].since + Timeout
  /\ clock' = clock + 1
  /\ UNCHANGED <<published, cache, calls, answered>>

GoesOn(i) == Archive(i) \/ Received(i) \/ Outage(i)

CaseLawNext ==
  \/ Tick
  \/ \E n \in Numbers : Publish(n)
  \/ \E i \in Calls : (\E c \in Citations : Validate(i, c)) \/ GoesOn(i)

CaseLawSpec == CaseLawInit /\ [][CaseLawNext]_caseLawVars

-----------------------------------------------------------------------------
(* Properties.                                                             *)

\* Verdicts are of the known kinds, and nothing is dated later than now.
CaseLawTypeOK ==
  /\ clock \in 0..LastHour
  /\ \A n \in Numbers : published[n] = Never \/ published[n] <= clock
  /\ \A k \in LawKeys : cache[k] # NoEntry =>
       cache[k].trust \in Trusts /\ cache[k].at \in 0..clock
  /\ answered # Idle => /\ answered.trust \in Trusts
                        /\ answered.live \in Trusts \cup {"unavailable"}

Listed(c) == \E n \in DOMAIN Authorities : /\ Authorities[n].number = c.number
                                           /\ n \in Occurring(c.words)

\* The archive holds the number, under a title that the name given with it, or
\* else the words beside it, does not contradict.
Matches(c) == InArchive(c) /\ ~Contradicts(NameToCheck(c), TitleOf[c.number])

\* A citation without a name of its own, told what was found for another of the
\* same number and other words: the words are not in the cache's key.
Borrowed == LET c == answered.citation IN
            c.name = NoName /\ answered.of # c /\ Key(answered.of) = Key(c)

\* An authority stamped VERIFIED is on the curated list under that name and
\* number, or is in the archive under that number and a title that its own name
\* or words do not contradict, whether the verdict is fresh or another call's:
\* borrowed by words alone, it is right of the words it was reached for.
VerifiedIsGenuine ==
  answered # Idle /\ answered.trust = "VERIFIED" =>
    \/ Listed(answered.citation)
    \/ Matches(answered.citation)
    \/ Borrowed /\ Matches(answered.of)

\* "a matching neutral-citation NUMBER is NOT sufficient to VERIFY ...
\* Cross-check the cited party name against the matched title before returning
\* VERIFIED", also the name recovered "from a hostile citation-only input".
NumberIsNotSufficient ==
  answered # Idle /\ answered.trust = "VERIFIED" =>
    Listed(answered.citation) \/ Matches(answered.citation)

\* A judgment in the archive is denied by no verdict but those of searches that
\* began before it was there: no later than the cache's hour and one timeout
\* afterwards, whatever outages and overlapping calls there were.
PublishedIsFound ==
  answered # Idle /\ answered.live = "QUARANTINED" /\ InArchive(answered.citation) =>
    answered.time < published[answered.citation.number] + Ttl + Timeout

\* A verdict on a citation is right both ways, from the list, the archive or the
\* cache: what is verified is genuine, and what is published is not denied.
VerdictsAreRight == VerifiedIsGenuine /\ PublishedIsFound

=============================================================================
