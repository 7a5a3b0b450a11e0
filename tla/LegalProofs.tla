----------------------------- MODULE LegalProofs -----------------------------
(***************************************************************************)
(* Proofs about what the application says of the law: the verdicts on      *)
(* citations, the claims of the engine and the case that intake makes, for *)
(* every record, answer of a model, archive and calendar.                  *)
(***************************************************************************)
EXTENDS MCLegal, CaseDatesProofs, WellFoundedInduction

-----------------------------------------------------------------------------
\* The first of some places in a list.
LEMMA LeastExists ==
  ASSUME NEW places \in SUBSET Nat, places # {}
  PROVE  \E n \in places : \A o \in places : n <= o
  <1>1. IsWellFoundedOn(OpToRel(<, Nat), Nat)
    BY NatLessThanWellFounded
  <1>2. PICK n \in places : \A o \in places : ~ (<<o, n>> \in OpToRel(<, Nat))
    BY <1>1, WFMin
  <1>3. \A o \in places : ~ (o < n)
    BY <1>2 DEF OpToRel
  <1> QED BY <1>3

-----------------------------------------------------------------------------
(* CaseLaw.                                                                *)

\* A strategy of the curated list finds only authorities whose name occurs in
\* the text: the short names looked up are parts of it.
LEMMA FirstWordsOccur ==
  ASSUME NEW text \in Seq(STRING), NEW n \in 1..4
  PROVE  ByShortName(FirstWords(n, text)) \subseteq Occurring(text)
  <1> SUFFICES ASSUME NEW a \in DOMAIN Authorities,
                      Authorities[a].short = FirstWords(n, text)
               PROVE  a \in Occurring(text)
    BY DEF ByShortName
  <1> DEFINE m == IF n < Len(text) THEN n ELSE Len(text)
  <1>1. FirstWords(n, text) # << >>
    BY CaseLawAssumption
  <1>2. m \in 1..Len(text)
    <2>1. Len(text) # 0
      BY <1>1 DEF FirstWords
    <2> QED BY <2>1
  <1>3. 1 \in 1..Len(text)
    BY <1>2
  <1>4. SubSeq(text, 1, m) = Authorities[a].short
    BY DEF FirstWords
  <1>5. Within(Authorities[a].short, text)
    BY <1>2, <1>3, <1>4 DEF Within
  <1> QED BY <1>5 DEF Occurring

LEMMA TriesOccur ==
  ASSUME NEW text \in Seq(STRING), NEW t \in 1..5
  PROVE  Tries(text)[t] \subseteq Occurring(text)
  <1>1. CASE t = 1
    BY <1>1, FirstWordsOccur DEF Tries
  <1>2. CASE t = 2
    BY <1>2, FirstWordsOccur DEF Tries
  <1>3. CASE t = 3
    BY <1>3, FirstWordsOccur DEF Tries
  <1>4. CASE t = 4
    BY <1>4, FirstWordsOccur DEF Tries
  <1>5. CASE t = 5
    BY <1>5 DEF Tries
  <1> QED BY <1>1, <1>2, <1>3, <1>4, <1>5

LEMMA EarliestIsFirst ==
  ASSUME NEW places \in SUBSET Nat, places # {}
  PROVE  /\ Earliest(places) \in places
         /\ \A o \in places : Earliest(places) <= o
  BY LeastExists DEF Earliest

LEMMA RecognisedOccur ==
  ASSUME NEW text \in Seq(STRING)
  PROVE  Recognised(text) \subseteq Occurring(text)
  <1> DEFINE found == {n \in DOMAIN Tries(text) : Tries(text)[n] # {}}
  <1>1. DOMAIN Tries(text) = 1..5
    BY DEF Tries
  <1>2. found \in SUBSET Nat
    BY <1>1
  <1>3. CASE found = {}
    BY <1>3 DEF Recognised
  <1>4. CASE found # {}
    <2>1. Earliest(found) \in found
      BY <1>2, <1>4, EarliestIsFirst
    <2>2. Earliest(found) \in 1..5
      BY <2>1, <1>1
    <2>3. Recognised(text) = Tries(text)[Earliest(found)]
      BY <1>4 DEF Recognised
    <2> QED BY <2>2, <2>3, TriesOccur
  <1> QED BY <1>3, <1>4

\* validateCitation: a name and number of the list, or no verification.
LEMMA CuratedIsListed ==
  ASSUME NEW c \in Citations
  PROVE  /\ Curated(c) \in Trusts
         /\ Curated(c) = "VERIFIED" => Listed(c)
  <1>1. c.words \in Seq(STRING)
    BY CaseLawAssumption
  <1>2. CASE Recognised(c.words) = {}
    BY <1>2 DEF Curated, Trusts
  <1>3. CASE Recognised(c.words) # {}
    <2> DEFINE n == CHOOSE n \in Recognised(c.words) : TRUE
    <2>1. n \in Recognised(c.words)
      BY <1>3
    <2>2. n \in Occurring(c.words)
      BY <1>1, <2>1, RecognisedOccur
    <2>3. Curated(c) = NameMatch(c, Authorities[n])
      BY <1>3 DEF Curated
    <2>4. n \in DOMAIN Authorities
      BY <2>2 DEF Occurring
    <2> HIDE DEF n
    <2>5. Curated(c) \in Trusts
      BY <2>3 DEF NameMatch, Trusts
    <2>6. Curated(c) = "VERIFIED" => c.number = Authorities[n].number
      BY <2>3 DEF NameMatch
    <2> QED BY <2>2, <2>4, <2>5, <2>6 DEF Listed
  <1> QED BY <1>2, <1>3

\* Of a verdict for a key: it was right when it was given, and denies nothing
\* that was there when its search began, at the latest one timeout before.
Earned(o, trust) == trust = "VERIFIED" => Matches(o)
Denied(number, trust, at) ==
  trust = "QUARANTINED" /\ number \in Numbers /\ published[number] # Never =>
    at <= published[number] + Timeout

PublishedTyped ==
  /\ clock \in 0..LastHour
  /\ published \in [Numbers -> Nat]
  /\ \A n \in Numbers : published[n] = Never \/ published[n] <= clock

CacheInv ==
  /\ DOMAIN cache = LawKeys
  /\ \A k \in LawKeys : cache[k] # NoEntry =>
       /\ cache[k].trust \in Trusts /\ cache[k].at \in 0..clock
       /\ cache[k].of \in Citations /\ Key(cache[k].of) = k
       /\ Earned(cache[k].of, cache[k].trust)
       /\ Denied(k.number, cache[k].trust, cache[k].at)

\* A search under way began no longer ago than the timer allows; what it has
\* been told was true when it looked.
SearchInv ==
  /\ DOMAIN calls = Calls
  /\ \A i \in Calls : calls[i] # Idle =>
       /\ calls[i].at \in {"asked", "looked"}
       /\ calls[i].citation \in Citations
       /\ calls[i].since \in 0..clock /\ clock <= calls[i].since + Timeout
       /\ calls[i].at = "looked" =>
            /\ calls[i].hits \in {"exact", "related", "nothing"}
            /\ calls[i].hits = "exact" => InArchive(calls[i].citation)
            /\ calls[i].hits # "exact" /\ InArchive(calls[i].citation) =>
                 calls[i].since <= published[calls[i].citation.number]

AnswerInv ==
  answered # Idle =>
    /\ answered.citation \in Citations
    /\ answered.time \in 0..clock
    /\ answered.trust \in Trusts /\ answered.live \in Trusts \cup {"unavailable"}
    /\ VerdictsAreRight

CaseLawInv == PublishedTyped /\ CacheInv /\ SearchInv /\ AnswerInv

\* What VerifiedIsGenuine asks of a citation and the one its verdict is from.
Genuine(c, o) ==
  Listed(c) \/ Matches(c) \/ (c.name = NoName /\ o # c /\ Key(o) = Key(c) /\ Matches(o))

LEMMA KeysAreKeys == \A c \in Citations : Key(c) \in LawKeys
  BY DEF Key, LawKeys

LEMMA NeverIsLate == Never \in Nat /\ Never > LastHour /\ LastHour \in Nat
  BY CaseLawAssumption DEF Never

LEMMA LawStarts == CaseLawInit => CaseLawInv
  <1> SUFFICES ASSUME CaseLawInit PROVE CaseLawInv
    OBVIOUS
  <1>1. PublishedTyped
    BY NeverIsLate DEF CaseLawInit, PublishedTyped
  <1>2. CacheInv
    BY DEF CaseLawInit, CacheInv
  <1>3. SearchInv
    BY DEF CaseLawInit, SearchInv
  <1>4. AnswerInv
    BY DEF CaseLawInit, AnswerInv
  <1> QED BY <1>1, <1>2, <1>3, <1>4 DEF CaseLawInv

\* What the caller is told: right, if the live verdict on the citation is.
LEMMA ToldIsRight ==
  ASSUME CaseLawInv, NEW c \in Citations, NEW o, NEW live \in Trusts \cup {"unavailable"},
         Told(c, o, live), UNCHANGED <<clock, published>>,
         live = "VERIFIED" => Genuine(c, o),
         live = "QUARANTINED" /\ InArchive(c) =>
           clock < published[c.number] + Ttl + Timeout
  PROVE  AnswerInv'
  <1>1. /\ answered'.citation = c /\ answered'.of = o
        /\ answered'.time = clock /\ answered'.live = live
        /\ answered'.trust = CASE live = "VERIFIED"    -> "VERIFIED"
                               [] live = "unavailable" -> Curated(c)
                               [] OTHER                -> HigherTrust(Curated(c), live)
    BY DEF Told
  <1>2. Curated(c) \in Trusts /\ (Curated(c) = "VERIFIED" => Listed(c))
    BY CuratedIsListed
  <1>3. HigherTrust(Curated(c), live) \in {Curated(c), live}
    BY DEF HigherTrust
  <1>4. answered'.trust \in Trusts
    BY <1>1, <1>2, <1>3 DEF Trusts
  <1>5. answered'.trust = "VERIFIED" => Genuine(c, o)
    BY <1>1, <1>2, <1>3 DEF Genuine
  <1>6. \A d : InArchive(d)' <=> InArchive(d)
    BY DEF InArchive
  <1>7. \A d : Matches(d)' <=> Matches(d)
    BY <1>6 DEF Matches
  <1>8. VerifiedIsGenuine'
    BY <1>1, <1>5, <1>7 DEF VerifiedIsGenuine, Borrowed, Genuine
  <1>9. PublishedIsFound'
    BY <1>1, <1>6 DEF PublishedIsFound
  <1>10. clock \in 0..clock
    BY DEF CaseLawInv, PublishedTyped
  <1> QED BY <1>1, <1>4, <1>8, <1>9, <1>10 DEF AnswerInv, VerdictsAreRight

\* A verdict from the cache is right of the citation that it was reached for,
\* and of every other with its number and name, unless that is no name at all.
LEMMA CachedIsRight ==
  ASSUME CaseLawInv, NEW c \in Citations, Fresh(Key(c))
  PROVE  /\ cache[Key(c)].trust \in Trusts
         /\ cache[Key(c)].trust = "VERIFIED" => Genuine(c, cache[Key(c)].of)
         /\ cache[Key(c)].trust = "QUARANTINED" /\ InArchive(c) =>
              clock < published[c.number] + Ttl + Timeout
  <1> DEFINE k == Key(c)
             o == cache[k].of
  <1>1. k \in LawKeys /\ k.number = c.number
    BY KeysAreKeys DEF Key
  <1>2. cache[k] # NoEntry /\ clock - cache[k].at < Ttl
    BY DEF Fresh
  <1> HIDE DEF k
  <1>3. /\ cache[k].trust \in Trusts /\ cache[k].at \in 0..clock
        /\ Key(o) = k /\ Earned(o, cache[k].trust)
        /\ Denied(c.number, cache[k].trust, cache[k].at)
    BY <1>1, <1>2 DEF CaseLawInv, CacheInv
  <1>4. ASSUME cache[k].trust = "VERIFIED" PROVE Genuine(c, o)
    <2>1. Matches(o) /\ Key(o) = Key(c)
      BY <1>3, <1>4 DEF Earned, k
    <2>2. o.number = c.number /\ o.name = c.name
      BY <2>1 DEF Key
    <2>3. c.name # NoName => Matches(c)
      BY <2>1, <2>2 DEF Matches, InArchive, NameToCheck
    <2> QED BY <2>1, <2>3 DEF Genuine
  <1>5. ASSUME cache[k].trust = "QUARANTINED", InArchive(c)
        PROVE  clock < published[c.number] + Ttl + Timeout
    <2>1. cache[k].at <= published[c.number] + Timeout
      BY <1>3, <1>5 DEF Denied, InArchive
    <2>2. published[c.number] \in Nat /\ clock \in Nat
      BY <1>5 DEF InArchive, CaseLawInv, PublishedTyped
    <2> QED BY <1>2, <1>3, <2>1, <2>2, CaseLawAssumption
  <1>6. cache[k].trust = "VERIFIED" => Genuine(c, o)
    BY <1>4
  <1>7. cache[k].trust = "QUARANTINED" /\ InArchive(c) => clock < published[c.number] + Ttl + Timeout
    BY <1>5
  <1> QED BY <1>3, <1>6, <1>7 DEF k

LEMMA ValidateStep ==
  ASSUME CaseLawInv, NEW i \in Calls, NEW c \in Citations, Validate(i, c)
  PROVE  CaseLawInv'
  <1>1. UNCHANGED <<clock, published, cache>>
    BY DEF Validate
  <1>2. PublishedTyped' /\ CacheInv'
    BY <1>1 DEF CaseLawInv, PublishedTyped, CacheInv, Earned, Denied, Matches, InArchive
  <1>3. CASE AnsweredAtOnce(c)
    <2>1. Listed(c)
      BY <1>3, CuratedIsListed DEF AnsweredAtOnce
    <2>2. AnswerInv'
      BY <1>1, <1>3, <2>1, ToldIsRight DEF AnsweredAtOnce, Genuine, Trusts
    <2>3. SearchInv'
      BY <1>1, <1>3 DEF AnsweredAtOnce, CaseLawInv, SearchInv, InArchive
    <2> QED BY <1>2, <2>2, <2>3 DEF CaseLawInv
  <1>4. CASE AnsweredFromCache(c)
    <2>1. AnswerInv'
      BY <1>1, <1>4, CachedIsRight, ToldIsRight DEF AnsweredFromCache
    <2>2. SearchInv'
      BY <1>1, <1>4 DEF AnsweredFromCache, CaseLawInv, SearchInv, InArchive
    <2> QED BY <1>2, <2>1, <2>2 DEF CaseLawInv
  <1>5. CASE NothingToVerify(c)
    <2>1. c.number = NoNumber
      BY <1>5 DEF NothingToVerify, Query
    <2>2. ~ InArchive(c)
      BY <2>1, CaseLawAssumption DEF InArchive
    <2>3. AnswerInv'
      BY <1>1, <1>5, <2>2, ToldIsRight DEF NothingToVerify, Trusts
    <2>4. SearchInv'
      BY <1>1, <1>5 DEF NothingToVerify, CaseLawInv, SearchInv, InArchive
    <2> QED BY <1>2, <2>3, <2>4 DEF CaseLawInv
  <1>6. CASE SearchStarts(i, c)
    <2> DEFINE started == [at |-> "asked", citation |-> c, since |-> clock]
    <2>1. calls' = [calls EXCEPT ![i] = started] /\ UNCHANGED answered
      BY <1>6 DEF SearchStarts
    <2>2. started.at = "asked" /\ started.citation = c /\ started.since = clock
      OBVIOUS
    <2> HIDE DEF started
    <2>3. clock \in 0..clock /\ clock <= clock + Timeout
      BY CaseLawAssumption DEF CaseLawInv, PublishedTyped
    <2>4. SearchInv'
      BY <1>1, <2>1, <2>2, <2>3 DEF CaseLawInv, SearchInv, InArchive
    <2>5. AnswerInv'
      BY <1>1, <2>1
      DEF CaseLawInv, AnswerInv, VerdictsAreRight, VerifiedIsGenuine, Borrowed, Matches, PublishedIsFound, InArchive
    <2> QED BY <1>2, <2>4, <2>5 DEF CaseLawInv
  <1> QED BY <1>3, <1>4, <1>5, <1>6 DEF Validate

LEMMA ArchiveStep ==
  ASSUME CaseLawInv, NEW i \in Calls, Archive(i)
  PROVE  CaseLawInv'
  <1> DEFINE c == calls[i].citation
  <1>1. calls[i].at = "asked" /\ calls[i] # Idle
    BY DEF Archive, Idle
  <1>2. UNCHANGED <<clock, published, cache, answered>>
    BY DEF Archive
  <1>3. c \in Citations /\ calls[i].since \in 0..clock /\ clock <= calls[i].since + Timeout
    BY <1>1 DEF CaseLawInv, SearchInv
  <1>4. PICK hits \in {"exact", "related", "nothing"} :
          /\ (hits = "exact") <=> InArchive(c)
          /\ calls' = [calls EXCEPT ![i] =
               [at |-> "looked", citation |-> c, since |-> calls[i].since, hits |-> hits]]
    BY DEF Archive
  <1> DEFINE looked == [at |-> "looked", citation |-> c, since |-> calls[i].since, hits |-> hits]
  <1>5. calls' = [calls EXCEPT ![i] = looked]
    BY <1>4
  <1>6. /\ looked.at = "looked" /\ looked.citation = c
        /\ looked.since = calls[i].since /\ looked.hits = hits
    OBVIOUS
  <1> HIDE DEF c, looked
  <1>7. PublishedTyped' /\ CacheInv'
    BY <1>2 DEF CaseLawInv, PublishedTyped, CacheInv, Earned, Denied, Matches, InArchive
  <1>8. AnswerInv'
    BY <1>2
    DEF CaseLawInv, AnswerInv, VerdictsAreRight, VerifiedIsGenuine, Borrowed, Matches, PublishedIsFound, InArchive
  <1>9. SearchInv'
    BY <1>2, <1>3, <1>4, <1>5, <1>6 DEF CaseLawInv, SearchInv, InArchive
  <1> QED BY <1>7, <1>8, <1>9 DEF CaseLawInv

\* The verdict on a response is right when the search looked, and was begun no
\* longer ago than the timer allows.
LEMMA VerdictIsRight ==
  ASSUME CaseLawInv, NEW i \in Calls, calls[i].at = "looked",
         NEW c, c = calls[i].citation, NEW v, v = Verdict(c, calls[i].hits)
  PROVE  /\ c \in Citations
         /\ v \in Trusts
         /\ Earned(c, v)
         /\ Denied(c.number, v, clock)
  <1> SUFFICES c \in Citations /\ v \in Trusts
               /\ (v = "VERIFIED" => Matches(c))
               /\ (v = "QUARANTINED" /\ InArchive(c) => clock <= published[c.number] + Timeout)
    BY DEF Earned, Denied, InArchive
  <1>1. calls[i] # Idle
    BY DEF Idle
  <1>2. /\ c \in Citations
        /\ calls[i].since \in 0..clock /\ clock <= calls[i].since + Timeout
        /\ calls[i].hits \in {"exact", "related", "nothing"}
        /\ calls[i].hits = "exact" => InArchive(c)
        /\ calls[i].hits # "exact" /\ InArchive(c) => calls[i].since <= published[c.number]
    BY <1>1 DEF CaseLawInv, SearchInv
  <1>3. /\ v \in Trusts
        /\ v = "VERIFIED" => /\ calls[i].hits = "exact"
                             /\ ~ Contradicts(NameToCheck(c), TitleOf[c.number])
        /\ v = "QUARANTINED" => calls[i].hits # "exact"
    BY <1>2 DEF Verdict, Trusts
  <1>4. v = "VERIFIED" => Matches(c)
    BY <1>2, <1>3 DEF Matches
  <1>5. ASSUME v = "QUARANTINED", InArchive(c) PROVE clock <= published[c.number] + Timeout
    <2>1. calls[i].since <= published[c.number]
      BY <1>2, <1>3, <1>5
    <2>2. published[c.number] \in Nat /\ clock \in Nat
      BY <1>5 DEF InArchive, CaseLawInv, PublishedTyped
    <2> QED BY <1>2, <2>1, <2>2, CaseLawAssumption
  <1> QED BY <1>2, <1>3, <1>4, <1>5

LEMMA ReceivedStep ==
  ASSUME CaseLawInv, NEW i \in Calls, Received(i)
  PROVE  CaseLawInv'
  <1> DEFINE c == calls[i].citation
             v == Verdict(c, calls[i].hits)
             entry == [at |-> Stamp, trust |-> v, of |-> c]
  <1>1. /\ calls[i].at = "looked"
        /\ cache' = [cache EXCEPT ![Key(c)] = entry]
        /\ Told(c, c, v)
        /\ calls' = [calls EXCEPT ![i] = Idle]
        /\ UNCHANGED <<clock, published>>
    BY DEF Received
  <1>2. /\ c \in Citations /\ v \in Trusts
        /\ Earned(c, v) /\ Denied(c.number, v, clock)
    BY <1>1, VerdictIsRight
  <1>3. entry.at = clock /\ entry.trust = v /\ entry.of = c
    BY DEF Stamp
  <1>4. Key(c) \in LawKeys /\ Key(c).number = c.number
    BY <1>2, KeysAreKeys DEF Key
  <1>5. clock \in Nat /\ clock \in 0..clock /\ published \in [Numbers -> Nat]
    BY DEF CaseLawInv, PublishedTyped
  <1> HIDE DEF c, v, entry
  <1>6. PublishedTyped'
    BY <1>1 DEF CaseLawInv, PublishedTyped
  <1>7. CacheInv'
    BY <1>1, <1>2, <1>3, <1>4, <1>5 DEF CaseLawInv, CacheInv, Earned, Denied, Matches, InArchive
  <1>8. SearchInv'
    BY <1>1 DEF CaseLawInv, SearchInv, InArchive
  <1>9. v = "QUARANTINED" /\ InArchive(c) => clock < published[c.number] + Ttl + Timeout
    <2> SUFFICES ASSUME v = "QUARANTINED", InArchive(c)
                 PROVE  clock < published[c.number] + Ttl + Timeout
      OBVIOUS
    <2>1. clock <= published[c.number] + Timeout /\ published[c.number] \in Nat
      BY <1>2, <1>5 DEF Denied, InArchive
    <2> QED BY <1>5, <2>1, CaseLawAssumption
  <1>10. v = "VERIFIED" => Genuine(c, c)
    BY <1>2 DEF Earned, Genuine
  <1>11. AnswerInv'
    BY <1>1, <1>2, <1>9, <1>10, ToldIsRight
  <1> QED BY <1>6, <1>7, <1>8, <1>11 DEF CaseLawInv

LEMMA OutageStep ==
  ASSUME CaseLawInv, NEW i \in Calls, Outage(i)
  PROVE  CaseLawInv'
  <1> DEFINE c == calls[i].citation
  <1>1. /\ calls[i].at \in {"asked", "looked"} /\ UNCHANGED <<clock, published, cache>>
        /\ Told(c, c, "unavailable")
        /\ calls' = [calls EXCEPT ![i] = Idle]
    BY DEF Outage, Failed
  <1>2. c \in Citations
    BY <1>1 DEF CaseLawInv, SearchInv, Idle
  <1> HIDE DEF c
  <1>3. PublishedTyped' /\ CacheInv'
    BY <1>1 DEF CaseLawInv, PublishedTyped, CacheInv, Earned, Denied, Matches, InArchive
  <1>4. SearchInv'
    BY <1>1 DEF CaseLawInv, SearchInv, InArchive
  <1>5. AnswerInv'
    BY <1>1, <1>2, ToldIsRight
  <1> QED BY <1>3, <1>4, <1>5 DEF CaseLawInv

\* What the archive gains now was not there before, and nothing already said
\* of it is yet too old.
LEMMA PublishStep ==
  ASSUME CaseLawInv, NEW n \in Numbers, Publish(n)
  PROVE  CaseLawInv'
  <1>1. /\ published[n] = Never /\ published' = [published EXCEPT ![n] = clock]
        /\ UNCHANGED <<clock, cache, calls, answered>>
    BY DEF Publish
  <1>2. clock \in Nat /\ clock <= LastHour /\ clock # Never
    BY NeverIsLate DEF CaseLawInv, PublishedTyped
  <1>3. \A m \in Numbers : /\ published[m] # Never => published'[m] = published[m]
                           /\ published'[m] # Never => published'[m] = published[m] \/ published'[m] = clock
    BY <1>1, <1>2 DEF CaseLawInv, PublishedTyped
  <1>4. PublishedTyped'
    BY <1>1, <1>2 DEF CaseLawInv, PublishedTyped
  <1>5. published \in [Numbers -> Nat] /\ published' \in [Numbers -> Nat]
    BY <1>4 DEF CaseLawInv, PublishedTyped
  <1>6. CacheInv'
    <2> SUFFICES ASSUME NEW k \in LawKeys, cache[k] # NoEntry
                 PROVE  /\ Earned(cache[k].of, cache[k].trust)'
                        /\ Denied(k.number, cache[k].trust, cache[k].at)'
      BY <1>1 DEF CaseLawInv, CacheInv
    <2>1. /\ Earned(cache[k].of, cache[k].trust) /\ cache[k].at \in 0..clock
          /\ Denied(k.number, cache[k].trust, cache[k].at)
      BY DEF CaseLawInv, CacheInv
    <2>2. Earned(cache[k].of, cache[k].trust)'
      BY <1>1, <1>3, <2>1 DEF Earned, Matches, InArchive
    <2>3. Denied(k.number, cache[k].trust, cache[k].at)'
      BY <1>1, <1>2, <1>3, <1>5, <2>1, CaseLawAssumption DEF Denied
    <2> QED BY <2>2, <2>3
  <1>7. \A c : InArchive(c) => InArchive(c)' /\ published'[c.number] = published[c.number]
    BY <1>3 DEF InArchive
  <1>8. \A c : InArchive(c)' /\ ~ InArchive(c) => published'[c.number] = clock
    BY <1>3 DEF InArchive
  <1>9. SearchInv'
    <2> SUFFICES ASSUME NEW i \in Calls, calls[i] # Idle, calls[i].at = "looked",
                        NEW c, c = calls[i].citation
                 PROVE  /\ calls[i].hits = "exact" => InArchive(c)'
                        /\ calls[i].hits # "exact" /\ InArchive(c)' =>
                             calls[i].since <= published'[c.number]
      BY <1>1 DEF CaseLawInv, SearchInv
    <2>1. /\ calls[i].since \in 0..clock
          /\ calls[i].hits = "exact" => InArchive(c)
          /\ calls[i].hits # "exact" /\ InArchive(c) =>
               calls[i].since <= published[c.number]
      BY DEF CaseLawInv, SearchInv
    <2>2. ASSUME InArchive(c)', ~ InArchive(c) PROVE calls[i].since <= published'[c.number]
      <3>1. published'[c.number] = clock
        BY <1>8, <2>2
      <3> QED BY <1>2, <2>1, <3>1
    <2>3. InArchive(c) => published'[c.number] = published[c.number]
      BY <1>7
    <2> QED BY <1>7, <2>1, <2>2, <2>3
  <1>10. AnswerInv'
    <2> SUFFICES ASSUME answered # Idle, NEW c, c = answered.citation PROVE VerdictsAreRight'
      BY <1>1 DEF CaseLawInv, AnswerInv
    <2>1. answered.time \in 0..clock /\ VerifiedIsGenuine /\ PublishedIsFound
      BY DEF CaseLawInv, AnswerInv, VerdictsAreRight
    <2>2. VerifiedIsGenuine'
      BY <1>1, <1>7, <2>1 DEF VerifiedIsGenuine, Borrowed, Matches
    <2>3. ASSUME answered.live = "QUARANTINED", InArchive(c)'
          PROVE  answered.time < published'[c.number] + Ttl + Timeout
      <3>1. CASE InArchive(c)
        BY <1>7, <2>1, <2>3, <3>1 DEF PublishedIsFound
      <3>2. CASE ~ InArchive(c)
        <4>1. published'[c.number] = clock
          BY <1>8, <2>3, <3>2
        <4> QED BY <1>2, <2>1, <4>1, CaseLawAssumption
      <3> QED BY <3>1, <3>2
    <2>4. PublishedIsFound'
      BY <1>1, <2>3 DEF PublishedIsFound
    <2> QED BY <2>2, <2>4 DEF VerdictsAreRight
  <1> QED BY <1>4, <1>6, <1>9, <1>10 DEF CaseLawInv

LEMMA TickStep ==
  ASSUME CaseLawInv, Tick
  PROVE  CaseLawInv'
  <1>1. /\ clock < LastHour /\ clock' = clock + 1
        /\ \A i \in Calls : calls[i] # Idle => clock < calls[i].since + Timeout
        /\ UNCHANGED <<published, cache, calls, answered>>
    BY DEF Tick
  <1>2. clock \in Nat /\ LastHour \in Nat
    BY NeverIsLate DEF CaseLawInv, PublishedTyped
  <1>3. clock' \in 0..LastHour /\ \A t \in 0..clock : t \in 0..clock'
    BY <1>1, <1>2
  <1>4. PublishedTyped'
    BY <1>1, <1>2, <1>3 DEF CaseLawInv, PublishedTyped
  <1>5. CacheInv'
    BY <1>1, <1>3 DEF CaseLawInv, CacheInv, Earned, Denied, Matches, InArchive
  <1>6. SearchInv'
    <2> SUFFICES ASSUME NEW i \in Calls, calls[i] # Idle
                 PROVE  calls[i].since \in 0..clock' /\ clock' <= calls[i].since + Timeout
      BY <1>1 DEF CaseLawInv, SearchInv, InArchive
    <2>1. calls[i].since \in 0..clock
      BY DEF CaseLawInv, SearchInv
    <2> QED BY <1>1, <1>2, <1>3, <2>1, CaseLawAssumption
  <1>7. AnswerInv'
    BY <1>1, <1>3
    DEF CaseLawInv, AnswerInv, VerdictsAreRight, VerifiedIsGenuine, Borrowed, Matches, PublishedIsFound, InArchive
  <1> QED BY <1>4, <1>5, <1>6, <1>7 DEF CaseLawInv

LEMMA LawStands ==
  ASSUME CaseLawInv, UNCHANGED caseLawVars
  PROVE  CaseLawInv'
  <1>1. UNCHANGED <<clock, published, cache, calls, answered>>
    BY DEF caseLawVars
  <1>2. PublishedTyped'
    BY <1>1 DEF CaseLawInv, PublishedTyped
  <1>3. CacheInv'
    BY <1>1 DEF CaseLawInv, CacheInv, Earned, Denied, Matches, InArchive
  <1>4. SearchInv'
    BY <1>1 DEF CaseLawInv, SearchInv, InArchive
  <1>5. AnswerInv'
    BY <1>1
    DEF CaseLawInv, AnswerInv, VerdictsAreRight, VerifiedIsGenuine, Borrowed, Matches, PublishedIsFound, InArchive
  <1> QED BY <1>2, <1>3, <1>4, <1>5 DEF CaseLawInv

LEMMA LawAlways == CaseLawSpec => []CaseLawInv
  <1>1. CaseLawInv /\ [CaseLawNext]_caseLawVars => CaseLawInv'
    <2> SUFFICES ASSUME CaseLawInv, CaseLawNext \/ UNCHANGED caseLawVars PROVE CaseLawInv'
      OBVIOUS
    <2>1. CASE \E i \in Calls : (\E c \in Citations : Validate(i, c)) \/ GoesOn(i)
      BY <2>1, ValidateStep, ArchiveStep, ReceivedStep, OutageStep DEF GoesOn
    <2> QED BY <2>1, TickStep, PublishStep, LawStands DEF CaseLawNext
  <1> QED BY <1>1, LawStarts, PTL DEF CaseLawSpec

\* Verdicts, searches and answers keep their shape, for any list, archive,
\* citations, calls and outages.
THEOREM CaseLawTyped == CaseLawSpec => []CaseLawTypeOK
  <1>1. CaseLawInv => CaseLawTypeOK
    BY DEF CaseLawInv, PublishedTyped, CacheInv, AnswerInv, CaseLawTypeOK
  <1> QED BY <1>1, LawAlways, PTL

\* validateCitationAuthoritative and verifyCitation: however calls overlap, fail
\* and meet in the cache, what is verified is on the list or in the archive under
\* that number and the citation's own name or words, or was so for the other words
\* that a cached verdict without a name was reached for; and what has been
\* published is denied no longer than an hour and a timeout afterwards.
THEOREM VerdictsStayRight == CaseLawSpec => []VerdictsAreRight
  <1>1. CaseLawInv => VerdictsAreRight
    BY DEF CaseLawInv, AnswerInv, VerdictsAreRight, VerifiedIsGenuine, PublishedIsFound
  <1> QED BY <1>1, LawAlways, PTL
-----------------------------------------------------------------------------
(* ClaimEngine.                                                            *)

\* What the definitions have in common: the code answers only checks it has, no
\* element twice, and a dismissal only of claims whose limit runs from its date.
WellDefined(def) ==
  /\ def.checks \subseteq {"employee_status", "worker_status", "dismissal", "qualifying_service"}
  /\ def.checks \cap def.elements = {}
  /\ "dismissal" \notin def.elements
  /\ "dismissal" \in def.checks => def.family \in {"unfair_dismissal", "breach_of_contract"}

LEMMA DefinitionsAreWell ==
  ASSUME NEW n \in DOMAIN ClaimDefinitions
  PROVE  WellDefined(ClaimDefinitions[n])
  <1>1. WellDefined(UnfairDismissal)
    BY DEF WellDefined, UnfairDismissal, Definition, AnEmployee
  <1>2. WellDefined(WrongfulDismissal)
    BY DEF WellDefined, WrongfulDismissal, Definition, AnEmployee
  <1>3. WellDefined(DirectDiscrimination)
    BY DEF WellDefined, DirectDiscrimination, Definition, AnEmployee
  <1>4. WellDefined(IndirectDiscrimination)
    BY DEF WellDefined, IndirectDiscrimination, Definition, AnEmployee
  <1>5. WellDefined(Harassment)
    BY DEF WellDefined, Harassment, Definition, AnEmployee
  <1>6. WellDefined(Victimisation)
    BY DEF WellDefined, Victimisation, Definition, AnEmployee
  <1>7. WellDefined(ReasonableAdjustments)
    BY DEF WellDefined, ReasonableAdjustments, Definition, AnEmployee
  <1>8. WellDefined(Whistleblowing)
    BY DEF WellDefined, Whistleblowing, Definition, AnEmployee
  <1>9. WellDefined(UnlawfulDeductions)
    BY DEF WellDefined, UnlawfulDeductions, Definition, AnEmployee
  <1>10. WellDefined(FireAndRehire)
    BY DEF WellDefined, FireAndRehire, Definition, AnEmployee
  <1>11. WellDefined(ZeroHoursRights)
    BY DEF WellDefined, ZeroHoursRights, Definition, AnEmployee
  <1>20. DOMAIN ClaimDefinitions = 1..11
    BY DEF ClaimDefinitions
  <1>21. CASE n = 1
    <2>1. ClaimDefinitions[1] = UnfairDismissal
      BY DEF ClaimDefinitions
    <2> QED BY <1>1, <1>21, <2>1
  <1>22. CASE n = 2
    <2>1. ClaimDefinitions[2] = WrongfulDismissal
      BY DEF ClaimDefinitions
    <2> QED BY <1>2, <1>22, <2>1
  <1>23. CASE n = 3
    <2>1. ClaimDefinitions[3] = DirectDiscrimination
      BY DEF ClaimDefinitions
    <2> QED BY <1>3, <1>23, <2>1
  <1>24. CASE n = 4
    <2>1. ClaimDefinitions[4] = IndirectDiscrimination
      BY DEF ClaimDefinitions
    <2> QED BY <1>4, <1>24, <2>1
  <1>25. CASE n = 5
    <2>1. ClaimDefinitions[5] = Harassment
      BY DEF ClaimDefinitions
    <2> QED BY <1>5, <1>25, <2>1
  <1>26. CASE n = 6
    <2>1. ClaimDefinitions[6] = Victimisation
      BY DEF ClaimDefinitions
    <2> QED BY <1>6, <1>26, <2>1
  <1>27. CASE n = 7
    <2>1. ClaimDefinitions[7] = ReasonableAdjustments
      BY DEF ClaimDefinitions
    <2> QED BY <1>7, <1>27, <2>1
  <1>28. CASE n = 8
    <2>1. ClaimDefinitions[8] = Whistleblowing
      BY DEF ClaimDefinitions
    <2> QED BY <1>8, <1>28, <2>1
  <1>29. CASE n = 9
    <2>1. ClaimDefinitions[9] = UnlawfulDeductions
      BY DEF ClaimDefinitions
    <2> QED BY <1>9, <1>29, <2>1
  <1>30. CASE n = 10
    <2>1. ClaimDefinitions[10] = FireAndRehire
      BY DEF ClaimDefinitions
    <2> QED BY <1>10, <1>30, <2>1
  <1>31. CASE n = 11
    <2>1. ClaimDefinitions[11] = ZeroHoursRights
      BY DEF ClaimDefinitions
    <2> QED BY <1>11, <1>31, <2>1
  <1> QED BY <1>20, <1>21, <1>22, <1>23, <1>24, <1>25, <1>26, <1>27, <1>28, <1>29, <1>30, <1>31

LEMMA DefinitionsInOrder == DOMAIN ClaimDefinitions \subseteq Nat
  BY DEF ClaimDefinitions

LEMMA FirstIsFirst ==
  ASSUME NEW places \in SUBSET Nat, places # {}
  PROVE  /\ First(places) \in places
         /\ \A o \in places : First(places) <= o
  BY LeastExists DEF First

-----------------------------------------------------------------------------
\* Every check has one of the statuses.
LEMMA ChecksTyped ==
  ASSUME NEW el \in {"employee_status", "worker_status", "dismissal", "qualifying_service"}
  PROVE  Check(el).status \in Statuses /\ Check(el).by = "code"
  <1>1. StatusCheck(el).status \in Statuses /\ StatusCheck(el).by = "code"
    BY DEF StatusCheck, Checked, Statuses
  <1>2. DismissalCheck.status \in Statuses /\ DismissalCheck.by = "code"
    BY DEF DismissalCheck, Checked, Statuses
  <1>3. ServiceCheck.status \in Statuses /\ ServiceCheck.by = "code"
    BY DEF ServiceCheck, Checked, Statuses
  <1>4. CASE el \in {"employee_status", "worker_status"}
    BY <1>1, <1>4 DEF Check
  <1>5. CASE el = "dismissal"
    BY <1>2, <1>5 DEF Check
  <1>6. CASE el = "qualifying_service"
    BY <1>3, <1>6 DEF Check
  <1> QED BY <1>4, <1>5, <1>6

\* What the first review makes of an element.
Lowered(from, to) ==
  to = from \/ (from \in Claimed /\ to \in {"disputed", "information_missing"})

Proven(e) ==
  e.status = "supported" => /\ e.support \subseteq CaseFacts \ TaintedFacts
                            /\ e.support # {} \/ e.by = "code"

LEMMA ReviewLowers ==
  ASSUME NEW el, el.by \in {"code", "model"}
  PROVE  /\ Lowered(el.status, Review(el).status)
         /\ Proven(Review(el))
         /\ DOMAIN Review(el) = {"status", "support", "by"}
  <1> DEFINE known == el.support \cap CaseFacts
             status == IF known \cap TaintedFacts # {} /\ el.status \in Claimed THEN "disputed"
                       ELSE el.status
  <1>1. /\ Review(el).status = IF status = "supported" /\ known = {} /\ el.by = "model"
                                THEN "information_missing" ELSE status
        /\ Review(el).support = known /\ Review(el).by = el.by
        /\ DOMAIN Review(el) = {"status", "support", "by"}
    BY DEF Review
  <1> QED BY <1>1 DEF Lowered, Proven, Claimed

-----------------------------------------------------------------------------
\* What a claim under analysis is.  While the model has not answered nothing is
\* drafted; afterwards everything is, the dismissal as the record has it.
Draftless(c) == c.at \in {"asked", "asked again"} /\ DOMAIN c.draft = {}

Complete(c) ==
  /\ c.at \in {"reviewing", "reviewing again", "done"}
  /\ DOMAIN c.draft = c.def.checks \cup c.def.elements
  /\ "dismissal" \in c.def.checks => c.draft["dismissal"] = Check("dismissal")
  /\ c.model = "failed" => \A el \in c.def.elements : c.shown[el].status = "information_missing"

Reviewed(c) ==
  /\ DOMAIN c.shown = DOMAIN c.draft
  /\ \A el \in DOMAIN c.shown :
       /\ c.shown[el].status \in Statuses
       /\ DOMAIN c.shown[el] = {"status", "support", "by"}
       /\ Lowered(c.draft[el].status, c.shown[el].status)
       /\ Proven(c.shown[el])

IsClaim(c) ==
  /\ c = [at |-> c.at, def |-> c.def, available |-> c.available, model |-> c.model,
          draft |-> c.draft, shown |-> c.shown]
  /\ \E n \in Triggered : c.def = ClaimDefinitions[n]
  /\ Reviewed(c)
  /\ Draftless(c) \/ Complete(c)

ClaimInv ==
  /\ input \in Inputs
  /\ queue \subseteq Triggered
  /\ claim = NoClaim \/ IsClaim(claim)

LEMMA StatusesLowered ==
  ASSUME NEW from \in Statuses, NEW to, Lowered(from, to)
  PROVE  to \in Statuses
  BY DEF Lowered, Statuses, Claimed

\* What is read of the record stays, and so does what rests on it.
LEMMA RecordStays ==
  ASSUME input' = input
  PROVE  /\ Triggered' = Triggered /\ CaseFacts' = CaseFacts /\ TaintedFacts' = TaintedFacts
         /\ Check("dismissal")' = Check("dismissal")
  <1>1. \A keys : FactsOn(keys)' = FactsOn(keys)
    BY DEF FactsOn
  <1>2. WasDismissed' = WasDismissed
    BY <1>1 DEF WasDismissed
  <1>3. ClaimTags' = ClaimTags
    BY <1>2 DEF ClaimTags
  <1>4. Triggered' = Triggered
    BY <1>2, <1>3 DEF Triggered
  <1>5. CaseFacts' = CaseFacts /\ TaintedFacts' = TaintedFacts
    BY DEF CaseFacts, TaintedFacts
  <1>6. \A keys : FactIdsFor(keys)' = FactIdsFor(keys)
    BY <1>1 DEF FactIdsFor
  <1>7. DismissalCheck' = DismissalCheck
    BY <1>1, <1>6 DEF DismissalCheck
  <1>8. Check("dismissal") = DismissalCheck /\ Check("dismissal")' = DismissalCheck'
    BY DEF Check
  <1> QED BY <1>4, <1>5, <1>7, <1>8

LEMMA ClaimStays ==
  ASSUME input' = input, NEW k, IsClaim(k), claim' = k
  PROVE  IsClaim(claim)'
  BY RecordStays DEF IsClaim, Reviewed, Draftless, Complete, Proven

\* A draft with statuses and authors is a claim once reviewed.
LEMMA UnderIsClaim ==
  ASSUME NEW n \in Triggered, NEW def, def = ClaimDefinitions[n], NEW at, NEW draft, NEW model,
         Under(def, at, draft, model), input' = input,
         \A el \in DOMAIN draft : draft[el].status \in Statuses /\ draft[el].by \in {"code", "model"},
         \/ at = "asked" /\ DOMAIN draft = {}
         \/ /\ at \in {"reviewing", "done"}
            /\ DOMAIN draft = def.checks \cup def.elements
            /\ "dismissal" \in def.checks => draft["dismissal"] = Check("dismissal")
            /\ model = "failed" => \A el \in def.elements : draft[el].status = "information_missing"
  PROVE  IsClaim(claim)'
  <1> DEFINE seen == [el \in DOMAIN draft |-> Review(draft[el])]
             c == [at |-> at, def |-> def, available |-> Available(def), model |-> model,
                   draft |-> draft, shown |-> seen]
  <1>1. claim' = c
    BY DEF Under
  <1>2. /\ DOMAIN seen = DOMAIN draft
        /\ \A el \in DOMAIN draft :
             /\ DOMAIN seen[el] = {"status", "support", "by"}
             /\ Lowered(draft[el].status, seen[el].status) /\ Proven(seen[el])
    BY ReviewLowers
  <1>3. \A el \in DOMAIN draft : seen[el].status \in Statuses
    BY <1>2, StatusesLowered
  <1> HIDE DEF seen
  <1>4. /\ c = [at |-> c.at, def |-> c.def, available |-> c.available, model |-> c.model,
                draft |-> c.draft, shown |-> c.shown]
        /\ c.at = at /\ c.def = def /\ c.model = model /\ c.draft = draft /\ c.shown = seen
    OBVIOUS
  <1> HIDE DEF c
  <1>5. Reviewed(c)
    BY <1>2, <1>3, <1>4 DEF Reviewed
  <1>6. ASSUME NEW el \in DOMAIN draft, draft[el].status = "information_missing"
        PROVE  seen[el].status = "information_missing"
    BY <1>2, <1>6 DEF Lowered, Claimed
  <1>7. Draftless(c) \/ Complete(c)
    <2>1. CASE at = "asked" /\ DOMAIN draft = {}
      BY <1>4, <2>1 DEF Draftless
    <2>2. CASE /\ at \in {"reviewing", "done"}
               /\ DOMAIN draft = def.checks \cup def.elements
               /\ "dismissal" \in def.checks => draft["dismissal"] = Check("dismissal")
               /\ model = "failed" => \A el \in def.elements : draft[el].status = "information_missing"
      BY <1>4, <1>6, <2>2 DEF Complete
    <2> QED BY <2>1, <2>2
  <1>8. IsClaim(c)
    BY <1>4, <1>5, <1>7 DEF IsClaim
  <1> QED BY <1>1, <1>8, ClaimStays

LEMMA DraftedIs ==
  ASSUME NEW def, WellDefined(def), NEW assessed,
         \A el \in def.elements :
           assessed[el].status \in Statuses /\ assessed[el].by \in {"code", "model"}
  PROVE  /\ DOMAIN Drafted(def, assessed) = def.checks \cup def.elements
         /\ \A el \in DOMAIN Drafted(def, assessed) :
              /\ Drafted(def, assessed)[el].status \in Statuses
              /\ Drafted(def, assessed)[el].by \in {"code", "model"}
         /\ "dismissal" \in def.checks => Drafted(def, assessed)["dismissal"] = Check("dismissal")
         /\ \A el \in def.elements : Drafted(def, assessed)[el] = assessed[el]
  <1> DEFINE draft == Drafted(def, assessed)
  <1>2. /\ DOMAIN draft = def.checks \cup def.elements
        /\ \A el \in def.checks : draft[el] = Check(el)
        /\ \A el \in def.elements : el \notin def.checks => draft[el] = assessed[el]
    BY DEF Drafted
  <1>3. \A el \in def.checks : draft[el].status \in Statuses /\ draft[el].by = "code"
    BY <1>2, ChecksTyped DEF WellDefined
  <1>4. \A el \in def.elements : draft[el] = assessed[el]
    BY <1>2 DEF WellDefined
  <1> QED BY <1>2, <1>3, <1>4

LEMMA UndoneIs ==
  ASSUME NEW def, NEW status \in Statuses, NEW by \in {"code", "model"}
  PROVE  \A el \in def.elements :
           /\ Undone(def, status, by)[el].status = status
           /\ Undone(def, status, by)[el].by = by
  BY DEF Undone

LEMMA ClaimStarts == ClaimInit => ClaimInv
  BY DEF ClaimInit, ClaimInv

\* The claim under analysis is of a candidate.
LEMMA ClaimIs ==
  ASSUME ClaimInv, claim.at # "none"
  PROVE  /\ IsClaim(claim)
         /\ \E n \in Triggered : n \in DOMAIN ClaimDefinitions /\ claim.def = ClaimDefinitions[n]
  BY DEF ClaimInv, NoClaim, IsClaim, Triggered

LEMMA BeginStep ==
  ASSUME ClaimInv, Begin
  PROVE  ClaimInv'
  <1> DEFINE n == First(queue)
             def == ClaimDefinitions[n]
  <1>1. /\ queue # {} /\ queue' = queue \ {n} /\ input' = input
        /\ \/ Under(def, "asked", << >>, "asked")
           \/ Under(def, "done", Drafted(def, Undone(def, "not_applicable", "code")), "not asked")
    BY DEF Begin
  <1>2. queue \subseteq Triggered /\ Triggered \subseteq DOMAIN ClaimDefinitions
    BY DEF ClaimInv, Triggered
  <1>3. n \in Triggered /\ n \in DOMAIN ClaimDefinitions
    BY <1>1, <1>2, DefinitionsInOrder, FirstIsFirst
  <1> HIDE DEF n
  <1>4. CASE Under(def, "asked", << >>, "asked")
    <2>1. DOMAIN << >> = {}
      OBVIOUS
    <2>2. IsClaim(claim)'
      BY <1>1, <1>3, <1>4, <2>1, UnderIsClaim
    <2> QED BY <1>1, <2>2, RecordStays DEF ClaimInv
  <1>5. CASE Under(def, "done", Drafted(def, Undone(def, "not_applicable", "code")), "not asked")
    <2> DEFINE undone == Undone(def, "not_applicable", "code")
               draft == Drafted(def, undone)
    <2>1. \A el \in def.elements :
            undone[el].status \in Statuses /\ undone[el].by \in {"code", "model"}
      BY UndoneIs DEF Statuses
    <2> HIDE DEF undone
    <2>2. /\ DOMAIN draft = def.checks \cup def.elements
          /\ \A el \in DOMAIN draft :
               draft[el].status \in Statuses /\ draft[el].by \in {"code", "model"}
          /\ "dismissal" \in def.checks => draft["dismissal"] = Check("dismissal")
      BY <1>3, <2>1, DraftedIs, DefinitionsAreWell
    <2>3. Under(def, "done", draft, "not asked")
      BY <1>5 DEF undone
    <2> HIDE DEF draft
    <2>4. IsClaim(claim)'
      BY <1>1, <1>3, <2>2, <2>3, UnderIsClaim
    <2> QED BY <1>1, <2>4, RecordStays DEF ClaimInv
  <1> QED BY <1>1, <1>4, <1>5

\* The answer's elements, and those it leaves out.
LEMMA AssessedIs ==
  ASSUME NEW n \in DOMAIN ClaimDefinitions, NEW def, def = ClaimDefinitions[n],
         NEW answer \in Answers(def)
  PROVE  \A el \in def.elements : /\ Assessed(def, answer)[el].status \in Statuses
                                  /\ Assessed(def, answer)[el].by \in {"code", "model"}
  <1>1. \A el \in DOMAIN answer : answer[el].status \in Statuses
    BY ClaimAssumption
  <1>2. NotAddressed.status \in Statuses
    BY DEF NotAddressed, Statuses
  <1> QED BY <1>1, <1>2 DEF Assessed

\* What the model answered, or what stands for it, is drafted and reviewed.
LEMMA DraftedStep ==
  ASSUME ClaimInv, claim.at # "none", NEW assessed, NEW model,
         Under(claim.def, "reviewing", Drafted(claim.def, assessed), model),
         UNCHANGED <<input, queue>>,
         \A el \in claim.def.elements :
           assessed[el].status \in Statuses /\ assessed[el].by \in {"code", "model"},
         model = "failed" =>
           \A el \in claim.def.elements : assessed[el].status = "information_missing"
  PROVE  ClaimInv'
  <1> DEFINE def == claim.def
             draft == Drafted(def, assessed)
  <1>1. PICK n \in Triggered : n \in DOMAIN ClaimDefinitions /\ def = ClaimDefinitions[n]
    BY ClaimIs
  <1>2. WellDefined(def)
    BY <1>1, DefinitionsAreWell
  <1> HIDE DEF def
  <1>3. \A el \in def.elements :
          assessed[el].status \in Statuses /\ assessed[el].by \in {"code", "model"}
    BY DEF def
  <1>4. /\ DOMAIN draft = def.checks \cup def.elements
        /\ \A el \in DOMAIN draft :
             draft[el].status \in Statuses /\ draft[el].by \in {"code", "model"}
        /\ "dismissal" \in def.checks => draft["dismissal"] = Check("dismissal")
        /\ \A el \in def.elements : draft[el] = assessed[el]
    BY ONLY <1>2, <1>3, DraftedIs
  <1>5. /\ Under(def, "reviewing", draft, model)
        /\ model = "failed" => \A el \in def.elements : assessed[el].status = "information_missing"
    BY DEF def
  <1> HIDE DEF draft
  <1>6. IsClaim(claim)'
    BY <1>1, <1>4, <1>5, UnderIsClaim
  <1> QED BY <1>6, RecordStays DEF ClaimInv

LEMMA AnsweredStep ==
  ASSUME ClaimInv, claim.at \in {"asked", "asked again"},
         NEW answer \in Answers(claim.def), AnalysisAnswered(answer)
  PROVE  ClaimInv'
  <1>1. PICK n \in DOMAIN ClaimDefinitions : claim.def = ClaimDefinitions[n]
    BY ClaimIs
  <1>2. /\ Under(claim.def, "reviewing", Drafted(claim.def, Assessed(claim.def, answer)), "answered")
        /\ UNCHANGED <<input, queue>>
    BY DEF AnalysisAnswered
  <1>3. \A el \in claim.def.elements :
          /\ Assessed(claim.def, answer)[el].status \in Statuses
          /\ Assessed(claim.def, answer)[el].by \in {"code", "model"}
    BY <1>1, AssessedIs
  <1>4. claim.at # "none"
    OBVIOUS
  <1> QED BY ONLY ClaimInv, <1>2, <1>3, <1>4, DraftedStep

LEMMA FailedStep ==
  ASSUME ClaimInv, AnalysisFailed
  PROVE  ClaimInv'
  <1>1. /\ claim.at # "none" /\ UNCHANGED <<input, queue>>
        /\ Under(claim.def, "reviewing", Drafted(claim.def, OnFailure(claim.def)), "failed")
    BY DEF AnalysisFailed
  <1>2. \A el \in claim.def.elements : /\ OnFailure(claim.def)[el].status = "information_missing"
                                      /\ OnFailure(claim.def)[el].by = "model"
    BY UndoneIs DEF OnFailure, Statuses
  <1>3. "information_missing" \in Statuses
    BY DEF Statuses
  <1> QED BY <1>1, <1>2, <1>3, DraftedStep

\* A claim moves on, and only how its elements stand changes.
LEMMA MovesOn ==
  ASSUME ClaimInv, claim.at # "none", NEW at, NEW shown,
         claim' = [claim EXCEPT !.at = at, !.shown = shown], UNCHANGED <<input, queue>>,
         \/ at \in {"asked", "asked again"} /\ claim.at \in {"asked", "asked again"}
         \/ /\ at \in {"reviewing", "reviewing again", "done"}
            /\ claim.at \in {"reviewing", "reviewing again", "done"},
         DOMAIN shown = DOMAIN claim.shown,
         \A el \in DOMAIN shown :
           \/ shown[el] = claim.shown[el]
           \/ /\ claim.shown[el].status \in Claimed
              /\ DOMAIN shown[el] = {"status", "support", "by"}
              /\ shown[el].status \in {"disputed", "information_missing"}
  PROVE  ClaimInv'
  <1> DEFINE c == claim
             d == [at |-> at, def |-> c.def, available |-> c.available, model |-> c.model,
                   draft |-> c.draft, shown |-> shown]
  <1>1. IsClaim(c)
    BY ClaimIs
  <1>2. claim' = d
    BY <1>1 DEF IsClaim
  <1>3. /\ d = [at |-> d.at, def |-> d.def, available |-> d.available, model |-> d.model,
                draft |-> d.draft, shown |-> d.shown]
        /\ d.at = at /\ d.def = c.def /\ d.model = c.model /\ d.draft = c.draft /\ d.shown = shown
    OBVIOUS
  <1> HIDE DEF d
  <1>4. Reviewed(c) /\ (Draftless(c) \/ Complete(c))
    BY <1>1 DEF IsClaim
  <1>5. Reviewed(d)
    BY <1>3, <1>4 DEF Reviewed, Lowered, Proven, Statuses, Claimed
  <1>6. ASSUME Draftless(c) PROVE Draftless(d)
    BY <1>3, <1>6 DEF Draftless
  <1>7. ASSUME Complete(c) PROVE Complete(d)
    <2>1. ASSUME c.model = "failed", NEW el \in c.def.elements
          PROVE  shown[el].status = "information_missing"
      <3>1. c.shown[el].status = "information_missing" /\ el \in DOMAIN shown
        BY <1>4, <1>7, <2>1 DEF Complete, Reviewed
      <3> QED BY <3>1 DEF Claimed
    <2> QED BY <1>3, <1>7, <2>1 DEF Complete
  <1>8. IsClaim(d)
    BY <1>1, <1>3, <1>4, <1>5, <1>6, <1>7 DEF IsClaim
  <1> QED BY <1>2, <1>8, ClaimStays, RecordStays DEF ClaimInv

\* A call repeated, or a review that failed: nothing shown changes.
LEMMA JustMoves ==
  ASSUME ClaimInv, claim.at # "none", NEW at,
         claim' = [claim EXCEPT !.at = at], UNCHANGED <<input, queue>>,
         \/ at \in {"asked", "asked again"} /\ claim.at \in {"asked", "asked again"}
         \/ /\ at \in {"reviewing", "reviewing again", "done"}
            /\ claim.at \in {"reviewing", "reviewing again", "done"}
  PROVE  ClaimInv'
  <1>1. [claim EXCEPT !.at = at] = [claim EXCEPT !.at = at, !.shown = claim.shown]
    BY ClaimIs DEF IsClaim
  <1>2. claim' = [claim EXCEPT !.at = at, !.shown = claim.shown]
    BY <1>1
  <1> QED BY <1>2, MovesOn

LEMMA ReviewStep ==
  ASSUME ClaimInv, NEW els, NEW status \in {"disputed", "information_missing"},
         ReviewAnswered(els, status)
  PROVE  ClaimInv'
  <1> DEFINE old == claim.shown
             shown == [el \in DOMAIN old |->
                         IF el \in els THEN [old[el] EXCEPT !.status = status] ELSE old[el]]
  <1>1. /\ claim.at \in {"reviewing", "reviewing again"} /\ UNCHANGED <<input, queue>>
        /\ els \subseteq Downgradable
        /\ claim' = [claim EXCEPT !.at = "done", !.shown = shown]
    BY DEF ReviewAnswered
  <1>2. Reviewed(claim)
    BY <1>1, ClaimIs DEF IsClaim
  <1>3. \A el \in DOMAIN old : DOMAIN old[el] = {"status", "support", "by"}
    BY <1>2 DEF Reviewed
  <1>4. \A el \in els : el \in DOMAIN old /\ old[el].status \in Claimed
    BY <1>1 DEF Downgradable
  <1>5. DOMAIN shown = DOMAIN old
    OBVIOUS
  <1>6. \A el \in DOMAIN shown :
          \/ shown[el] = old[el]
          \/ /\ old[el].status \in Claimed
             /\ DOMAIN shown[el] = {"status", "support", "by"}
             /\ shown[el].status \in {"disputed", "information_missing"}
    <2>1. SUFFICES ASSUME NEW el \in DOMAIN old, el \in els
                   PROVE  /\ old[el].status \in Claimed
                          /\ DOMAIN shown[el] = {"status", "support", "by"}
                          /\ shown[el].status \in {"disputed", "information_missing"}
      OBVIOUS
    <2>2. shown[el] = [old[el] EXCEPT !.status = status]
      BY <2>1
    <2>3. DOMAIN old[el] = {"status", "support", "by"}
      BY <1>3
    <2>4. DOMAIN shown[el] = {"status", "support", "by"} /\ shown[el].status = status
      BY <2>2, <2>3
    <2> QED BY <1>4, <2>1, <2>4
  <1> HIDE DEF shown
  <1> QED BY <1>1, <1>5, <1>6, MovesOn

LEMMA ClaimSteps ==
  ASSUME ClaimInv, [ClaimNext]_claimVars
  PROVE  ClaimInv'
  <1>1. CASE Begin
    BY <1>1, BeginStep
  <1>2. CASE Malformed
    BY <1>2, JustMoves DEF Malformed
  <1>3. CASE AnalysisFailed
    BY <1>3, FailedStep
  <1>4. CASE ReviewMalformed
    BY <1>4, JustMoves DEF ReviewMalformed
  <1>5. CASE ReviewFailed
    BY <1>5, JustMoves DEF ReviewFailed
  <1>6. CASE /\ claim.at \in {"asked", "asked again"}
             /\ \E answer \in Answers(claim.def) : AnalysisAnswered(answer)
    BY <1>6, AnsweredStep
  <1>7. CASE \E els : \E status \in {"disputed", "information_missing"} : ReviewAnswered(els, status)
    BY <1>7, ReviewStep
  <1>8. CASE UNCHANGED claimVars
    <2>1. input' = input /\ queue' = queue /\ claim' = claim
      BY <1>8 DEF claimVars
    <2> QED BY <2>1, RecordStays, ClaimStays DEF ClaimInv, NoClaim
  <1> QED BY <1>1, <1>2, <1>3, <1>4, <1>5, <1>6, <1>7, <1>8 DEF ClaimNext

LEMMA ClaimAlways == ClaimSpec => []ClaimInv
  <1>1. ClaimInit => ClaimInv
    BY ClaimStarts
  <1>2. ClaimInv /\ [ClaimNext]_claimVars => ClaimInv'
    BY ClaimSteps
  <1> QED BY <1>1, <1>2, PTL DEF ClaimSpec

-----------------------------------------------------------------------------
(* What the claim engine promises, from ClaimInv.                          *)

LEMMA ShownIsEarned ==
  ASSUME ClaimInv
  PROVE  OnlyDowngraded /\ SupportedIsProven /\ FailureClaimsNothing
  <1>1. CASE claim = NoClaim
    <2>1. claim.at = "none" /\ DOMAIN claim.shown = {}
      BY <1>1 DEF NoClaim
    <2> QED BY <2>1 DEF OnlyDowngraded, SupportedIsProven, FailureClaimsNothing, Finished
  <1>2. CASE IsClaim(claim)
    <2>1. Reviewed(claim) /\ (Draftless(claim) \/ Complete(claim))
      BY <1>2 DEF IsClaim
    <2>2. OnlyDowngraded
      BY <2>1 DEF Reviewed, OnlyDowngraded, Lowered
    <2>3. SupportedIsProven
      BY <2>1 DEF Reviewed, SupportedIsProven, Proven
    <2>4. FailureClaimsNothing
      BY <2>1 DEF Reviewed, Draftless, Complete, FailureClaimsNothing, Finished
    <2> QED BY <2>2, <2>3, <2>4
  <1> QED BY <1>1, <1>2 DEF ClaimInv

\* A finished claim whose draft has a dismissal is one of a dismissed employee.
LEMMA DismissalDrafted ==
  ASSUME ClaimInv, Finished, "dismissal" \in DOMAIN claim.draft
  PROVE  /\ WasDismissed
         /\ claim.def.family \in {"unfair_dismissal", "breach_of_contract"}
         /\ claim.draft["dismissal"] = DismissalCheck
  <1>1. claim.at = "done"
    BY DEF Finished
  <1>2. PICK n \in Triggered : n \in DOMAIN ClaimDefinitions /\ claim.def = ClaimDefinitions[n]
    BY <1>1, ClaimIs
  <1>3. WellDefined(claim.def)
    BY <1>2, DefinitionsAreWell
  <1>4. Complete(claim)
    BY <1>1, ClaimIs DEF IsClaim, Draftless
  <1>5. "dismissal" \in claim.def.checks
    BY <1>3, <1>4 DEF WellDefined, Complete
  <1>6. claim.draft["dismissal"] = Check("dismissal")
    BY <1>4, <1>5 DEF Complete
  <1>7. Check("dismissal") = DismissalCheck
    BY DEF Check
  <1>8. WasDismissed
    BY <1>2, <1>5 DEF Triggered, RequiresDismissal
  <1> QED BY <1>3, <1>5, <1>6, <1>7, <1>8 DEF WellDefined

LEMMA DismissalShown ==
  ASSUME ClaimInv
  PROVE  TriggeredIsDismissed
  <1>1. SUFFICES ASSUME Finished, "dismissal" \in DOMAIN claim.draft
                 PROVE  claim.draft["dismissal"].status \in Claimed
    BY DEF TriggeredIsDismissed
  <1>2. WasDismissed /\ claim.draft["dismissal"] = DismissalCheck
    BY <1>1, DismissalDrafted
  <1> QED BY <1>2 DEF WasDismissed, DismissalCheck, Checked, Claimed

LEMMA BasePositive ==
  ASSUME NEW d \in Entries, NEW n \in 1..6
  PROVE  AddMonthsLessOneDay(d, n) \in Nat \ {0}
  <1> DEFINE m == MonthOf[d] + n
  <1>1. /\ d \in Dates /\ MonthOf[d] \in 0..LastMonth /\ m \in 1..(LastMonth - 1)
        /\ DayOf(d) \in 1..31 /\ Length(m) \in 28..31
    BY EntryMonth
  <1> HIDE DEF m
  <1>2. MonthStart[m] \in Nat /\ MonthStart[0] \in Nat \ {0} /\ MonthStart[0] < MonthStart[m]
    BY <1>1, CalendarAssumption
  <1>3. AddMonthsLessOneDay(d, n)
          = MonthStart[m] - 1 + (IF DayOf(d) <= Length(m) THEN DayOf(d) - 1 ELSE Length(m))
    BY DEF AddMonthsLessOneDay, m
  <1> QED BY <1>1, <1>2, <1>3

\* Every day from a family's oldest rule on has a rule, wherever in Great Britain.
LEMMA RuleFound ==
  ASSUME NEW j \in {"england_wales", "scotland"}, NEW f \in Lengthened,
         NEW t \in Entries, t >= RulesFrom[f]
  PROVE  Months(j, f, t).lead # 0
  <1> DEFINE C == Candidates(j, f, t)
  <1>1. t \in Nat \ {0} /\ t # NoDate /\ Commencement \in Nat /\ f \in Families
    BY EntryTyped, RulesAssumption DEF NoDate, Families
  <1>2. ThreeMonths(f) \in Rules /\ SixMonths(f) \in Rules
    BY DEF Rules
  <1>3. C # {}
    <2>1. CASE t < Commencement
      <3>1. /\ ThreeMonths(f).family = f /\ ThreeMonths(f).from = RulesFrom[f]
            /\ ThreeMonths(f).to = Commencement - 1
        BY DEF ThreeMonths
      <3>2. t <= Commencement - 1
        BY <1>1, <2>1
      <3> QED BY <1>2, <3>1, <3>2 DEF Candidates
    <2>2. CASE t >= Commencement
      <3>1. /\ SixMonths(f).family = f /\ SixMonths(f).from = Commencement
            /\ SixMonths(f).to = NoDate
        BY DEF SixMonths
      <3> QED BY <1>2, <2>2, <3>1 DEF Candidates
    <2> QED BY <1>1, <2>1, <2>2
  <1>4. \A r \in C : r \in {ThreeMonths(f), SixMonths(f)}
    <2>1. f \notin Standing
      BY DEF Lengthened, Standing
    <2> QED BY <1>1, <2>1, RulesOf DEF Candidates
  <1> DEFINE r == CHOOSE q \in C : TRUE
  <1>5. r \in C
    BY <1>3
  <1>6. Months(j, f, t) = Shown(r)
    BY <1>1, <1>3 DEF Months
  <1> HIDE DEF r, C
  <1>7. r \in {ThreeMonths(f), SixMonths(f)}
    BY <1>4, <1>5
  <1>8. Shown(r).lead \in {3, 6}
    BY <1>7, ShownMonths
  <1> QED BY <1>6, <1>8

LEMMA EndIsEntry ==
  ASSUME input \in Inputs, FactsOn(EndKeys) # {} \/ input.end # NoDate
  PROVE  OrElse(input.end, FirstOn(EndKeys)) \in Entries
  <1>1. input.end \in Entries \cup {NoDate}
    BY ClaimAssumption
  <1>2. CASE input.end # NoDate
    BY <1>1, <1>2 DEF OrElse
  <1>3. CASE input.end = NoDate
    <2>1. FactsOn(EndKeys) # {} /\ FactsOn(EndKeys) \subseteq DOMAIN input.facts
      BY <1>3 DEF FactsOn
    <2>2. FactsOn(EndKeys) \subseteq Nat
      BY <2>1, ClaimAssumption
    <2>3. First(FactsOn(EndKeys)) \in FactsOn(EndKeys)
      BY <2>1, <2>2, FirstIsFirst
    <2>4. /\ First(FactsOn(EndKeys)) \in DOMAIN input.facts
          /\ input.facts[First(FactsOn(EndKeys))].key \in EndKeys
      BY <2>3 DEF FactsOn
    <2>5. input.facts[First(FactsOn(EndKeys))].value \in Entries
      BY <2>4, ClaimAssumption
    <2> QED BY <1>3, <2>1, <2>5 DEF OrElse, FirstOn
  <1> QED BY <1>2, <1>3

LEMMA EndedIsLimited ==
  ASSUME ClaimInv
  PROVE  EndedHasLimit
  <1>1. SUFFICES ASSUME Finished, input.jurisdiction # "northern_ireland",
                        "dismissal" \in DOMAIN claim.draft,
                        claim.draft["dismissal"].status = "supported"
                 PROVE  /\ ClaimTrigger(claim.def) = (IF TwoEnds THEN input.end ELSE EndSaid)
                        /\ ~BeforeTheRules(claim.def) => ClaimLimit(claim.def).date # NoDate
    BY DEF EndedHasLimit
  <1> DEFINE f == claim.def.family
             j == input.jurisdiction
             t == OrElse(input.end, FirstOn(EndKeys))
  <1>2. /\ f \in {"unfair_dismissal", "breach_of_contract"}
        /\ claim.draft["dismissal"] = DismissalCheck
    BY <1>1, DismissalDrafted
  <1>3. FactsOn(EndKeys) # {} \/ input.end # NoDate
    BY <1>1, <1>2 DEF DismissalCheck, Checked
  <1>4. t \in Entries
    BY <1>3, EndIsEntry DEF ClaimInv
  <1>5. ClaimTrigger(claim.def) = t
    BY <1>2 DEF ClaimTrigger
  <1>17. t = IF TwoEnds THEN input.end ELSE EndSaid
    <2>1. FactsOn(EndKeys) = {} => FirstOn(EndKeys) = NoDate
      BY DEF FirstOn
    <2> QED BY <2>1 DEF OrElse, TwoEnds, EndSaid
  <1>18. SUFFICES ASSUME ~BeforeTheRules(claim.def) PROVE ClaimLimit(claim.def).date # NoDate
    BY <1>5, <1>17
  <1>6. input.dayA \in Entries \cup {NoDate} /\ input.dayB \in Entries \cup {NoDate}
    BY ClaimAssumption DEF ClaimInv
  <1>7. j \in {"england_wales", "scotland"}
    BY <1>1, ClaimAssumption DEF ClaimInv
  <1>8. ClaimLimit(claim.def) = CalculateTimeLimit(j, f, t, input.dayA, input.dayB)
    BY <1>5 DEF ClaimLimit
  <1>9. f \in Lengthened /\ f \in Families
    BY <1>2 DEF Lengthened, Families
  <1>10. t \in Nat \ {0} /\ RulesFrom[f] \in Nat
    BY <1>4, <1>9, EntryTyped, RulesAssumption
  <1>11. t >= RulesFrom[f]
    BY <1>18, <1>5, <1>10 DEF BeforeTheRules, NoDate
  <1> HIDE DEF f, j, t
  <1> DEFINE n == Months(j, f, t).lead
  <1>12. n # 0
    BY <1>4, <1>7, <1>9, <1>11, RuleFound
  <1>13. /\ n \in 1..6
         /\ CalculateTimeLimit(j, f, t, input.dayA, input.dayB).date
              = ApplyAcas(AddMonthsLessOneDay(t, n), input.dayA, input.dayB)
    BY <1>4, <1>9, <1>12, LimitIs
  <1> HIDE DEF n
  <1>14. AddMonthsLessOneDay(t, n) \in Nat \ {0}
    BY <1>4, <1>13, BasePositive
  <1> DEFINE base == AddMonthsLessOneDay(t, n)
  <1>15. base \in Int /\ base > 0 /\ CalculateTimeLimit(j, f, t, input.dayA, input.dayB).date
                                       = ApplyAcas(base, input.dayA, input.dayB)
    BY <1>13, <1>14
  <1> HIDE DEF base
  <1>16. /\ ApplyAcas(base, input.dayA, input.dayB) \in Int
         /\ ApplyAcas(base, input.dayA, input.dayB) >= base
    BY <1>6, <1>15, AcasTyped
  <1> QED BY <1>8, <1>15, <1>16 DEF NoDate

\* A claim under analysis is one of the definitions, and each element it shows
\* has a status.
THEOREM ClaimsTyped == ClaimSpec => []ClaimTypeOK
  <1>1. ClaimInv => ClaimTypeOK
    <2>1. SUFFICES ASSUME IsClaim(claim), ClaimInv, claim.at # "none"
                   PROVE  ClaimTypeOK
      BY DEF ClaimInv, ClaimTypeOK, IsClaim, Draftless, Complete
    <2>2. \E n \in DOMAIN ClaimDefinitions : claim.def = ClaimDefinitions[n]
      BY <2>1, ClaimIs
    <2>3. Reviewed(claim)
      BY <2>1 DEF IsClaim
    <2> QED BY <2>2, <2>3 DEF ClaimTypeOK, Reviewed
  <1> QED BY <1>1, ClaimAlways, PTL

\* Whatever the model answers, whatever it makes up and however often it fails:
\* no review raises an element, what is shown as supported is proven by the case,
\* a failure claims nothing, a claim triggered by a dismissal passes its check,
\* and its limit runs from the end of the employment that the check states, or
\* from the record's where the facts give another.
THEOREM ClaimsStayEarned == ClaimSpec => []ClaimsAreEarned
  <1>1. ClaimInv => ClaimsAreEarned
    BY ShownIsEarned, DismissalShown, EndedIsLimited DEF ClaimsAreEarned
  <1> QED BY <1>1, ClaimAlways, PTL

-----------------------------------------------------------------------------
(* Intake.                                                                 *)

Nations   == {"england_wales", "scotland", "northern_ireland"}
MaybeDate == Entries \cup {NoDate}

AnswerShape ==
  [jurisdiction : Nations, route : STRING, still : {"yes", "no", "unknown"},
   start : MaybeDate, end : MaybeDate, lastAct : MaybeDate, dayA : MaybeDate, dayB : MaybeDate]

LimitShape == [family : Families, date : Nat]

CaseShape ==
  [jurisdiction : Nations, route : STRING, issue : {"none"} \cup STRING, start : MaybeDate, end : MaybeDate,
   still : {"yes", "no", "unknown"}, dismissalDate : MaybeDate, lastActDate : MaybeDate,
   employmentStart : MaybeDate, acas : {"none", "notified", "certificate_issued"}, dayA : MaybeDate, dayB : MaybeDate,
   limits : SUBSET LimitShape]

LEMMA DatesTake ==
  ASSUME NEW d \in MaybeDate, NEW e \in MaybeDate
  PROVE  /\ Either(d, e) \in MaybeDate /\ MaybeDate \subseteq Nat /\ NoDate \in MaybeDate
         /\ Either(NoDate, e) = e /\ Either(d, d) = d
BY EntryTyped DEF Either, MaybeDate, NoDate

\* A limit is a date, and none without months.
LEMMA LimitTyped ==
  ASSUME NEW j, NEW f \in Families, NEW t \in MaybeDate, NEW a \in MaybeDate, NEW b \in MaybeDate
  PROVE  /\ CalculateTimeLimit(j, f, t, a, b).date \in Nat
         /\ Months(j, f, t).lead = 0 <=> CalculateTimeLimit(j, f, t, a, b).date = NoDate
  <1> DEFINE n == Months(j, f, t).lead
  <1>1. CASE n = 0
    BY <1>1 DEF CalculateTimeLimit, NoDate
  <1>2. CASE n # 0
    <2>1. /\ t \in Entries /\ n \in 1..6
          /\ CalculateTimeLimit(j, f, t, a, b).date = ApplyAcas(AddMonthsLessOneDay(t, n), a, b)
      BY <1>2, LimitIs DEF MaybeDate
    <2> HIDE DEF n
    <2>2. AddMonthsLessOneDay(t, n) \in Nat \ {0}
      BY <2>1, BasePositive
    <2> DEFINE base == AddMonthsLessOneDay(t, n)
    <2>3. base \in Int /\ base > 0
      BY <2>2
    <2>4. CalculateTimeLimit(j, f, t, a, b).date = ApplyAcas(base, a, b)
      BY <2>1
    <2> HIDE DEF base
    <2>5. ApplyAcas(base, a, b) \in Int /\ ApplyAcas(base, a, b) >= base
      BY <2>3, AcasTyped DEF MaybeDate
    <2> QED BY <1>2, <2>3, <2>4, <2>5 DEF n, NoDate
  <1> QED BY <1>1, <1>2

LEMMA FamiliesAre ==
  ASSUME NEW c
  PROVE  FamiliesFor(c) \subseteq Families /\ FamiliesFor(c) # {}
BY DEF FamiliesFor, Families

LEMMA StartsTyped ==
  ASSUME NEW c \in CaseShape, NEW f
  PROVE  StartsFrom(c, f) \in MaybeDate
  <1>1. /\ c.dismissalDate \in MaybeDate /\ c.end \in MaybeDate /\ c.lastActDate \in MaybeDate
    BY DEF CaseShape
  <1>2. EndOf(c) \in MaybeDate
    BY <1>1, DatesTake DEF EndOf
  <1>3. Either(c.lastActDate, EndOf(c)) \in MaybeDate
    BY <1>1, <1>2, DatesTake
  <1> QED BY <1>2, <1>3 DEF StartsFrom

LEMMA LimitsTyped ==
  ASSUME NEW c \in CaseShape
  PROVE  LimitsOf(c) \subseteq LimitShape /\ LimitsOf(c) # {}
  <1>1. c.dayA \in MaybeDate /\ c.dayB \in MaybeDate
    BY DEF CaseShape
  <1>2. ASSUME NEW f \in FamiliesFor(c)
        PROVE  CalculateTimeLimit(c.jurisdiction, f, StartsFrom(c, f), c.dayA, c.dayB).date \in Nat
    BY <1>1, StartsTyped, FamiliesAre, LimitTyped
  <1>3. LimitsOf(c) \subseteq LimitShape
    BY <1>2, FamiliesAre DEF LimitsOf, LimitShape
  <1>4. LimitsOf(c) # {}
    BY FamiliesAre DEF LimitsOf
  <1> QED BY <1>3, <1>4

-----------------------------------------------------------------------------
\* What has been written of a case, while the calls of `left' have not been made.
Filled(c, left) ==
  /\ c.jurisdiction = answers.jurisdiction /\ c.route = answers.route /\ c.still = answers.still
  /\ c.issue \in {"none", answers.route}
  /\ 1 \notin left => c.end = answers.end
  /\ 2 \notin left => c.dismissalDate = answers.end /\ c.lastActDate = answers.lastAct
  /\ 4 \notin left => (AcasGiven <=> c.acas # "none")
  /\ 5 \notin left => c.dayA = answers.dayA /\ c.dayB = answers.dayB

IntakeInv ==
  /\ answers \in AnswerShape
  /\ made \in Seq(CaseShape) /\ replies \in Seq({"created", "refused"})
  /\ sending \subseteq Wanted
  /\ Len(replies) = IF sending = {} THEN Len(made) ELSE Len(made) - 1
  /\ sending # {} => /\ 6 \in sending /\ Filled(Made, sending)
                     /\ \A n \in DOMAIN replies : replies[n] # "created"
  /\ CreatedNow => sending = {} /\ Filled(Made, {}) /\ Made.limits = LimitsOf(Made)

LEMMA CallsAre ==
  /\ DOMAIN IntakeCalls = 1..6
  /\ IntakeCalls[1] = "employment" /\ IntakeCalls[2] = "facts" /\ IntakeCalls[3] = "issue"
  /\ IntakeCalls[4] = "acas process" /\ IntakeCalls[5] = "acas dates" /\ IntakeCalls[6] = "deadlines"
BY DEF IntakeCalls

LEMMA WantedIs ==
  /\ \A n \in Wanted : n \in 1..6
  /\ 1 \in Wanted /\ 2 \in Wanted /\ 6 \in Wanted
  /\ 4 \in Wanted <=> AcasGiven
  /\ 5 \in Wanted <=> AcasGiven
  <1>1. \A n \in 1..6 : n \in Wanted <=>
          /\ IntakeCalls[n] = "issue" => answers.route # "not_sure"
          /\ IntakeCalls[n] \in {"acas process", "acas dates"} => AcasGiven
    BY CallsAre DEF Wanted
  <1>2. \A n \in Wanted : n \in 1..6
    BY CallsAre DEF Wanted
  <1>3. \A n \in {1, 2, 6} : IntakeCalls[n] \notin {"issue", "acas process", "acas dates"}
    BY CallsAre
  <1>4. \A n \in {4, 5} : IntakeCalls[n] \in {"acas process", "acas dates"} /\ IntakeCalls[n] # "issue"
    BY CallsAre
  <1>5. ASSUME NEW n \in {1, 2, 6} PROVE n \in Wanted
    <2>1. IntakeCalls[n] \notin {"issue", "acas process", "acas dates"}
      BY <1>3
    <2>2. n \in 1..6
      OBVIOUS
    <2> QED BY ONLY <1>1, <2>1, <2>2
  <1>6. ASSUME NEW n \in {4, 5} PROVE n \in Wanted <=> AcasGiven
    <2>1. IntakeCalls[n] \in {"acas process", "acas dates"} /\ IntakeCalls[n] # "issue"
      BY <1>4
    <2>2. n \in 1..6
      OBVIOUS
    <2> QED BY ONLY <1>1, <2>1, <2>2
  <1> QED BY <1>2, <1>5, <1>6

LEMMA IntakeStarts == IntakeInit => IntakeInv
  <1> SUFFICES ASSUME IntakeInit PROVE IntakeInv
    OBVIOUS
  <1>1. answers \in AnswerShape
    BY IntakeAssumption DEF IntakeInit, AnswerShape, Nations, MaybeDate
  <1>2. made = << >> /\ replies = << >> /\ sending = {}
    BY DEF IntakeInit
  <1>3. ~CreatedNow
    BY <1>2 DEF CreatedNow
  <1> QED BY <1>1, <1>2, <1>3 DEF IntakeInv

\* The case that is made, before the first call.
LEMMA NewCaseIs ==
  ASSUME answers \in AnswerShape
  PROVE  NewCase \in CaseShape /\ Filled(NewCase, Wanted) /\ 6 \in Wanted /\ Wanted \subseteq 1..6
  <1>1. NoDate \in MaybeDate
    BY DEF MaybeDate
  <1>2. NewCase \in CaseShape
    <2>1. /\ answers.jurisdiction \in Nations /\ answers.route \in STRING
          /\ answers.still \in {"yes", "no", "unknown"}
      BY DEF AnswerShape
    <2>2. {} \in SUBSET LimitShape
      OBVIOUS
    <2> QED BY <1>1, <2>1, <2>2 DEF NewCase, CaseShape
  <1>6. ~AcasGiven => answers.dayA = NoDate /\ answers.dayB = NoDate
    BY DEF AcasGiven
  <1>7. Filled(NewCase, Wanted)
    BY <1>6, WantedIs DEF Filled, NewCase
  <1> QED BY <1>2, <1>7, WantedIs

\* Each call writes its part of the answers.
LEMMA WrittenIs ==
  ASSUME answers \in AnswerShape, NEW c \in CaseShape, NEW left \in SUBSET Wanted, NEW n \in 1..5, n \in left,
         Filled(c, left)
  PROVE  /\ Written(c, IntakeCalls[n]) \in CaseShape
         /\ Filled(Written(c, IntakeCalls[n]), left \ {n})
  <1>0. /\ answers.start \in MaybeDate /\ answers.end \in MaybeDate /\ answers.lastAct \in MaybeDate
        /\ answers.dayA \in MaybeDate /\ answers.dayB \in MaybeDate /\ answers.route \in STRING
        /\ answers.still \in {"yes", "no", "unknown"}
    BY DEF AnswerShape
  <1>1. CASE n = 1
    <2> DEFINE d == [c EXCEPT !.start = answers.start, !.end = answers.end, !.still = answers.still]
    <2>1. Written(c, IntakeCalls[n]) = d
      BY <1>1, CallsAre DEF Written
    <2>2. d \in CaseShape
      BY <1>0 DEF CaseShape
    <2>3. Filled(d, left \ {1})
      BY DEF Filled, CaseShape
    <2> QED BY <1>1, <2>1, <2>2, <2>3
  <1>2. CASE n = 2
    <2> DEFINE d == [c EXCEPT !.employmentStart = answers.start,
                              !.dismissalDate = answers.end, !.lastActDate = answers.lastAct]
    <2>1. Written(c, IntakeCalls[n]) = d
      BY <1>2, CallsAre DEF Written
    <2>2. d \in CaseShape
      BY <1>0 DEF CaseShape
    <2>3. Filled(d, left \ {2})
      BY DEF Filled, CaseShape
    <2> QED BY <1>2, <2>1, <2>2, <2>3
  <1>3. CASE n = 3
    <2> DEFINE d == [c EXCEPT !.issue = answers.route]
    <2>1. Written(c, IntakeCalls[n]) = d
      BY <1>3, CallsAre DEF Written
    <2>2. d \in CaseShape
      BY <1>0 DEF CaseShape
    <2>3. Filled(d, left \ {3})
      BY DEF Filled, CaseShape
    <2> QED BY <1>3, <2>1, <2>2, <2>3
  <1>4. CASE n = 4
    <2> DEFINE how == IF answers.dayB # NoDate THEN "certificate_issued" ELSE "notified"
               d == [c EXCEPT !.acas = how]
    <2>1. Written(c, IntakeCalls[n]) = d
      BY <1>4, CallsAre DEF Written
    <2>2. how \in {"notified", "certificate_issued"}
      OBVIOUS
    <2> HIDE DEF how
    <2>3. d \in CaseShape
      BY <2>2 DEF CaseShape
    <2>4. d.acas # "none" /\ AcasGiven
      BY <1>4, <2>2, WantedIs DEF CaseShape
    <2>5. Filled(d, left \ {4})
      BY <2>4 DEF Filled, CaseShape
    <2> QED BY <1>4, <2>1, <2>3, <2>5
  <1>5. CASE n = 5
    <2> DEFINE d == [c EXCEPT !.dayA = answers.dayA, !.dayB = answers.dayB]
    <2>1. Written(c, IntakeCalls[n]) = d
      BY <1>5, CallsAre DEF Written
    <2>2. d \in CaseShape
      BY <1>0 DEF CaseShape
    <2>3. Filled(d, left \ {5})
      BY DEF Filled, CaseShape
    <2> QED BY <1>5, <2>1, <2>2, <2>3
  <1> QED BY <1>1, <1>2, <1>3, <1>4, <1>5

\* The last call computes the limits of what has been written.
LEMMA LimitsWritten ==
  ASSUME NEW c \in CaseShape, NEW left, Filled(c, left)
  PROVE  /\ Written(c, IntakeCalls[6]) \in CaseShape
         /\ Filled(Written(c, IntakeCalls[6]), left)
         /\ Written(c, IntakeCalls[6]).limits = LimitsOf(Written(c, IntakeCalls[6]))
  <1> DEFINE all == LimitsOf(c)
             d == [c EXCEPT !.limits = all]
  <1>1. Written(c, IntakeCalls[6]) = d
    BY CallsAre DEF Written
  <1>2. all \subseteq LimitShape
    BY LimitsTyped
  <1> HIDE DEF all
  <1>3. d \in CaseShape /\ Filled(d, left)
    BY <1>2 DEF CaseShape, Filled
  <1>4. d.limits = all /\ FamiliesFor(d) = FamiliesFor(c) /\ d.jurisdiction = c.jurisdiction
        /\ d.dayA = c.dayA /\ d.dayB = c.dayB /\ EndOf(d) = EndOf(c) /\ d.lastActDate = c.lastActDate
    BY DEF CaseShape, FamiliesFor, EndOf
  <1>5. \A f : StartsFrom(d, f) = StartsFrom(c, f)
    BY <1>4 DEF StartsFrom
  <1>6. LimitsOf(d) = all
    BY <1>4, <1>5 DEF LimitsOf, all
  <1> QED BY <1>1, <1>3, <1>4, <1>6

LEMMA SubmitStep ==
  ASSUME IntakeInv, Submit
  PROVE  IntakeInv'
  <1> SUFFICES ASSUME NEW new, new = NewCase PROVE IntakeInv'
    OBVIOUS
  <1>1. /\ sending = {} /\ made' = Append(made, new) /\ sending' = Wanted
        /\ answers' = answers /\ replies' = replies
        /\ \A n \in DOMAIN replies : replies[n] # "created"
    BY DEF Submit
  <1>2. /\ answers \in AnswerShape /\ made \in Seq(CaseShape)
        /\ replies \in Seq({"created", "refused"}) /\ Len(replies) = Len(made)
    BY <1>1 DEF IntakeInv
  <1>3. new \in CaseShape /\ Filled(new, Wanted) /\ 6 \in Wanted
    BY <1>2, NewCaseIs
  <1>4. /\ made' \in Seq(CaseShape) /\ Len(made') = Len(made) + 1
        /\ made'[Len(made')] = new
    BY <1>1, <1>2, <1>3
  <1>5. Wanted' = Wanted /\ AcasGiven' = AcasGiven
    BY <1>1 DEF Wanted, AcasGiven
  <1>6. Made' = new
    BY <1>4 DEF Made
  <1>7. Filled(Made, sending)'
    BY <1>1, <1>3, <1>5, <1>6 DEF Filled
  <1>8. ~CreatedNow'
    BY <1>1, <1>2 DEF CreatedNow
  <1> QED BY <1>1, <1>2, <1>3, <1>4, <1>5, <1>7, <1>8 DEF IntakeInv

LEMMA DueIs ==
  ASSUME IntakeInv, sending # {}
  PROVE  /\ Due \in sending /\ Due \in 1..6 /\ 6 \in sending
         /\ Due = 6 <=> sending = {Due}
  <1>1. sending \subseteq 1..6 /\ 6 \in sending
    BY WantedIs DEF IntakeInv
  <1>2. sending \in SUBSET Nat
    BY <1>1
  <1>3. \E n \in sending : \A o \in sending : n <= o
    BY <1>2, LeastExists
  <1>4. Due \in sending /\ \A o \in sending : Due <= o
    BY <1>3 DEF Due
  <1>5. ASSUME Due = 6, NEW o \in sending PROVE o = 6
    <2>1. o \in 1..6 /\ 6 <= o
      BY <1>1, <1>4, <1>5
    <2> QED BY <2>1
  <1>6. Due = 6 => sending = {Due}
    BY <1>4, <1>5
  <1> QED BY <1>1, <1>4, <1>6

LEMMA CallStep ==
  ASSUME IntakeInv, Call
  PROVE  IntakeInv'
  <1> DEFINE c == Made
             n == Due
             d == Written(c, IntakeCalls[n])
             last == Len(made)
  <1>1. /\ sending # {} /\ sending' = sending \ {n} /\ answers' = answers
        /\ made' = [made EXCEPT ![last] = d]
        /\ replies' = IF sending = {n} THEN Append(replies, "created") ELSE replies
    BY DEF Call, Made
  <1>2. /\ answers \in AnswerShape /\ made \in Seq(CaseShape) /\ sending \subseteq Wanted
        /\ replies \in Seq({"created", "refused"}) /\ Len(replies) = Len(made) - 1
        /\ Filled(c, sending) /\ \A i \in DOMAIN replies : replies[i] # "created"
    BY <1>1 DEF IntakeInv
  <1>3. n \in sending /\ n \in 1..6 /\ 6 \in sending /\ (n = 6 <=> sending = {n})
    BY <1>1, DueIs
  <1>4. last \in Nat \ {0} /\ last \in DOMAIN made /\ DOMAIN made = 1..last /\ c \in CaseShape
    BY <1>2 DEF Made
  <1>5. Wanted' = Wanted /\ AcasGiven' = AcasGiven
    BY <1>1 DEF Wanted, AcasGiven
  <1> HIDE DEF n, c, last
  <1>6. d \in CaseShape /\ Filled(d, sending \ {n})
    <2>1. CASE n = 6
      <3>1. d \in CaseShape /\ Filled(d, sending)
        BY <1>2, <1>4, <2>1, LimitsWritten
      <3> QED BY <2>1, <3>1 DEF Filled
    <2>2. CASE n # 6
      <3>1. n \in 1..5
        BY <1>3, <2>2
      <3> QED BY <1>2, <1>3, <1>4, <3>1, WrittenIs
    <2> QED BY <2>1, <2>2
  <1>7. n = 6 => d.limits = LimitsOf(d)
    BY <1>2, <1>4, LimitsWritten
  <1> SUFFICES ASSUME NEW e, e = d PROVE IntakeInv'
    OBVIOUS
  <1> HIDE DEF d
  <1>8. /\ made' \in Seq(CaseShape) /\ Len(made') = last /\ made'[Len(made')] = e
    BY <1>1, <1>2, <1>4, <1>6 DEF last
  <1>9. Made' = e
    BY <1>8 DEF Made
  <1>10. Filled(Made, sending)'
    BY <1>1, <1>5, <1>6, <1>9 DEF Filled
  <1>11. CASE n = 6
    <2>1. sending' = {} /\ replies' = Append(replies, "created")
      BY <1>1, <1>3, <1>11
    <2>2. /\ replies' \in Seq({"created", "refused"}) /\ Len(replies') = Len(replies) + 1
      BY <1>2, <2>1
    <2>3. (Made.limits = LimitsOf(Made))'
      BY <1>7, <1>9, <1>11 DEF LimitsOf, FamiliesFor, StartsFrom, EndOf
    <2>4. Filled(Made, {})'
      BY <1>10, <2>1
    <2> QED BY <1>1, <1>2, <1>4, <1>7, <1>8, <1>11, <2>1, <2>2, <2>3, <2>4 DEF IntakeInv, last
  <1>12. CASE n # 6
    <2>1. sending' # {} /\ replies' = replies /\ 6 \in sending' /\ sending' \subseteq Wanted'
      BY <1>1, <1>2, <1>3, <1>5, <1>12
    <2>2. ~CreatedNow'
      BY <1>2, <2>1 DEF CreatedNow
    <2> QED BY <1>1, <1>2, <1>4, <1>8, <1>10, <2>1, <2>2 DEF IntakeInv, last
  <1> QED BY <1>11, <1>12

LEMMA ThrowsStep ==
  ASSUME IntakeInv, CallThrows
  PROVE  IntakeInv'
  <1>1. /\ sending # {} /\ sending' = {} /\ replies' = Append(replies, "refused")
        /\ answers' = answers /\ made' = made
    BY DEF CallThrows
  <1>2. /\ answers \in AnswerShape /\ made \in Seq(CaseShape)
        /\ replies \in Seq({"created", "refused"}) /\ Len(replies) = Len(made) - 1
    BY <1>1 DEF IntakeInv
  <1>3. /\ replies' \in Seq({"created", "refused"}) /\ Len(replies') = Len(replies) + 1
        /\ replies'[Len(replies')] = "refused"
    BY <1>1, <1>2
  <1>4. ~CreatedNow'
    BY <1>3 DEF CreatedNow
  <1> QED BY <1>1, <1>2, <1>3, <1>4 DEF IntakeInv

LEMMA TakeOutStep ==
  ASSUME IntakeInv, NEW date \in {"start", "end", "lastAct", "dayA", "dayB"}, TakeOut(date)
  PROVE  IntakeInv'
  <1>1. /\ sending = {} /\ replies[Len(replies)] = "refused"
        /\ answers' = [answers EXCEPT ![date] = NoDate]
        /\ made' = made /\ sending' = sending /\ replies' = replies
    BY DEF TakeOut
  <1>2. ~CreatedNow'
    BY <1>1 DEF CreatedNow
  <1>3. answers \in AnswerShape
    BY DEF IntakeInv
  <1>4. NoDate \in MaybeDate
    BY DEF MaybeDate
  <1>5. answers' \in AnswerShape
    BY <1>1, <1>3, <1>4 DEF AnswerShape
  <1> QED BY <1>1, <1>2, <1>5 DEF IntakeInv

LEMMA IntakeSteps ==
  ASSUME IntakeInv, [IntakeNext]_intakeVars
  PROVE  IntakeInv'
  <1>1. CASE Submit
    BY <1>1, SubmitStep
  <1>2. CASE Call
    BY <1>2, CallStep
  <1>3. CASE CallThrows
    BY <1>3, ThrowsStep
  <1>4. CASE \E date \in {"start", "end", "lastAct", "dayA", "dayB"} : TakeOut(date)
    BY <1>4, TakeOutStep
  <1>5. CASE UNCHANGED intakeVars
    <2>1. answers' = answers /\ made' = made /\ sending' = sending /\ replies' = replies
      BY <1>5 DEF intakeVars
    <2> QED BY <2>1 DEF IntakeInv, Filled, Wanted, AcasGiven, CreatedNow, Made
  <1> QED BY <1>1, <1>2, <1>3, <1>4, <1>5 DEF IntakeNext

LEMMA IntakeAlways == IntakeSpec => []IntakeInv
  <1>1. IntakeInit => IntakeInv
    BY IntakeStarts
  <1>2. IntakeInv /\ [IntakeNext]_intakeVars => IntakeInv'
    BY IntakeSteps
  <1> QED BY <1>1, <1>2, PTL DEF IntakeSpec

-----------------------------------------------------------------------------
(* What intake promises, from IntakeInv.                                   *)

\* The rules behind a limit: its first day, and how many months it runs.
LEMMA RuleBehind ==
  ASSUME NEW j, NEW f \in Families, NEW t \in MaybeDate, Months(j, f, t).lead # 0
  PROVE  /\ j \in {"england_wales", "scotland"}
         /\ f \in Lengthened \cup Standing /\ t \in Entries /\ t >= RulesFrom[f]
  <1> DEFINE C == Candidates(j, f, t)
  <1>1. t # NoDate /\ C # {}
    BY DEF Months
  <1>2. PICK r \in C : TRUE
    BY <1>1
  <1>3. /\ r \in Rules /\ j \in {"england_wales", "scotland"} /\ r.family = f /\ t >= r.from
    BY <1>2 DEF Candidates
  <1>4. /\ t \in Entries /\ t \in Nat /\ Commencement \in Nat
    BY <1>1, EntryTyped, RulesAssumption DEF MaybeDate
  <1>5. CASE f \in Lengthened /\ r \in {ThreeMonths(f), SixMonths(f)}
    <2>1. RulesFrom[f] \in Nat /\ RulesFrom[f] < Commencement
      BY <1>5, RulesAssumption
    <2>2. r.from \in {RulesFrom[f], Commencement}
      BY <1>5 DEF ThreeMonths, SixMonths
    <2> QED BY <1>3, <1>4, <1>5, <2>1, <2>2
  <1>6. CASE f \in Standing /\ r = StandingSix(f)
    <2>1. r.from = RulesFrom[f]
      BY <1>6 DEF StandingSix
    <2> QED BY <1>3, <1>4, <1>6, <2>1
  <1> QED BY <1>3, <1>5, <1>6, RulesOf

\* From the same day, no other limit of a case ends before the one on unfair
\* dismissal.
LEMMA DismissalEndsFirst ==
  ASSUME NEW j, NEW t \in MaybeDate, NEW a \in MaybeDate, NEW b \in MaybeDate,
         NEW f \in {"unfair_dismissal", "discrimination", "whistleblowing_detriment",
                    "unlawful_deductions", "redundancy_payment"},
         CalculateTimeLimit(j, f, t, a, b).date # NoDate
  PROVE  LET first == CalculateTimeLimit(j, "unfair_dismissal", t, a, b).date
         IN  first # NoDate /\ first <= CalculateTimeLimit(j, f, t, a, b).date
  <1> DEFINE n == Months(j, f, t).lead
             k == Months(j, "unfair_dismissal", t).lead
             u == "unfair_dismissal"
  <1>1. f \in Families /\ u \in Families /\ u \in Lengthened
    BY DEF Families, Lengthened, Standing
  <1>2. n # 0
    BY <1>1, LimitTyped
  <1>3. /\ j \in {"england_wales", "scotland"} /\ f \in Lengthened \cup Standing
        /\ t \in Entries /\ t >= RulesFrom[f]
    BY <1>1, <1>2, RuleBehind
  <1>4. t \in Nat \ {0} /\ RulesFrom[u] \in Nat /\ RulesFrom[f] \in Nat
    BY <1>1, <1>3, EntryTyped, RulesAssumption
  <1>5. RulesFrom[u] <= RulesFrom[f]
    BY <1>4, IntakeAssumption
  <1>6. t >= RulesFrom[u]
    BY <1>3, <1>4, <1>5
  <1>7. k # 0
    BY <1>1, <1>3, <1>6, RuleFound
  <1>8. n \in 1..6 /\ k \in 1..6 /\ k <= n
    <2>1. \/ Months(j, f, t) = IF t < Commencement THEN [lead |-> 3, other |-> 0]
                               ELSE IF SIConfirmed THEN [lead |-> 6, other |-> 0]
                               ELSE [lead |-> 3, other |-> 6]
          \/ Months(j, f, t) = [lead |-> 6, other |-> 0]
      BY <1>1, <1>2, <1>4, LeadMonths
    <2>2. Months(j, u, t) = IF t < Commencement THEN [lead |-> 3, other |-> 0]
                            ELSE IF SIConfirmed THEN [lead |-> 6, other |-> 0]
                            ELSE [lead |-> 3, other |-> 6]
      <3>1. u \notin Standing
        BY DEF Standing
      <3> QED BY <1>1, <1>4, <1>7, <3>1, LeadMonths
    <2>3. n = (IF t < Commencement THEN 3 ELSE IF SIConfirmed THEN 6 ELSE 3) \/ n = 6
      BY <2>1
    <2>4. k = IF t < Commencement THEN 3 ELSE IF SIConfirmed THEN 6 ELSE 3
      BY <2>2
    <2> HIDE DEF n, k
    <2> QED BY <2>3, <2>4
  <1> DEFINE p == AddMonthsLessOneDay(t, k)
             q == AddMonthsLessOneDay(t, n)
  <1>9. /\ CalculateTimeLimit(j, f, t, a, b).date = ApplyAcas(q, a, b)
        /\ CalculateTimeLimit(j, u, t, a, b).date = ApplyAcas(p, a, b)
    BY <1>1, <1>2, <1>7, LimitIs DEF MaybeDate
  <1> HIDE DEF n, k
  <1>10. p \in Int /\ q \in Int /\ p <= q /\ p > 0
    <2>1. t <= t
      BY <1>4
    <2>2. AddMonthsLessOneDay(t, k) \in Nat \ {0}
      BY <1>3, <1>8, BasePositive
    <2> QED BY <1>3, <1>8, <2>1, <2>2, BaseMonotone
  <1> HIDE DEF p, q
  <1>11. /\ ApplyAcas(p, a, b) \in Int /\ ApplyAcas(p, a, b) >= p
         /\ ApplyAcas(q, a, b) \in Int /\ ApplyAcas(p, a, b) <= ApplyAcas(q, a, b)
    BY <1>10, AcasMonotone DEF MaybeDate
  <1> QED BY <1>9, <1>10, <1>11 DEF NoDate

LEMMA WholeIs ==
  ASSUME IntakeInv, CreatedNow
  PROVE  /\ answers \in AnswerShape /\ Made \in CaseShape
         /\ Filled(Made, {}) /\ Made.limits = LimitsOf(Made)
  <1>1. /\ made \in Seq(CaseShape) /\ replies \in Seq({"created", "refused"}) /\ replies # << >>
        /\ sending = {} /\ Len(replies) = Len(made)
    BY DEF IntakeInv, CreatedNow
  <1>2. Len(made) \in 1..Len(made)
    BY <1>1
  <1> QED BY <1>1, <1>2 DEF IntakeInv, Made

LEMMA CreatedWhole ==
  ASSUME IntakeInv
  PROVE  CreatedIsWhole
  <1>1. SUFFICES ASSUME CreatedNow
                 PROVE  /\ Made.limits = LimitsOf(Made) /\ Made.limits # {}
                        /\ Made.end = answers.end /\ Made.dismissalDate = answers.end
                        /\ Made.dayA = answers.dayA /\ Made.dayB = answers.dayB
                        /\ AcasGiven <=> Made.acas # "none"
    BY DEF CreatedIsWhole
  <1>2. /\ Made \in CaseShape /\ Filled(Made, {}) /\ Made.limits = LimitsOf(Made)
    BY <1>1, WholeIs
  <1>3. LimitsOf(Made) # {}
    BY <1>2, LimitsTyped
  <1> QED BY <1>2, <1>3 DEF Filled

LEMMA TriageSays ==
  ASSUME IntakeInv
  PROVE  TriageAgrees
  <1> SUFFICES ASSUME CreatedNow, answers.lastAct = NoDate \/ ~Left, NEW c, c = Made
               PROVE  IF Dated = {} THEN TriageDeadline = NoDate
                      ELSE /\ \E l \in Dated : l.date = TriageDeadline
                           /\ \A l \in Dated : TriageDeadline <= l.date
    BY DEF TriageAgrees
  <1>1. /\ answers \in AnswerShape /\ c \in CaseShape
        /\ Filled(c, {}) /\ c.limits = LimitsOf(c)
    BY WholeIs
  <1> DEFINE j == answers.jurisdiction
             a == answers.dayA
             b == answers.dayB
             Date(f, t) == CalculateTimeLimit(j, f, t, a, b).date
  <1>2. /\ a \in MaybeDate /\ b \in MaybeDate /\ answers.end \in MaybeDate
        /\ answers.lastAct \in MaybeDate /\ NoDate \in MaybeDate
    BY <1>1 DEF AnswerShape, MaybeDate
  <1>3. /\ c.jurisdiction = j /\ c.dayA = a /\ c.dayB = b /\ c.route = answers.route
        /\ c.still = answers.still /\ c.issue \in {"none", answers.route}
        /\ c.end = answers.end /\ c.dismissalDate = answers.end /\ c.lastActDate = answers.lastAct
    BY <1>1 DEF Filled
  <1>4. EndOf(c) = answers.end
    BY <1>3 DEF EndOf, Either
  <1>5. LimitsOf(c) = {[family |-> f, date |-> Date(f, StartsFrom(c, f))] : f \in FamiliesFor(c)}
    BY <1>3 DEF LimitsOf
  <1>6. Dated = {l \in LimitsOf(c) : l.date # NoDate}
    BY <1>1 DEF Dated
  <1>7. TriageDeadline = Date(TriageFamily, TriageTrigger)
    BY DEF TriageDeadline
  <1> HIDE DEF Date
  <1>8. ASSUME Left
        PROVE  IF Dated = {} THEN TriageDeadline = NoDate
               ELSE /\ \E l \in Dated : l.date = TriageDeadline
                    /\ \A l \in Dated : TriageDeadline <= l.date
    <2> DEFINE t == answers.end
               u == "unfair_dismissal"
    <2>1. TriageFamily = u /\ TriageTrigger = t
      BY <1>8 DEF TriageFamily, TriageTrigger
    <2>2. \A f : StartsFrom(c, f) = t
      BY <1>3, <1>4, <1>8 DEF StartsFrom, Either
    <2>3. u \in FamiliesFor(c)
      <3>1. EndOf(c) # NoDate \/ c.still = "no"
        BY <1>3, <1>4, <1>8 DEF Left
      <3> QED BY <3>1 DEF FamiliesFor, Families, Lengthened
    <2>4. FamiliesFor(c) \subseteq {u, "discrimination", "whistleblowing_detriment",
                                    "unlawful_deductions", "redundancy_payment"}
      BY <2>3 DEF FamiliesFor
    <2>5. TriageDeadline = Date(u, t)
      BY <1>7, <2>1
    <2> HIDE DEF t, u
    <2>6. [family |-> u, date |-> Date(u, t)] \in LimitsOf(c)
      BY <1>5, <2>2, <2>3
    <2>7. ASSUME NEW l \in Dated
          PROVE  TriageDeadline # NoDate /\ TriageDeadline <= l.date
      <3>1. l \in LimitsOf(c) /\ l.date # NoDate
        BY <1>6
      <3>2. PICK f \in FamiliesFor(c) : l.date = Date(f, t)
        BY <1>5, <2>2, <3>1
      <3>3. Date(u, t) # NoDate /\ Date(u, t) <= Date(f, t)
        BY <1>2, <2>4, <3>1, <3>2, DismissalEndsFirst DEF Date, t, u
      <3> QED BY <2>5, <3>2, <3>3
    <2>8. CASE Dated = {}
      <3>1. Date(u, t) = NoDate
        BY <1>6, <2>6, <2>8
      <3> QED BY <2>5, <2>8, <3>1
    <2>9. CASE Dated # {}
      <3>1. TriageDeadline # NoDate
        BY <2>7, <2>9
      <3>2. [family |-> u, date |-> Date(u, t)] \in Dated
        BY <1>6, <2>5, <2>6, <3>1
      <3> QED BY <2>5, <2>7, <2>9, <3>2
    <2> QED BY <2>8, <2>9
  <1>9. ASSUME ~Left
        PROVE  IF Dated = {} THEN TriageDeadline = NoDate
               ELSE /\ \E l \in Dated : l.date = TriageDeadline
                    /\ \A l \in Dated : TriageDeadline <= l.date
    <2> DEFINE t == answers.lastAct
    <2>1. /\ answers.still # "no" /\ answers.end = NoDate /\ TriageTrigger = t
      BY <1>9 DEF Left, TriageTrigger
    <2>2. \A f : StartsFrom(c, f) = IF f \in {"unfair_dismissal", "redundancy_payment"}
                                    THEN NoDate ELSE t
      BY <1>3, <1>4, <2>1 DEF StartsFrom, Either
    <2>3. \A f \in Families : Date(f, NoDate) = NoDate
      BY DEF Date, CalculateTimeLimit, Months
    <2> HIDE DEF t
    <2>4. ASSUME NEW f, TriageFamily = f, FamiliesFor(c) = {f},
                 f \notin {"unfair_dismissal", "redundancy_payment"}
          PROVE  IF Dated = {} THEN TriageDeadline = NoDate
                 ELSE /\ \E l \in Dated : l.date = TriageDeadline
                      /\ \A l \in Dated : TriageDeadline <= l.date
      <3>1. LimitsOf(c) = {[family |-> f, date |-> Date(f, t)]}
        BY <1>5, <2>2, <2>4
      <3>2. TriageDeadline = Date(f, t)
        BY <1>7, <2>1, <2>4
      <3>3. Date(f, t) \in Nat
        <4>1. f \in Families
          BY <2>4, FamiliesAre
        <4> QED BY <1>2, <4>1, LimitTyped DEF Date, t
      <3> HIDE DEF Date
      <3>4. CASE Date(f, t) = NoDate
        <4>1. Dated = {}
          BY <1>6, <3>1, <3>4
        <4> QED BY <3>2, <3>4, <4>1
      <3>5. CASE Date(f, t) # NoDate
        <4>1. Dated = {[family |-> f, date |-> Date(f, t)]}
          BY <1>6, <3>1, <3>5
        <4>2. Date(f, t) <= Date(f, t)
          BY <3>3
        <4>3. Dated # {} /\ \A l \in Dated : l.date = Date(f, t)
          BY <4>1
        <4> QED BY <3>2, <4>2, <4>3
      <3> QED BY <3>4, <3>5
    <2>5. CASE answers.route \in {"discrimination", "disability_adjustments"}
      <3>1. TriageFamily = "discrimination"
        BY <1>9, <2>5 DEF TriageFamily
      <3>2. FamiliesFor(c) = {"discrimination"}
        BY <1>3, <1>4, <2>1, <2>5 DEF FamiliesFor, Families, Lengthened, Standing
      <3> QED BY <2>4, <3>1, <3>2
    <2>6. CASE answers.route = "whistleblowing"
      <3>1. TriageFamily = "whistleblowing_detriment"
        BY <1>9, <2>6 DEF TriageFamily
      <3>2. FamiliesFor(c) = {"whistleblowing_detriment"}
        BY <1>3, <1>4, <2>1, <2>6 DEF FamiliesFor, Families, Lengthened, Standing
      <3> QED BY <2>4, <3>1, <3>2
    <2>7. CASE answers.route = "pay"
      <3>1. TriageFamily = "unlawful_deductions"
        BY <1>9, <2>7 DEF TriageFamily
      <3>2. FamiliesFor(c) = {"unlawful_deductions"}
        BY <1>3, <1>4, <2>1, <2>7 DEF FamiliesFor, Families, Lengthened, Standing
      <3> QED BY <2>4, <3>1, <3>2
    <2>8. CASE answers.route \notin {"discrimination", "disability_adjustments", "whistleblowing", "pay"}
      <3>1. TriageFamily = "general"
        BY <1>9, <2>8 DEF TriageFamily
      <3>2. FamiliesFor(c) \subseteq {"unfair_dismissal", "redundancy_payment", "general"}
        BY <1>3, <1>4, <2>1, <2>8 DEF FamiliesFor
      <3>3. Date("general", t) = NoDate
        <4>1. \A r \in Rules : r.family # "general"
          BY DEF Rules, ThreeMonths, SixMonths, StandingSix, Lengthened, Standing
        <4>2. Candidates(j, "general", t) = {}
          BY <4>1 DEF Candidates
        <4> QED BY <4>2 DEF Date, CalculateTimeLimit, Months
      <3>4. \A f \in FamiliesFor(c) : Date(f, StartsFrom(c, f)) = NoDate
        BY <2>2, <2>3, <3>2, <3>3, FamiliesAre
      <3>5. Dated = {}
        BY <1>5, <1>6, <3>4
      <3> QED BY <1>7, <2>1, <3>1, <3>3, <3>5
    <2> QED BY <2>5, <2>6, <2>7, <2>8
  <1> QED BY <1>8, <1>9

\* A form sent is one case, answered or under way, whatever call throws.
THEOREM IntakeTyped == IntakeSpec => []IntakeTypeOK
  <1>1. IntakeInv => IntakeTypeOK
    <2> SUFFICES ASSUME IntakeInv PROVE IntakeTypeOK
      OBVIOUS
    <2>1. made \in Seq(CaseShape) /\ Len(replies) = IF sending = {} THEN Len(made) ELSE Len(made) - 1
      BY DEF IntakeInv
    <2>2. ASSUME NEW n \in DOMAIN made, NEW l \in made[n].limits PROVE l.family \in Families
      <3>1. made[n] \in CaseShape
        BY <2>1
      <3>2. l \in LimitShape
        BY <3>1 DEF CaseShape
      <3> QED BY <3>2 DEF LimitShape
    <2> QED BY <2>1, <2>2 DEF IntakeTypeOK
  <1> QED BY <1>1, IntakeAlways, PTL

\* Whichever calls throw, and however the form is corrected between: a case that
\* intake answers with is whole, and shows no limit before the one that triage
\* gave to the same answers.
THEOREM CaseStaysAsAnswered == IntakeSpec => []CaseIsAsAnswered
  <1>1. IntakeInv => CaseIsAsAnswered
    BY CreatedWhole, TriageSays DEF CaseIsAsAnswered
  <1> QED BY <1>1, IntakeAlways, PTL

-----------------------------------------------------------------------------
(* The four together.                                                      *)

\* A behaviour of one component, the others at rest, is a behaviour of each.
LEMMA EachAlone == MCSpec => Spec /\ ClaimSpec /\ IntakeSpec /\ CaseLawSpec
  <1>1. MCInit => Init /\ ClaimInit /\ IntakeInit /\ CaseLawInit
    BY DEF MCInit, MCCaseLawInit
  <1>2. ASSUME [MCNext]_<<part, dateSide, claimVars, intakeVars, lawSide>>
        PROVE  [Next]_vars /\ [ClaimNext]_claimVars /\ [IntakeNext]_intakeVars
               /\ [CaseLawNext]_caseLawVars
    <2>1. MCCaseLawNext => CaseLawNext
      BY DEF MCCaseLawNext, CaseLawNext
    <2> QED BY <1>2, <2>1 DEF MCNext, dateSide, lawSide
  <1> QED BY <1>1, <1>2, PTL DEF MCSpec, Spec, ClaimSpec, IntakeSpec, CaseLawSpec

\* The record of dates, the engine's claims, the intake's calls and the cache of
\* verdicts keep the shape the code gives them.
THEOREM LegalTyped == MCSpec => []LegalTypeOK
BY EachAlone, DatesTyped, ClaimsTyped, IntakeTyped, CaseLawTyped, PTL DEF LegalTypeOK

=============================================================================
