--------------------------- MODULE CaseDatesProofs ---------------------------
(***************************************************************************)
(* Proofs about the time limits for every calendar, every date of the      *)
(* record and every commencement: where a period ends, what conciliation   *)
(* does to it, and that correcting a date moves a limit the safe way.      *)
(***************************************************************************)
EXTENDS CaseDates, FiniteSetTheorems, TLAPS

-----------------------------------------------------------------------------
(* The calendar.                                                           *)

LEMMA MonthTyped ==
  ASSUME NEW d \in Dates
  PROVE  /\ d \in Nat \ {0}
         /\ MonthOf[d] \in 0..LastMonth
         /\ DayOf(d) \in 1..Length(MonthOf[d])
<1>1. 0 \in 0..(LastMonth + 1) /\ LastMonth + 1 \in 0..(LastMonth + 1) BY CalendarAssumption
<1>2. MonthStart[0] \in Nat \ {0} /\ MonthStart[LastMonth + 1] \in Nat BY <1>1, CalendarAssumption
<1>3. d \in Nat \ {0} BY <1>2 DEF Dates
<1>4. MonthOf[d] \in 0..LastMonth BY CalendarAssumption
<1>5. MonthStart[MonthOf[d]] \in Nat /\ MonthStart[MonthOf[d] + 1] \in Nat
  BY <1>4, CalendarAssumption
<1>6. MonthStart[MonthOf[d]] <= d /\ d < MonthStart[MonthOf[d] + 1] BY CalendarAssumption
<1> QED BY <1>3, <1>4, <1>5, <1>6 DEF DayOf, Length

LEMMA MonthLength ==
  ASSUME NEW m \in 0..LastMonth
  PROVE  /\ MonthStart[m] \in Nat \ {0} /\ MonthStart[m + 1] \in Nat \ {0}
         /\ Length(m) \in 28..31 /\ MonthStart[m + 1] = MonthStart[m] + Length(m)
BY CalendarAssumption DEF Length

LEMMA MonthsInOrder ==
  ASSUME NEW m \in 0..LastMonth, NEW n \in 0..LastMonth, m < n
  PROVE  MonthStart[m + 1] <= MonthStart[n]
<1>1. CASE m + 1 = n BY <1>1, MonthLength
<1>2. CASE m + 1 < n BY <1>2, CalendarAssumption, MonthLength
<1> QED BY <1>1, <1>2, CalendarAssumption

\* A day between the first of a month and the first of the next is of that month.
LEMMA MonthFound ==
  ASSUME NEW m \in 0..LastMonth, NEW i \in 1..Length(m)
  PROVE  /\ MonthStart[m] + i - 1 \in Dates
         /\ MonthOf[MonthStart[m] + i - 1] = m
         /\ DayOf(MonthStart[m] + i - 1) = i
<1> DEFINE d == MonthStart[m] + i - 1
<1>1. /\ MonthStart[m] \in Nat \ {0} /\ Length(m) \in 28..31
      /\ MonthStart[m + 1] = MonthStart[m] + Length(m)
  BY MonthLength
<1>2. d \in Int /\ MonthStart[m] <= d /\ d < MonthStart[m + 1] BY <1>1
<1>3. MonthStart[0] <= MonthStart[m]
  <2>1. CASE m = 0 BY <2>1, <1>1
  <2>2. CASE m > 0 BY <2>2, CalendarAssumption, MonthLength
  <2> QED BY <2>1, <2>2, CalendarAssumption
<1>4. MonthStart[m + 1] <= MonthStart[LastMonth + 1]
  <2>1. CASE m = LastMonth BY <2>1, <1>1
  <2>2. CASE m < LastMonth BY <2>2, CalendarAssumption, MonthLength
  <2> QED BY <2>1, <2>2, CalendarAssumption
<1>5. MonthStart[0] \in Int /\ MonthStart[LastMonth + 1] \in Int BY CalendarAssumption
<1>6. d \in Dates BY <1>1, <1>2, <1>3, <1>4, <1>5 DEF Dates
<1>7. /\ MonthOf[d] \in 0..LastMonth
      /\ MonthStart[MonthOf[d]] <= d /\ d < MonthStart[MonthOf[d] + 1]
  BY <1>6, CalendarAssumption
<1>8. MonthOf[d] = m
  <2>1. CASE MonthOf[d] < m
    <3>1. MonthStart[MonthOf[d] + 1] <= MonthStart[m] BY <1>7, <2>1, MonthsInOrder
    <3> QED BY <1>1, <1>2, <1>7, <3>1, MonthLength
  <2>2. CASE m < MonthOf[d]
    <3>1. MonthStart[m + 1] <= MonthStart[MonthOf[d]] BY <1>7, <2>2, MonthsInOrder
    <3> QED BY <1>1, <1>2, <1>7, <3>1, MonthLength
  <2> QED BY <1>7, <2>1, <2>2, CalendarAssumption
<1>9. DayOf(d) = i BY <1>1, <1>8 DEF DayOf
<1> QED BY <1>6, <1>8, <1>9

\* Dates order by month, and within a month by day.
LEMMA DateOrder ==
  ASSUME NEW d \in Dates, NEW e \in Dates, d <= e
  PROVE  \/ MonthOf[d] < MonthOf[e]
         \/ MonthOf[d] = MonthOf[e] /\ DayOf(d) <= DayOf(e)
<1>1. MonthOf[d] \in 0..LastMonth /\ MonthOf[e] \in 0..LastMonth BY MonthTyped
<1>2. /\ d \in Nat /\ e \in Nat
      /\ MonthStart[MonthOf[d]] <= d /\ e < MonthStart[MonthOf[e] + 1]
  BY MonthTyped, CalendarAssumption
<1>3. ~(MonthOf[e] < MonthOf[d])
  <2> SUFFICES ASSUME MonthOf[e] < MonthOf[d] PROVE FALSE
    OBVIOUS
  <2>1. MonthStart[MonthOf[e] + 1] <= MonthStart[MonthOf[d]] BY <1>1, MonthsInOrder
  <2> QED BY <1>1, <1>2, <2>1, MonthLength
<1>4. MonthOf[d] = MonthOf[e] => DayOf(d) <= DayOf(e)
  BY <1>1, <1>2, MonthLength DEF DayOf
<1> QED BY <1>1, <1>3, <1>4

-----------------------------------------------------------------------------
(* Where a period of n months ends.                                        *)

\* Entries, and the periods that fit behind them.
LEMMA EntryMonth ==
  ASSUME NEW d \in Entries, NEW n \in 1..6
  PROVE  /\ d \in Dates /\ d \in Nat \ {0}
         /\ MonthOf[d] \in 0..LastMonth
         /\ MonthOf[d] + n \in 1..(LastMonth - 1)
         /\ DayOf(d) \in 1..31
         /\ Length(MonthOf[d] + n) \in 28..31
<1>1. d \in Dates /\ MonthOf[d] + 7 <= LastMonth BY DEF Entries
<1>2. MonthOf[d] \in 0..LastMonth /\ DayOf(d) \in 1..Length(MonthOf[d]) /\ d \in Nat \ {0}
  BY <1>1, MonthTyped
<1>3. LastMonth \in Nat BY CalendarAssumption
<1>4. MonthOf[d] + n \in 1..(LastMonth - 1) BY <1>1, <1>2, <1>3
<1>5. Length(MonthOf[d]) \in 28..31 /\ Length(MonthOf[d] + n) \in 28..31
  BY <1>2, <1>3, <1>4, MonthLength
<1> QED BY <1>1, <1>2, <1>4, <1>5

LEMMA EntryTyped ==
  /\ Entries \subseteq Nat \ {0}
  /\ Entries \cup {NoDate} \subseteq Nat
<1>1. ASSUME NEW d \in Entries PROVE d \in Nat \ {0} BY MonthTyped DEF Entries
<1> QED BY <1>1 DEF NoDate

\* The corresponding-date rule: one day short of n complete months.
LEMMA PeriodEnds ==
  ASSUME NEW d \in Entries, NEW n \in 1..6
  PROVE  /\ CompleteMonthsBetween(d, AddMonthsLessOneDay(d, n)) = n - 1
         /\ CompleteMonthsBetween(d, AddMonthsLessOneDay(d, n) + 1) = n
<1> DEFINE m == MonthOf[d] + n
           i == DayOf(d)
           L == Length(m)
           base == AddMonthsLessOneDay(d, n)
<1>0. /\ m \in 1..(LastMonth - 1) /\ i \in 1..31 /\ L \in 28..31 /\ MonthOf[d] \in 0..LastMonth
  BY EntryMonth
<1>1. /\ m \in Int /\ m - 1 \in 0..LastMonth /\ m \in 0..LastMonth /\ m + 1 \in 0..LastMonth
      /\ i \in 1..31 /\ L \in 28..31 /\ MonthOf[d] \in Int /\ m - MonthOf[d] = n
  <2>1. LastMonth \in Nat BY CalendarAssumption
  <2>2. m - MonthOf[d] = n BY <1>0
  <2> HIDE DEF m, i, L
  <2> QED BY <1>0, <2>1, <2>2
<1>2. base = MonthStart[m] - 1 + (IF i <= L THEN i - 1 ELSE L) BY DEF AddMonthsLessOneDay
<1>3. /\ MonthStart[m] \in Nat /\ MonthStart[m + 1] = MonthStart[m] + L
      /\ Length(m - 1) \in 28..31 /\ Length(m + 1) \in 28..31
      /\ MonthStart[m - 1] \in Nat /\ MonthStart[m] = MonthStart[m - 1] + Length(m - 1)
  <2>1. (m - 1) + 1 = m BY <1>1
  <2> HIDE DEF m
  <2> QED BY <1>1, <2>1, MonthLength
<1> HIDE DEF m, i, L, base
<1>4. CASE i = 1
  <2>1. base = MonthStart[m - 1] + Length(m - 1) - 1 BY <1>1, <1>2, <1>3, <1>4
  <2>2. MonthOf[base] = m - 1 /\ DayOf(base) = Length(m - 1)
    BY <1>1, <1>3, <2>1, MonthFound
  <2>3. base + 1 = MonthStart[m] + 1 - 1 BY <1>1, <1>2, <1>3, <1>4
  <2>4. MonthOf[base + 1] = m /\ DayOf(base + 1) = 1
    BY <1>1, <2>3, MonthFound DEF L
  <2> QED BY <1>1, <1>3, <1>4, <2>2, <2>4 DEF CompleteMonthsBetween, i, base
<1>5. CASE 2 <= i /\ i <= L
  <2>1. base = MonthStart[m] + (i - 1) - 1 /\ base + 1 = MonthStart[m] + i - 1
    BY <1>1, <1>2, <1>3, <1>5
  <2>2. MonthOf[base] = m /\ DayOf(base) = i - 1
    <3>1. i - 1 \in 1..Length(m) BY <1>1, <1>5 DEF L
    <3> QED BY <1>1, <2>1, <3>1, MonthFound
  <2>3. MonthOf[base + 1] = m /\ DayOf(base + 1) = i
    <3>1. i \in 1..Length(m) BY <1>1, <1>5 DEF L
    <3> QED BY <1>1, <2>1, <3>1, MonthFound
  <2>4. /\ CompleteMonthsBetween(d, base) = m - MonthOf[d] - (IF i - 1 < i THEN 1 ELSE 0)
        /\ CompleteMonthsBetween(d, base + 1) = m - MonthOf[d] - (IF i < i THEN 1 ELSE 0)
    BY <2>2, <2>3 DEF CompleteMonthsBetween, i
  <2> QED BY <1>1, <2>4 DEF base
<1>6. CASE i > L
  <2>1. base = MonthStart[m] + L - 1 /\ base + 1 = MonthStart[m + 1] + 1 - 1
    BY <1>1, <1>2, <1>3, <1>6
  <2>2. MonthOf[base] = m /\ DayOf(base) = L
    <3>1. L \in 1..Length(m) BY <1>1 DEF L
    <3> QED BY <1>1, <2>1, <3>1, MonthFound
  <2>3. MonthOf[base + 1] = m + 1 /\ DayOf(base + 1) = 1
    <3>1. 1 \in 1..Length(m + 1) BY <1>3
    <3> QED BY <1>1, <2>1, <3>1, MonthFound
  <2>4. /\ CompleteMonthsBetween(d, base) = m - MonthOf[d] - (IF L < i THEN 1 ELSE 0)
        /\ CompleteMonthsBetween(d, base + 1) = (m + 1) - MonthOf[d] - (IF 1 < i THEN 1 ELSE 0)
    BY <2>2, <2>3 DEF CompleteMonthsBetween, i
  <2>5. L < i /\ 1 < i BY <1>1, <1>6
  <2> QED BY <1>1, <2>4, <2>5 DEF base
<1> QED BY <1>1, <1>4, <1>5, <1>6 DEF base

\* Days on which a period may end are numbers in order of their start.
LEMMA BaseMonotone ==
  ASSUME NEW d \in Entries, NEW e \in Entries, d <= e,
         NEW n \in 1..6, NEW k \in 1..6, n <= k
  PROVE  /\ AddMonthsLessOneDay(d, n) \in Int /\ AddMonthsLessOneDay(e, k) \in Int
         /\ AddMonthsLessOneDay(d, n) <= AddMonthsLessOneDay(e, k)
<1> DEFINE m == MonthOf[d] + n
           l == MonthOf[e] + k
<1>1. /\ m \in 0..LastMonth /\ l \in 0..LastMonth
      /\ DayOf(d) \in 1..31 /\ DayOf(e) \in 1..31
      /\ d \in Dates /\ e \in Dates
      /\ MonthOf[d] \in Int /\ MonthOf[e] \in Int
  <2>1. m \in 1..(LastMonth - 1) /\ l \in 1..(LastMonth - 1) BY EntryMonth
  <2>2. LastMonth \in Nat BY CalendarAssumption
  <2>3. m \in 0..LastMonth /\ l \in 0..LastMonth
    <3> HIDE DEF m, l
    <3> QED BY <2>1, <2>2
  <2> QED BY <2>3, EntryMonth
<1>2. /\ MonthStart[m] \in Nat /\ Length(m) \in 28..31
      /\ MonthStart[l] \in Nat /\ Length(l) \in 28..31
      /\ MonthStart[m + 1] = MonthStart[m] + Length(m)
  <2> HIDE DEF m, l
  <2> QED BY <1>1, MonthLength
<1>3. /\ AddMonthsLessOneDay(d, n) =
           MonthStart[m] - 1 + (IF DayOf(d) <= Length(m) THEN DayOf(d) - 1 ELSE Length(m))
      /\ AddMonthsLessOneDay(e, k) =
           MonthStart[l] - 1 + (IF DayOf(e) <= Length(l) THEN DayOf(e) - 1 ELSE Length(l))
  BY DEF AddMonthsLessOneDay
<1>4. \/ m < l
      \/ m = l /\ DayOf(d) <= DayOf(e)
  BY <1>1, DateOrder
<1> HIDE DEF m, l
<1>5. CASE m < l
  <2>1. MonthStart[m + 1] <= MonthStart[l] BY <1>1, <1>5, MonthsInOrder
  <2> QED BY <1>1, <1>2, <1>3, <2>1
<1>6. CASE m = l /\ DayOf(d) <= DayOf(e) BY <1>1, <1>2, <1>3, <1>6
<1> QED BY <1>4, <1>5, <1>6

\* The month after a certificate likewise.
LEMMA BackstopMonotone ==
  ASSUME NEW d \in Entries, NEW e \in Entries, d <= e
  PROVE  /\ AddMonths(d, 1) \in Int /\ AddMonths(e, 1) \in Int
         /\ AddMonths(d, 1) <= AddMonths(e, 1)
<1> DEFINE m == MonthOf[d] + 1
           l == MonthOf[e] + 1
<1>1. /\ m \in 0..LastMonth /\ l \in 0..LastMonth
      /\ DayOf(d) \in 1..31 /\ DayOf(e) \in 1..31
      /\ d \in Dates /\ e \in Dates
      /\ MonthOf[d] \in Int /\ MonthOf[e] \in Int
  <2>1. m \in 1..(LastMonth - 1) /\ l \in 1..(LastMonth - 1) BY EntryMonth
  <2>2. LastMonth \in Nat BY CalendarAssumption
  <2>3. m \in 0..LastMonth /\ l \in 0..LastMonth
    <3> HIDE DEF m, l
    <3> QED BY <2>1, <2>2
  <2> QED BY <2>3, EntryMonth
<1>2. /\ MonthStart[m] \in Nat /\ Length(m) \in 28..31
      /\ MonthStart[l] \in Nat /\ Length(l) \in 28..31
      /\ MonthStart[m + 1] = MonthStart[m] + Length(m)
  <2> HIDE DEF m, l
  <2> QED BY <1>1, MonthLength
<1>3. /\ AddMonths(d, 1) =
           MonthStart[m] - 1 + (IF DayOf(d) <= Length(m) THEN DayOf(d) ELSE Length(m))
      /\ AddMonths(e, 1) =
           MonthStart[l] - 1 + (IF DayOf(e) <= Length(l) THEN DayOf(e) ELSE Length(l))
  BY DEF AddMonths
<1>4. \/ m < l
      \/ m = l /\ DayOf(d) <= DayOf(e)
  BY <1>1, DateOrder
<1> HIDE DEF m, l
<1>5. CASE m < l
  <2>1. MonthStart[m + 1] <= MonthStart[l] BY <1>1, <1>5, MonthsInOrder
  <2> QED BY <1>1, <1>2, <1>3, <2>1
<1>6. CASE m = l /\ DayOf(d) <= DayOf(e) BY <1>1, <1>2, <1>3, <1>6
<1> QED BY <1>4, <1>5, <1>6

-----------------------------------------------------------------------------
(* Conciliation.                                                           *)

\* applyAcas never shortens a limit.
LEMMA AcasTyped ==
  ASSUME NEW base \in Int,
         NEW a \in Entries \cup {NoDate}, NEW b \in Entries \cup {NoDate}
  PROVE  ApplyAcas(base, a, b) \in Int /\ ApplyAcas(base, a, b) >= base
<1>1. a \in Nat /\ b \in Nat BY EntryTyped
<1>2. CASE a = NoDate \/ b = NoDate BY <1>1, <1>2 DEF ApplyAcas
<1>3. CASE a # NoDate /\ b # NoDate
  <2>1. Later(a, b) \in Entries BY <1>3 DEF Later
  <2>2. AddMonths(Later(a, b), 1) \in Int
    <3> DEFINE c == Later(a, b)
    <3>1. c \in Entries /\ c <= c BY <2>1, EntryTyped
    <3> HIDE DEF c
    <3>2. AddMonths(c, 1) \in Int BY <3>1, BackstopMonotone
    <3> QED BY <3>2 DEF c
  <2> QED BY <1>1, <1>3, <2>2 DEF ApplyAcas, Later
<1> QED BY <1>2, <1>3

\* applyAcas keeps the order of the limits it is given, and of the certificates.
LEMMA AcasMonotone ==
  ASSUME NEW base \in Int, NEW base2 \in Int, base <= base2,
         NEW a \in Entries \cup {NoDate}, NEW b \in Entries \cup {NoDate}
  PROVE  /\ ApplyAcas(base, a, b) \in Int /\ ApplyAcas(base, a, b) >= base
         /\ ApplyAcas(base2, a, b) \in Int
         /\ ApplyAcas(base, a, b) <= ApplyAcas(base2, a, b)
<1>1. a \in Nat /\ b \in Nat BY EntryTyped
<1>2. CASE a = NoDate \/ b = NoDate BY <1>1, <1>2 DEF ApplyAcas
<1>3. CASE a # NoDate /\ b # NoDate
  <2>1. Later(a, b) \in Entries BY <1>3 DEF Later
  <2>2. AddMonths(Later(a, b), 1) \in Int
    <3> DEFINE c == Later(a, b)
    <3>1. c \in Entries /\ c <= c BY <2>1, EntryTyped
    <3> HIDE DEF c
    <3>2. AddMonths(c, 1) \in Int BY <3>1, BackstopMonotone
    <3> QED BY <3>2 DEF c
  <2> QED BY <1>1, <1>3, <2>2 DEF ApplyAcas, Later
<1> QED BY <1>2, <1>3

LEMMA CertificateMonotone ==
  ASSUME NEW base \in Int, NEW a \in Entries \cup {NoDate},
         NEW b \in Entries \cup {NoDate}, NEW b2 \in Entries \cup {NoDate}, b <= b2
  PROVE  ApplyAcas(base, a, b) <= ApplyAcas(base, a, b2)
<1>1. a \in Nat /\ b \in Nat /\ b2 \in Nat BY EntryTyped
<1>2. CASE a = NoDate \/ b = NoDate
  <2>1. ApplyAcas(base, a, b) = base BY <1>2 DEF ApplyAcas
  <2>2. ApplyAcas(base, a, b2) >= base BY AcasTyped
  <2> QED BY <2>1, <2>2
<1>3. CASE a # NoDate /\ b # NoDate
  <2>1. Later(a, b) \in Entries /\ Later(a, b2) \in Entries /\ Later(a, b) <= Later(a, b2)
    BY <1>1, <1>3 DEF Later, NoDate
  <2>2. /\ Later(a, b) \in Int /\ Later(a, b2) \in Int
        /\ AddMonths(Later(a, b), 1) \in Int /\ AddMonths(Later(a, b2), 1) \in Int
        /\ AddMonths(Later(a, b), 1) <= AddMonths(Later(a, b2), 1)
    BY <2>1, BackstopMonotone, EntryTyped
  <2> DEFINE x == Later(a, b)
             y == Later(a, b2)
  <2>3. /\ ApplyAcas(base, a, b) =
             IF a > base THEN base ELSE Later(Later(base + (x - a), AddMonths(x, 1)), base)
        /\ ApplyAcas(base, a, b2) =
             IF a > base THEN base ELSE Later(Later(base + (y - a), AddMonths(y, 1)), base)
    BY <1>1, <1>3 DEF ApplyAcas, NoDate
  <2>4. /\ x \in Int /\ y \in Int /\ x <= y
        /\ AddMonths(x, 1) \in Int /\ AddMonths(y, 1) \in Int
        /\ AddMonths(x, 1) <= AddMonths(y, 1)
    BY <2>1, <2>2
  <2> HIDE DEF x, y
  <2> QED BY <1>1, <2>3, <2>4 DEF Later
<1> QED BY <1>2, <1>3

-----------------------------------------------------------------------------
(* The choice of the rule.                                                 *)

\* The only rules a family has.
LEMMA RulesOf ==
  ASSUME NEW f \in Families, NEW r \in Rules, r.family = f
  PROVE  \/ f \in Lengthened /\ r \in {ThreeMonths(f), SixMonths(f)}
         \/ f \in Standing /\ r = StandingSix(f)
<1>1. CASE \E g \in Lengthened : r = ThreeMonths(g)
  <2>1. PICK g \in Lengthened : r = ThreeMonths(g) BY <1>1
  <2>2. g = f BY <2>1 DEF ThreeMonths
  <2> QED BY <2>1, <2>2
<1>2. CASE \E g \in Lengthened : r = SixMonths(g)
  <2>1. PICK g \in Lengthened : r = SixMonths(g) BY <1>2
  <2>2. g = f BY <2>1 DEF SixMonths
  <2> QED BY <2>1, <2>2
<1>3. CASE \E g \in Standing : r = StandingSix(g)
  <2>1. PICK g \in Standing : r = StandingSix(g) BY <1>3
  <2>2. g = f BY <2>1 DEF StandingSix
  <2> QED BY <2>1, <2>2
<1> QED BY <1>1, <1>2, <1>3 DEF Rules

\* What stands before the lengthened limit is the three-month one.
LEMMA ConservativeIsShort ==
  ASSUME NEW f \in Lengthened
  PROVE  /\ Earlier(SixMonths(f)) = {ThreeMonths(f)}
         /\ Conservative(SixMonths(f)) = ThreeMonths(f)
<1>1. f \in Families /\ RulesFrom[f] \in Nat \ {0} /\ Commencement \in Nat /\ RulesFrom[f] < Commencement
  BY RulesAssumption DEF Families
<1>2. /\ ThreeMonths(f).family = f /\ ThreeMonths(f).to = Commencement - 1
      /\ SixMonths(f).family = f /\ SixMonths(f).from = Commencement /\ SixMonths(f).to = NoDate
  BY DEF ThreeMonths, SixMonths
<1>3. Commencement - 1 # NoDate /\ Commencement - 1 < Commencement BY <1>1 DEF NoDate
<1>4. ThreeMonths(f) \in Earlier(SixMonths(f)) BY <1>1, <1>2, <1>3 DEF Earlier, Rules
<1>5. ASSUME NEW r \in Earlier(SixMonths(f)) PROVE r = ThreeMonths(f)
  <2>1. r \in Rules /\ r.family = f /\ r.to # NoDate BY <1>2 DEF Earlier
  <2>2. f \notin Standing BY DEF Lengthened, Standing
  <2> QED BY <1>1, <1>2, <2>1, <2>2, RulesOf
<1>6. Earlier(SixMonths(f)) = {ThreeMonths(f)} BY <1>4, <1>5
<1>7. Commencement - 1 <= Commencement - 1 BY <1>1
<1>8. \E r \in Earlier(SixMonths(f)) : \A q \in Earlier(SixMonths(f)) : q.to <= r.to
  BY <1>2, <1>6, <1>7
<1>9. Conservative(SixMonths(f)) \in Earlier(SixMonths(f)) BY <1>8 DEF Conservative
<1> QED BY <1>5, <1>6, <1>9

\* What a rule shows.
LEMMA ShownMonths ==
  ASSUME NEW f \in Lengthened
  PROVE  /\ Shown(ThreeMonths(f)) = [lead |-> 3, other |-> 0]
         /\ Shown(SixMonths(f)) = IF SIConfirmed THEN [lead |-> 6, other |-> 0]
                                                 ELSE [lead |-> 3, other |-> 6]
<1>1. ThreeMonths(f).by = "statute" /\ ThreeMonths(f).months = 3 BY DEF ThreeMonths
<1>2. /\ SixMonths(f).by = (IF SIConfirmed THEN "statute" ELSE "assumed")
      /\ SixMonths(f).months = 6
  BY DEF SixMonths
<1>3. Hedged(SixMonths(f)) <=> ~SIConfirmed BY <1>2, ConservativeIsShort DEF Hedged
<1>4. ~Hedged(ThreeMonths(f)) BY <1>1 DEF Hedged
<1>5. Shown(ThreeMonths(f)) = [lead |-> 3, other |-> 0] BY <1>1, <1>4 DEF Shown
<1>6. CASE SIConfirmed BY <1>2, <1>3, <1>5, <1>6 DEF Shown
<1>7. CASE ~SIConfirmed BY <1>1, <1>2, <1>3, <1>5, <1>7, ConservativeIsShort DEF Shown
<1> QED BY <1>6, <1>7

\* The months that lead and those shown beside them.
LEMMA LeadMonths ==
  ASSUME NEW j, NEW f \in Families, NEW t \in Nat, Months(j, f, t).lead # 0
  PROVE  /\ t # NoDate
         /\ \/ /\ f \in Lengthened
               /\ Months(j, f, t) =
                    IF t < Commencement THEN [lead |-> 3, other |-> 0]
                    ELSE IF SIConfirmed THEN [lead |-> 6, other |-> 0]
                    ELSE [lead |-> 3, other |-> 6]
            \/ f \in Standing /\ Months(j, f, t) = [lead |-> 6, other |-> 0]
<1> DEFINE r == CHOOSE r \in Candidates(j, f, t) : TRUE
<1>1. t # NoDate /\ Candidates(j, f, t) # {} /\ Months(j, f, t) = Shown(r) BY DEF Months
<1>2. r \in Candidates(j, f, t) BY <1>1
<1> HIDE DEF r
<1>3. r \in Rules /\ r.family = f /\ t >= r.from /\ (r.to = NoDate \/ t <= r.to)
  BY <1>2 DEF Candidates
<1>4. Commencement \in Nat BY RulesAssumption
<1>5. CASE f \in Lengthened /\ r = ThreeMonths(f)
  <2>1. r.to = Commencement - 1 BY <1>5 DEF ThreeMonths
  <2>2. RulesFrom[f] \in Nat \ {0} /\ RulesFrom[f] < Commencement BY <1>5, RulesAssumption
  <2>3. t < Commencement BY <1>3, <1>4, <2>1, <2>2 DEF NoDate
  <2> QED BY <1>1, <1>5, <2>3, ShownMonths
<1>6. CASE f \in Lengthened /\ r = SixMonths(f)
  <2>1. r.from = Commencement BY <1>6 DEF SixMonths
  <2>2. ~(t < Commencement) BY <1>3, <1>4, <2>1
  <2> QED BY <1>1, <1>6, <2>2, ShownMonths
<1>7. CASE f \in Standing /\ r = StandingSix(f)
  <2>1. r.by = "statute" /\ r.months = 6 BY <1>7 DEF StandingSix
  <2>2. Shown(r) = [lead |-> 6, other |-> 0] BY <2>1 DEF Shown, Hedged
  <2> QED BY <1>1, <1>7, <2>2
<1> QED BY <1>3, <1>5, <1>6, <1>7, RulesOf

-----------------------------------------------------------------------------
(* The record.                                                             *)

\* THEOREM.  The record holds dates of the calendar, or none, after any number of
\* entries, corrections and removals.
THEOREM DatesTyped == Spec => []TypeOK
<1>1. Init => TypeOK BY DEF Init, TypeOK
<1>2. TypeOK /\ [Next]_vars => TypeOK'
  <2> SUFFICES ASSUME TypeOK, [Next]_vars PROVE TypeOK'
    OBVIOUS
  <2>1. ASSUME NEW k \in Keys, RemoveDate(k) PROVE TypeOK'
    BY <2>1 DEF RemoveDate, TypeOK
  <2>2. ASSUME NEW k \in Keys, NEW d \in Choices[k], RecordDate(k, d) PROVE TypeOK'
    <3>1. d \in Entries BY CaseDatesAssumption
    <3> QED BY <2>2, <3>1 DEF RecordDate, TypeOK
  <2>3. ASSUME NEW j \in Jurisdictions, MoveCase(j) PROVE TypeOK'
    BY <2>3 DEF MoveCase, TypeOK
  <2>4. CASE UNCHANGED vars BY <2>4 DEF vars, TypeOK
  <2> QED BY <2>1, <2>2, <2>3, <2>4 DEF Next
<1> QED BY <1>1, <1>2, PTL DEF Spec

LEMMA SourcesTyped ==
  ASSUME TypeOK, NEW f \in Families
  PROVE  /\ Trigger(f) \in Entries \cup {NoDate}
         /\ DayA \in Entries \cup {NoDate} /\ DayB \in Entries \cup {NoDate}
<1>1. \A k \in Keys : given[k] \in Entries \cup {NoDate} BY DEF TypeOK
<1>2. /\ EDT \in Entries \cup {NoDate} /\ DayA \in Entries \cup {NoDate}
      /\ DayB \in Entries \cup {NoDate}
  BY <1>1 DEF EDT, DayA, DayB, Or, Keys
<1>3. LastAct \in Entries \cup {NoDate} BY <1>1, <1>2 DEF LastAct, Or, Keys
<1>4. Deduction \in Entries \cup {NoDate} BY <1>1, <1>3 DEF Deduction, Or, Keys
<1>5. Trigger(f) \in {EDT, LastAct, Deduction}
  BY Zenon DEF Trigger, Families, Lengthened, Standing
<1> QED BY <1>2, <1>3, <1>4, <1>5

LEMMA FamiliesTyped == RelevantFamilies \subseteq Families
BY CaseDatesAssumption DEF RelevantFamilies, Families, Lengthened

\* What a limit that is shown is made of.
LEMMA LimitIs ==
  ASSUME NEW j, NEW f \in Families, NEW t \in Entries \cup {NoDate}, NEW a, NEW b,
         Months(j, f, t).lead # 0
  PROVE  /\ t \in Entries
         /\ Months(j, f, t).lead \in 1..6
         /\ CalculateTimeLimit(j, f, t, a, b).date
              = ApplyAcas(AddMonthsLessOneDay(t, Months(j, f, t).lead), a, b)
         /\ Months(j, f, t).other # 0 =>
              /\ Months(j, f, t).lead = 3 /\ Months(j, f, t).other = 6
              /\ CalculateTimeLimit(j, f, t, a, b).secondary
                   = ApplyAcas(AddMonthsLessOneDay(t, 6), a, b)
         /\ Months(j, f, t).other = 0 =>
              CalculateTimeLimit(j, f, t, a, b).secondary = NoDate
<1> DEFINE m == Months(j, f, t)
<1>1. t \in Nat BY EntryTyped
<1>2. t # NoDate /\ m.lead \in {3, 6} /\ m.other \in {0, 6} /\ (m.other # 0 => m.lead = 3)
  BY <1>1, LeadMonths
<1>3. CalculateTimeLimit(j, f, t, a, b)
        = [date |-> IF m.lead = 0 THEN NoDate ELSE ComputeForRule(m.lead, t, a, b),
           secondary |-> IF m.other = 0 THEN NoDate ELSE ComputeForRule(m.other, t, a, b)]
  BY DEF CalculateTimeLimit
<1> HIDE DEF m
<1>4. /\ CalculateTimeLimit(j, f, t, a, b).date = ComputeForRule(m.lead, t, a, b)
      /\ CalculateTimeLimit(j, f, t, a, b).secondary
           = IF m.other = 0 THEN NoDate ELSE ComputeForRule(m.other, t, a, b)
  BY <1>2, <1>3
<1> QED BY <1>2, <1>4 DEF ComputeForRule, m

-----------------------------------------------------------------------------
(* The theorems.                                                           *)

\* THEOREM.  Every limit that is shown is, conciliation apart, the last day before
\* its months are complete, for every date of any calendar.
THEOREM MonthsAreCompleted == Spec => []EndsWithTheMonths
<1>1. ASSUME TypeOK PROVE EndsWithTheMonths
  <2> SUFFICES ASSUME NEW f \in RelevantFamilies,
                      Months(jurisdiction, f, Trigger(f)).lead # 0
               PROVE  LET months == Months(jurisdiction, f, Trigger(f)).lead
                          base   == AddMonthsLessOneDay(Trigger(f), months)
                      IN  /\ CompleteMonthsBetween(Trigger(f), base) = months - 1
                          /\ CompleteMonthsBetween(Trigger(f), base + 1) = months
    BY DEF EndsWithTheMonths
  <2>1. f \in Families /\ Trigger(f) \in Entries \cup {NoDate}
    BY <1>1, FamiliesTyped, SourcesTyped
  <2>2. Trigger(f) \in Entries /\ Months(jurisdiction, f, Trigger(f)).lead \in 1..6
    BY <2>1, LimitIs
  <2> QED BY <2>2, PeriodEnds
<1> QED BY <1>1, DatesTyped, PTL

\* THEOREM.  The Acas extension is the one of s207B as its subsections read it,
\* wherever Day A and Day B lie.
THEOREM ConciliationByStatute == Spec => []FollowsS207B
<1>1. ASSUME TypeOK PROVE FollowsS207B
  <2> SUFFICES ASSUME NEW f \in RelevantFamilies,
                      Months(jurisdiction, f, Trigger(f)).lead # 0,
                      DayA # NoDate, DayA <= DayB
               PROVE  Limit(f).date =
                        Statutory(AddMonthsLessOneDay(Trigger(f),
                                    Months(jurisdiction, f, Trigger(f)).lead), DayA, DayB)
    BY DEF FollowsS207B
  <2> DEFINE base == AddMonthsLessOneDay(Trigger(f), Months(jurisdiction, f, Trigger(f)).lead)
             a == DayA
             b == DayB
  <2>1. /\ f \in Families /\ Trigger(f) \in Entries \cup {NoDate}
        /\ a \in Entries \cup {NoDate} /\ b \in Entries \cup {NoDate}
    BY <1>1, FamiliesTyped, SourcesTyped
  <2>2. /\ Trigger(f) \in Entries /\ Months(jurisdiction, f, Trigger(f)).lead \in 1..6
        /\ Limit(f).date = ApplyAcas(base, a, b)
    BY <2>1, LimitIs DEF Limit
  <2>3. base \in Int BY <2>2, BaseMonotone, EntryTyped
  <2>4. a \in Nat \ {0} /\ b \in Nat \ {0} /\ b \in Entries /\ a <= b
    BY <2>1, EntryTyped DEF NoDate
  <2>5. AddMonths(b, 1) \in Int BY <2>4, BackstopMonotone
  <2>6. Limit(f).date = Statutory(base, a, b)
    <3> HIDE DEF base, a, b
    <3>1. ApplyAcas(base, a, b) =
            IF a > base THEN base ELSE Later(Later(base + (b - a), AddMonths(b, 1)), base)
      BY <2>4 DEF ApplyAcas, Later, NoDate
    <3>2. Statutory(base, a, b) =
            IF a > base THEN base
            ELSE IF base + (b - a) <= AddMonths(b, 1) THEN AddMonths(b, 1) ELSE base + (b - a)
      BY DEF Statutory
    <3> QED BY <2>2, <2>3, <2>4, <2>5, <3>1, <3>2 DEF Later
  <2> QED BY <2>6
<1> QED BY <1>1, DatesTyped, PTL

\* THEOREM.  Of two limits shown side by side the first is never the later,
\* wherever the commencement falls and whatever conciliation adds.
THEOREM ShorterLeads == Spec => []ShorterLimitLeads
<1>1. ASSUME TypeOK PROVE ShorterLimitLeads
  <2> SUFFICES ASSUME NEW f \in RelevantFamilies, Limit(f).secondary # NoDate
               PROVE  Limit(f).date <= Limit(f).secondary
    BY DEF ShorterLimitLeads
  <2> DEFINE t == Trigger(f)
             m == Months(jurisdiction, f, t)
  <2>1. /\ f \in Families /\ t \in Entries \cup {NoDate}
        /\ DayA \in Entries \cup {NoDate} /\ DayB \in Entries \cup {NoDate}
    BY <1>1, FamiliesTyped, SourcesTyped
  <2>2. m.lead # 0
    <3> SUFFICES ASSUME m.lead = 0 PROVE FALSE
      OBVIOUS
    <3>1. m = [lead |-> 0, other |-> 0]
      <4>1. CASE t = NoDate \/ Candidates(jurisdiction, f, t) = {} BY <4>1 DEF Months
      <4>2. CASE ~(t = NoDate \/ Candidates(jurisdiction, f, t) = {})
        <5> DEFINE r == CHOOSE r \in Candidates(jurisdiction, f, t) : TRUE
        <5>1. r \in Candidates(jurisdiction, f, t) /\ m = Shown(r) BY <4>2 DEF Months
        <5> HIDE DEF r
        <5>2. r \in Rules /\ r.family = f BY <5>1 DEF Candidates
        <5>3. Shown(r).lead \in {3, 6}
          <6>1. CASE f \in Lengthened /\ r \in {ThreeMonths(f), SixMonths(f)}
            BY <6>1, ShownMonths
          <6>2. CASE f \in Standing /\ r = StandingSix(f)
            BY <6>2 DEF StandingSix, Shown, Hedged
          <6> QED BY <2>1, <5>2, <6>1, <6>2, RulesOf
        <5> QED BY <5>1, <5>3
      <4> QED BY <4>1, <4>2
    <3>2. Limit(f).secondary = NoDate BY <3>1 DEF Limit, CalculateTimeLimit
    <3> QED BY <3>2
  <2>3. /\ t \in Entries /\ m.lead = 3
        /\ Limit(f).date = ApplyAcas(AddMonthsLessOneDay(t, 3), DayA, DayB)
        /\ Limit(f).secondary = ApplyAcas(AddMonthsLessOneDay(t, 6), DayA, DayB)
    <3>1. m.other # 0 BY <2>1, <2>2, LimitIs DEF Limit
    <3> QED BY <2>1, <2>2, <3>1, LimitIs DEF Limit
  <2>4. /\ AddMonthsLessOneDay(t, 3) \in Int /\ AddMonthsLessOneDay(t, 6) \in Int
        /\ AddMonthsLessOneDay(t, 3) <= AddMonthsLessOneDay(t, 6)
    <3>1. t <= t BY <2>3, EntryTyped
    <3> HIDE DEF t
    <3> QED BY <2>3, <3>1, BaseMonotone
  <2> QED BY <2>1, <2>3, <2>4, AcasMonotone
<1> QED BY <1>1, DatesTyped, PTL

\* THEOREM.  The engine and the calculator it replaced show the same limit for
\* every date, commencement and conciliation.
THEOREM EnginesAlwaysAgree == Spec => []EnginesAgree
<1>1. ASSUME TypeOK PROVE EnginesAgree
  <2> SUFFICES ASSUME NEW f \in RelevantFamilies \cap Lengthened, Limit(f).date # NoDate
               PROVE  Limit(f).date = CalculateDeadline(Trigger(f), DayA, DayB)
    BY DEF EnginesAgree
  <2> DEFINE t == Trigger(f)
             n == Months(jurisdiction, f, t).lead
             a == DayA
             b == DayB
             base == AddMonthsLessOneDay(t, n)
  <2>1. /\ f \in Families /\ t \in Entries \cup {NoDate}
        /\ a \in Entries \cup {NoDate} /\ b \in Entries \cup {NoDate}
    BY <1>1, FamiliesTyped, SourcesTyped
  <2>2. n # 0 BY DEF Limit, CalculateTimeLimit
  <2>3. t \in Entries /\ n \in 1..6 /\ Limit(f).date = ApplyAcas(base, a, b)
    BY <2>1, <2>2, LimitIs DEF Limit
  <2>4. n = IF t >= Commencement /\ SIConfirmed THEN 6 ELSE 3
    <3>1. t \in Nat /\ Commencement \in Nat BY <2>1, EntryTyped, RulesAssumption
    <3>2. f \notin Standing BY DEF Lengthened, Standing
    <3>3. Months(jurisdiction, f, t) =
            IF t < Commencement THEN [lead |-> 3, other |-> 0]
            ELSE IF SIConfirmed THEN [lead |-> 6, other |-> 0]
            ELSE [lead |-> 3, other |-> 6]
      BY <2>1, <2>2, <3>1, <3>2, LeadMonths
    <3> HIDE DEF t
    <3> QED BY <3>1, <3>3
  <2>5. CalculateDeadline(t, a, b) = ComputeOne(n, t, a, b) BY <2>4 DEF CalculateDeadline
  <2>6. base \in Int BY <2>3, BaseMonotone, EntryTyped
  <2>7. ComputeOne(n, t, a, b) = ApplyAcas(base, a, b)
    <3>1. a \in Nat /\ b \in Nat BY <2>1, EntryTyped
    <3>2. CASE a = NoDate \/ b = NoDate \/ a > base BY <3>2 DEF ComputeOne, ApplyAcas
    <3>3. CASE ~(a = NoDate \/ b = NoDate \/ a > base)
      <4> DEFINE c == Later(a, b)
      <4>1. c \in Entries /\ c \in Nat /\ c = IF b < a THEN a ELSE b
        BY <2>1, <3>1, <3>3 DEF Later
      <4>2. AddMonths(c, 1) \in Int BY <4>1, BackstopMonotone
      <4>3. ApplyAcas(base, a, b) = Later(Later(base + (c - a), AddMonths(c, 1)), base)
        BY <3>3 DEF ApplyAcas
      <4>4. ComputeOne(n, t, a, b) =
              LET final == IF base + (c - a) > AddMonths(c, 1) THEN base + (c - a)
                                                              ELSE AddMonths(c, 1)
              IN  IF final < base THEN base ELSE final
        BY <3>3, <4>1 DEF ComputeOne
      <4> HIDE DEF base, a, b, c, t, n
      <4> QED BY <2>6, <3>1, <4>1, <4>2, <4>3, <4>4 DEF Later
    <3> QED BY <3>2, <3>3
  <2> QED BY <2>3, <2>5, <2>7
<1> QED BY <1>1, DatesTyped, PTL

LEMMA SourcesTypedNext ==
  ASSUME TypeOK', NEW f \in Families
  PROVE  /\ Trigger(f)' \in Entries \cup {NoDate}
         /\ DayA' \in Entries \cup {NoDate} /\ DayB' \in Entries \cup {NoDate}
<1>1. \A k \in Keys : given[k]' \in Entries \cup {NoDate} BY DEF TypeOK
<1>2. /\ EDT' \in Entries \cup {NoDate} /\ DayA' \in Entries \cup {NoDate}
      /\ DayB' \in Entries \cup {NoDate}
  BY <1>1 DEF EDT, DayA, DayB, Or, Keys
<1>3. LastAct' \in Entries \cup {NoDate} BY <1>1, <1>2 DEF LastAct, Or, Keys
<1>4. Deduction' \in Entries \cup {NoDate} BY <1>1, <1>3 DEF Deduction, Or, Keys
<1>5. Trigger(f)' \in {EDT', LastAct', Deduction'}
  BY Zenon DEF Trigger, Families, Lengthened, Standing
<1> QED BY <1>2, <1>3, <1>4, <1>5

\* THEOREM.  Taking an earlier day for the triggering date never lengthens a limit,
\* not even across the commencement of the longer ones.
THEOREM EarlierIsSafe == Spec => EarliestTriggerIsSafe
<1>1. ASSUME TypeOK, TypeOK', NEW f \in RelevantFamilies,
             Trigger(f)' < Trigger(f),
             jurisdiction' = jurisdiction, DayA' = DayA, DayB' = DayB,
             Limit(f).date # NoDate, LimitNext(f).date # NoDate
      PROVE  LimitNext(f).date <= Limit(f).date
  <2> DEFINE t == Trigger(f)
             u == Trigger(f)'
             n == Months(jurisdiction, f, t).lead
             k == Months(jurisdiction, f, u).lead
  <2>1. /\ f \in Families /\ t \in Entries \cup {NoDate} /\ u \in Entries \cup {NoDate}
        /\ DayA \in Entries \cup {NoDate} /\ DayB \in Entries \cup {NoDate}
    BY <1>1, FamiliesTyped, SourcesTyped, SourcesTypedNext
  <2>2. LimitNext(f) = CalculateTimeLimit(jurisdiction, f, u, DayA, DayB)
    BY <1>1 DEF LimitNext
  <2>3. n # 0 BY <1>1 DEF Limit, CalculateTimeLimit
  <2>4. k # 0
    <3> HIDE DEF u
    <3> QED BY <1>1, <2>2 DEF CalculateTimeLimit
  <2>5. /\ t \in Entries /\ n \in 1..6
        /\ Limit(f).date = ApplyAcas(AddMonthsLessOneDay(t, n), DayA, DayB)
    BY <2>1, <2>3, LimitIs DEF Limit
  <2>6. /\ u \in Entries /\ k \in 1..6
        /\ LimitNext(f).date = ApplyAcas(AddMonthsLessOneDay(u, k), DayA, DayB)
    <3> HIDE DEF u
    <3> QED BY <2>1, <2>2, <2>4, LimitIs
  <2>7. k <= n
    <3>1. t \in Nat /\ u \in Nat /\ u < t /\ Commencement \in Nat
      BY <1>1, <2>1, EntryTyped, RulesAssumption
    <3>2. \/ /\ f \in Lengthened
             /\ n = IF t < Commencement THEN 3 ELSE IF SIConfirmed THEN 6 ELSE 3
          \/ f \in Standing /\ n = 6
      BY <2>1, <2>3, <3>1, LeadMonths
    <3>3. \/ /\ f \in Lengthened
             /\ k = IF u < Commencement THEN 3 ELSE IF SIConfirmed THEN 6 ELSE 3
          \/ f \in Standing /\ k = 6
      <4> HIDE DEF u
      <4> QED BY <2>1, <2>4, <3>1, LeadMonths
    <3>4. ~(f \in Lengthened /\ f \in Standing) BY DEF Lengthened, Standing
    <3> HIDE DEF t, u, n, k
    <3> QED BY <3>1, <3>2, <3>3, <3>4
  <2>8. /\ AddMonthsLessOneDay(u, k) \in Int /\ AddMonthsLessOneDay(t, n) \in Int
        /\ AddMonthsLessOneDay(u, k) <= AddMonthsLessOneDay(t, n)
    <3>1. u <= t BY <1>1, <2>5, <2>6, EntryTyped
    <3> HIDE DEF t, u, n, k
    <3> QED BY <2>5, <2>6, <2>7, <3>1, BaseMonotone
  <2> HIDE DEF t, u, n, k
  <2> QED BY <2>1, <2>5, <2>6, <2>8, AcasMonotone
<1>2. ASSUME TypeOK, TypeOK'
      PROVE  \A f \in RelevantFamilies :
                  /\ Trigger(f)' < Trigger(f)
                  /\ jurisdiction' = jurisdiction /\ DayA' = DayA /\ DayB' = DayB
                  /\ Limit(f).date # NoDate /\ LimitNext(f).date # NoDate
               => LimitNext(f).date <= Limit(f).date
  BY <1>1, <1>2
<1> QED BY <1>2, DatesTyped, PTL DEF EarliestTriggerIsSafe

\* THEOREM.  No entry or later correction of a conciliation's end, nor the entry of
\* its start, moves a limit forward.
THEOREM ConciliationSafe == Spec => ConciliationOnlyHelps
<1>1. ASSUME TypeOK, TypeOK', NEW f \in RelevantFamilies,
             DayA \in {NoDate, DayA'}, DayB <= DayB',
             jurisdiction' = jurisdiction, Trigger(f)' = Trigger(f)
      PROVE  LimitNext(f).date >= Limit(f).date
  <2> DEFINE t == Trigger(f)
             n == Months(jurisdiction, f, t).lead
             base == AddMonthsLessOneDay(t, n)
  <2>1. /\ f \in Families /\ t \in Entries \cup {NoDate}
        /\ DayA \in Entries \cup {NoDate} /\ DayB \in Entries \cup {NoDate}
        /\ DayA' \in Entries \cup {NoDate} /\ DayB' \in Entries \cup {NoDate}
    BY <1>1, FamiliesTyped, SourcesTyped, SourcesTypedNext
  <2>2. LimitNext(f) = CalculateTimeLimit(jurisdiction, f, t, DayA', DayB')
    BY <1>1 DEF LimitNext
  <2>3. CASE n = 0
    <3>1. Limit(f).date = NoDate BY <2>3 DEF Limit, CalculateTimeLimit
    <3>2. LimitNext(f).date = NoDate BY <2>2, <2>3 DEF CalculateTimeLimit
    <3> QED BY <3>1, <3>2 DEF NoDate
  <2>4. CASE n # 0
    <3>1. t \in Entries /\ n \in 1..6 /\ Limit(f).date = ApplyAcas(base, DayA, DayB)
      BY <2>1, <2>4, LimitIs DEF Limit
    <3>2. LimitNext(f).date = ApplyAcas(base, DayA', DayB')
      BY <2>1, <2>2, <2>4, LimitIs
    <3>3. base \in Int
      <4> HIDE DEF t, n
      <4> QED BY <3>1, BaseMonotone, EntryTyped
    <3> HIDE DEF base
    <3>4. ApplyAcas(base, DayA', DayB') \in Int /\ ApplyAcas(base, DayA', DayB') >= base
      BY <2>1, <3>3, AcasTyped
    <3>5. CASE DayA = NoDate
      <4>1. ApplyAcas(base, DayA, DayB) = base BY <3>5 DEF ApplyAcas
      <4> QED BY <3>1, <3>2, <3>4, <4>1
    <3>6. CASE DayA = DayA'
      <4>1. ApplyAcas(base, DayA, DayB) <= ApplyAcas(base, DayA, DayB')
        BY <1>1, <2>1, <3>3, CertificateMonotone
      <4>2. ApplyAcas(base, DayA, DayB) \in Int BY <2>1, <3>3, AcasTyped
      <4> QED BY <3>1, <3>2, <3>4, <3>6, <4>1, <4>2
    <3> QED BY <1>1, <3>5, <3>6
  <2> QED BY <2>3, <2>4
<1>2. ASSUME TypeOK, TypeOK'
      PROVE  \A f \in RelevantFamilies :
                  /\ DayA \in {NoDate, DayA'} /\ DayB <= DayB' /\ <<DayA, DayB>> # <<DayA', DayB'>>
                  /\ jurisdiction' = jurisdiction /\ Trigger(f)' = Trigger(f)
               => LimitNext(f).date >= Limit(f).date
  BY <1>1, <1>2
<1> QED BY <1>2, DatesTyped, PTL DEF ConciliationOnlyHelps

\* THEOREM.  The windows of a family's rules leave no day out and cover none twice,
\* wherever the commencement falls.
THEOREM OneRuleForEachDay == Spec => []OneRuleApplies
<1>1. ASSUME TypeOK PROVE OneRuleApplies
  <2> SUFFICES ASSUME NEW f \in RelevantFamilies \ {"general"},
                      Trigger(f) >= RulesFrom[f], jurisdiction # "northern_ireland"
               PROVE  Cardinality(Candidates(jurisdiction, f, Trigger(f))) = 1
    BY DEF OneRuleApplies
  <2> DEFINE t == Trigger(f)
             C == Candidates(jurisdiction, f, t)
  <2>1. /\ f \in Families /\ t \in Nat /\ Commencement \in Nat
        /\ jurisdiction \in {"england_wales", "scotland"}
    <3>1. jurisdiction \in {"england_wales", "scotland", "northern_ireland"}
      BY <1>1, CaseDatesAssumption DEF TypeOK
    <3> QED BY <1>1, <3>1, FamiliesTyped, SourcesTyped, EntryTyped, RulesAssumption
  <2>2. \A r : r \in C <=> /\ r \in Rules /\ r.family = f /\ t >= r.from
                           /\ r.to = NoDate \/ t <= r.to
    BY <2>1 DEF Candidates
  <2> HIDE DEF t, C
  <2>3. CASE f \in Lengthened
    <3>1. /\ ThreeMonths(f).family = f /\ ThreeMonths(f).from = RulesFrom[f]
          /\ ThreeMonths(f).to = Commencement - 1 /\ ThreeMonths(f) \in Rules
          /\ SixMonths(f).family = f /\ SixMonths(f).from = Commencement
          /\ SixMonths(f).to = NoDate /\ SixMonths(f) \in Rules
      BY <2>3 DEF ThreeMonths, SixMonths, Rules
    <3>2. RulesFrom[f] \in Nat \ {0} /\ RulesFrom[f] < Commencement /\ f \notin Standing
      BY <2>3, RulesAssumption DEF Lengthened, Standing
    <3>3. t >= RulesFrom[f] BY DEF t
    <3>4. \A r : r \in C => r \in {ThreeMonths(f), SixMonths(f)}
      BY <2>1, <2>2, <3>2, RulesOf
    <3>5. CASE t < Commencement
      <4>1. ThreeMonths(f) \in C BY <2>1, <2>2, <3>1, <3>3, <3>5
      <4>2. SixMonths(f) \notin C BY <2>1, <2>2, <3>1, <3>5
      <4>3. C = {ThreeMonths(f)} BY <3>4, <4>1, <4>2
      <4> QED BY <4>3, FS_Singleton DEF t, C
    <3>6. CASE ~(t < Commencement)
      <4>1. SixMonths(f) \in C BY <2>1, <2>2, <3>1, <3>6
      <4>2. ThreeMonths(f) \notin C BY <2>1, <2>2, <3>1, <3>2, <3>6 DEF NoDate
      <4>3. C = {SixMonths(f)} BY <3>4, <4>1, <4>2
      <4> QED BY <4>3, FS_Singleton DEF t, C
    <3> QED BY <3>5, <3>6
  <2>4. CASE f \in Standing
    <3>1. /\ StandingSix(f).family = f /\ StandingSix(f).from = RulesFrom[f]
          /\ StandingSix(f).to = NoDate /\ StandingSix(f) \in Rules
      BY <2>4 DEF StandingSix, Rules
    <3>2. StandingSix(f) \in C BY <2>2, <3>1 DEF t
    <3>3. f \notin Lengthened BY <2>4 DEF Lengthened, Standing
    <3>4. C = {StandingSix(f)} BY <2>1, <2>2, <3>2, <3>3, RulesOf
    <3> QED BY <3>4, FS_Singleton DEF t, C
  <2> QED BY <2>1, <2>3, <2>4 DEF Families
<1> QED BY <1>1, DatesTyped, PTL

\* Months complete on a day just when the period has ended before it.
LEMMA ServiceMonths ==
  ASSUME NEW d \in Dates, NEW e \in Dates, NEW n \in Nat \ {0},
         MonthOf[d] + n + 1 <= LastMonth
  PROVE  CompleteMonthsBetween(d, e) >= n <=> e > AddMonthsLessOneDay(d, n)
<1> DEFINE m == MonthOf[d] + n
           i == DayOf(d)
           l == MonthOf[e]
           k == DayOf(e)
           L == Length(m)
<1>1. /\ MonthOf[d] \in Nat /\ l \in 0..LastMonth /\ e \in Nat
      /\ i \in Nat \ {0} /\ k \in 1..Length(l) /\ Length(l) \in 28..31
  <2>1. MonthOf[d] \in 0..LastMonth /\ l \in 0..LastMonth BY MonthTyped
  <2>2. Length(MonthOf[d]) \in 28..31 /\ Length(l) \in 28..31 BY <2>1, MonthLength
  <2>3. i \in 1..Length(MonthOf[d]) /\ k \in 1..Length(l) /\ e \in Nat BY MonthTyped
  <2> HIDE DEF i, k, l
  <2> QED BY <2>1, <2>2, <2>3
<1>2. m \in 0..LastMonth /\ m + 1 \in 0..LastMonth /\ m - MonthOf[d] = n
  <2>1. LastMonth \in Nat BY CalendarAssumption
  <2>2. MonthOf[d] \in Nat BY <1>1
  <2> QED BY <2>1, <2>2
<1>3. /\ CompleteMonthsBetween(d, e) = l - MonthOf[d] - (IF k < i THEN 1 ELSE 0)
      /\ AddMonthsLessOneDay(d, n) = MonthStart[m] - 1 + (IF i <= L THEN i - 1 ELSE L)
      /\ k = e - MonthStart[l] + 1
  BY DEF CompleteMonthsBetween, AddMonthsLessOneDay, DayOf
<1> HIDE DEF m, i, k, l
<1>4. /\ MonthStart[m] \in Nat /\ L \in 28..31 /\ MonthStart[m + 1] = MonthStart[m] + L
      /\ MonthStart[l] \in Nat /\ MonthStart[l + 1] = MonthStart[l] + Length(l)
  BY <1>1, <1>2, MonthLength
<1>5. CASE l < m
  <2>1. MonthStart[l + 1] <= MonthStart[m] BY <1>1, <1>2, <1>5, MonthsInOrder
  <2>2. e < MonthStart[m] BY <1>1, <1>3, <1>4, <2>1
  <2> HIDE DEF L
  <2>3. ~(e > AddMonthsLessOneDay(d, n)) BY <1>1, <1>3, <1>4, <2>2
  <2>4. ~(CompleteMonthsBetween(d, e) >= n) BY <1>1, <1>2, <1>3, <1>5
  <2> QED BY <2>3, <2>4
<1>6. CASE m < l
  <2>1. MonthStart[m + 1] <= MonthStart[l] BY <1>1, <1>2, <1>6, MonthsInOrder
  <2> HIDE DEF L
  <2>2. e >= MonthStart[m] + L BY <1>1, <1>3, <1>4, <2>1
  <2>3. e > AddMonthsLessOneDay(d, n) BY <1>1, <1>3, <1>4, <2>2
  <2>4. CompleteMonthsBetween(d, e) >= n BY <1>1, <1>2, <1>3, <1>6
  <2> QED BY <2>3, <2>4
<1>7. CASE l = m
  <2>1. k \in 1..L BY <1>1, <1>7
  <2> HIDE DEF L
  <2>2. CompleteMonthsBetween(d, e) >= n <=> k >= i BY <1>1, <1>2, <1>3, <1>7
  <2>3. e = MonthStart[m] + k - 1 BY <1>1, <1>3, <1>4, <1>7
  <2>4. e > AddMonthsLessOneDay(d, n) <=> k >= i BY <1>1, <1>3, <1>4, <2>1, <2>3
  <2> QED BY <2>2, <2>4
<1> QED BY <1>1, <1>2, <1>5, <1>6, <1>7

\* The employment's start is one of the dates entered for it.
StartChosen == given["startDate"] \in Choices["startDate"] \cup {NoDate}

LEMMA StartStaysChosen == Spec => []StartChosen
<1>1. Init => StartChosen BY DEF Init, StartChosen, Keys
<1>2. TypeOK /\ StartChosen /\ [Next]_vars => StartChosen'
  <2> SUFFICES ASSUME TypeOK, StartChosen, [Next]_vars PROVE StartChosen'
    OBVIOUS
  <2>1. ASSUME NEW k \in Keys, RemoveDate(k) PROVE StartChosen'
    BY <2>1 DEF RemoveDate, TypeOK, StartChosen, Keys
  <2>2. ASSUME NEW k \in Keys, NEW d \in Choices[k], RecordDate(k, d) PROVE StartChosen'
    BY <2>2 DEF RecordDate, TypeOK, StartChosen, Keys
  <2>3. ASSUME NEW j \in Jurisdictions, MoveCase(j) PROVE StartChosen'
    BY <2>3 DEF MoveCase, StartChosen
  <2>4. CASE UNCHANGED vars BY <2>4 DEF vars, StartChosen
  <2> QED BY <2>1, <2>2, <2>3, <2>4 DEF Next
<1> QED BY <1>1, <1>2, DatesTyped, PTL DEF Spec

\* THEOREM.  The qualifying period and the time limits count the same months:
\* service qualifies from the day after the required period, at any month's end.
THEOREM ServiceCounted == Spec => []ServiceQualifies
<1>1. ASSUME TypeOK, StartChosen PROVE ServiceQualifies
  <2> DEFINE start == given["startDate"]
             R == RequiredMonths(EDT)
  <2> SUFFICES ASSUME start # NoDate, EDT # NoDate, start <= EDT
               PROVE  CompleteMonthsBetween(start, EDT) >= R
                        <=> EDT > AddMonthsLessOneDay(start, R)
    BY DEF ServiceQualifies, HasQualifyingService
  <2>1. start \in Choices["startDate"] BY <1>1 DEF StartChosen
  <2>2. start \in Entries /\ MonthOf[start] + 25 <= LastMonth
    BY <2>1, CaseDatesAssumption DEF Keys
  <2>3. start \in Dates /\ MonthOf[start] \in 0..LastMonth BY <2>2, MonthTyped DEF Entries
  <2>4. EDT \in Dates
    <3>1. \A k \in {"effective_date_of_termination", "dismissal_date", "endDate"} :
            given[k] \in Entries \cup {NoDate}
      BY <1>1 DEF TypeOK, Keys
    <3>2. EDT \in Entries \cup {NoDate} BY <3>1 DEF EDT, Or
    <3> QED BY <3>2 DEF Entries
  <2>5. R \in {6, 24} BY DEF RequiredMonths
  <2> HIDE DEF start, R
  <2>6. MonthOf[start] + R + 1 <= LastMonth BY <2>2, <2>3, <2>5, CalendarAssumption
  <2> QED BY <2>3, <2>4, <2>5, <2>6, ServiceMonths
<1> QED BY <1>1, DatesTyped, StartStaysChosen, PTL

-----------------------------------------------------------------------------
(* What the runs check of the dates, for every calendar and every record.   *)

\* Limits and service count months alike, at any month's end and in any year.
THEOREM MonthsCounted == Spec => []MonthsAreCounted
BY MonthsAreCompleted, ServiceCounted, PTL DEF MonthsAreCounted

\* Conciliation does what s207B says in both calculators, for every Day A,
\* Day B and limit.
THEOREM StatutesFollowed == Spec => []LimitIsTheStatutes
BY ConciliationByStatute, EnginesAlwaysAgree, PTL DEF LimitIsTheStatutes

\* No day is without a rule or under two, wherever the commencement falls.
THEOREM RulesCoverEachDay == Spec => []RuleForEachDay
BY OneRuleForEachDay, ShorterLeads, PTL DEF RuleForEachDay

\* A correction to an earlier trigger, or to a later conciliation, moves no limit
\* the wrong way.
THEOREM CorrectionsSafe == Spec => CorrectionsAreSafe
BY EarlierIsSafe, ConciliationSafe, PTL DEF CorrectionsAreSafe

=============================================================================
