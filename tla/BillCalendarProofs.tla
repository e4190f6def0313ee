------------------------- MODULE BillCalendarProofs -------------------------
(* Proofs about BillCalendar, for any calendar, zone, due day and number   *)
(* of payments, and for a day of any number of parts.                      *)
EXTENDS BillCalendar, SumTheorems, TLAPS

N == Len(MonthLength)

-----------------------------------------------------------------------------
(* Arithmetic *)

LEMMA Division ==
  ASSUME NEW a \in Int, NEW b \in Nat \ {0}
  PROVE  a \div b \in Int /\ b * (a \div b) <= a /\ a < b * (a \div b) + b
OBVIOUS

LEMMA Scale ==
  ASSUME NEW b \in Nat \ {0}, NEW x \in Int, NEW y \in Int
  PROVE  /\ b * x \in Int /\ b * (x + 1) = b * x + b
         /\ x < y => b * x + b <= b * y
         /\ x <= y => b * x <= b * y
OBVIOUS

LEMMA Quotient ==
  ASSUME NEW b \in Nat \ {0}, NEW q \in Int, NEW r \in 0 .. b - 1
  PROVE  (b * q + r) \div b = q
OBVIOUS

-----------------------------------------------------------------------------
(* The months *)

LEMMA MonthsType ==
  /\ N \in Nat /\ Months = 1 .. N /\ \A m \in 1 .. N : MonthLength[m] \in Nat \ {0}
  /\ FirstMonth \in 1 .. N - 1 /\ LastMonth \in FirstMonth .. N - 1
BY BillCalendarAssumption DEF N, Months

(* The days before the months add up, month by month. *)
LEMMA FirstDayExists ==
  \E g \in [1 .. N + 1 -> Int] :
    g = [m \in 1 .. N + 1 |-> IF m = 1 THEN 1 ELSE g[m - 1] + MonthLength[m - 1]]
<1> DEFINE Next1(g, m) == IF m = 1 THEN 1 ELSE g[m - 1] + MonthLength[m - 1]
           Upto(g, n) == \A m \in 1 .. N + 1 : m <= n => g[m] = Next1(g, m)
           G == {n \in Nat : \E g \in [1 .. N + 1 -> Int] : Upto(g, n)}
<1>1. 0 \in G
  <2>1. [m \in 1 .. N + 1 |-> 0] \in [1 .. N + 1 -> Int] /\ Upto([m \in 1 .. N + 1 |-> 0], 0)
    BY MonthsType
  <2>2. QED
    BY <2>1
<1>2. ASSUME NEW n \in Nat, n \in G
      PROVE  n + 1 \in G
  <2>1. PICK g \in [1 .. N + 1 -> Int] : Upto(g, n)
    BY <1>2
  <2> DEFINE k == [m \in 1 .. N + 1 |-> IF m <= n THEN g[m] ELSE Next1(g, m)]
  <2>2. \A m \in 1 .. N + 1 : Next1(g, m) \in Int
    BY MonthsType
  <2>3. k \in [1 .. N + 1 -> Int]
    BY <2>2
  <2>4. ASSUME NEW m \in 1 .. N + 1, m <= n + 1
        PROVE  k[m] = Next1(k, m)
    <3>1. m # 1 => m - 1 \in 1 .. N + 1 /\ m - 1 <= n
      BY <2>4, MonthsType
    <3>2. Next1(k, m) = Next1(g, m)
      BY <3>1
    <3>3. QED
      BY <2>1, <3>2
  <2> HIDE DEF k
  <2>5. Upto(k, n + 1)
    BY <2>4
  <2> HIDE DEF Upto
  <2>6. QED
    BY <2>3, <2>5
<1>3. N + 1 \in G
  <2> HIDE DEF G
  <2>1. Nat \subseteq G
    BY <1>1, <1>2, NatSetInduction
  <2>2. QED
    BY <2>1, MonthsType
<1>4. PICK g \in [1 .. N + 1 -> Int] : Upto(g, N + 1)
  BY <1>3
<1>5. \A m \in 1 .. N + 1 : g[m] = Next1(g, m)
  BY <1>4, MonthsType
<1>6. g = [m \in 1 .. N + 1 |-> Next1(g, m)]
  BY <1>5
<1>7. QED
  BY <1>6

LEMMA FirstDayType ==
  /\ FirstDay \in [1 .. N + 1 -> Int] /\ FirstDay[1] = 1
  /\ \A m \in 1 .. N : FirstDay[m + 1] = FirstDay[m] + MonthLength[m]
<1> DEFINE P(g) == g = [m \in 1 .. N + 1 |-> IF m = 1 THEN 1 ELSE g[m - 1] + MonthLength[m - 1]]
<1>1. FirstDay = CHOOSE g : P(g)
  BY DEF FirstDay, N
<1>2. \E g : P(g)
  BY FirstDayExists
<1>3. P(FirstDay)
  BY <1>1, <1>2
<1>4. ASSUME NEW g, P(g)
      PROVE  /\ g = [m \in 1 .. N + 1 |-> g[m]]
             /\ \A m \in 1 .. N + 1 : g[m] = IF m = 1 THEN 1 ELSE g[m - 1] + MonthLength[m - 1]
  <2> DEFINE F(m) == IF m = 1 THEN 1 ELSE g[m - 1] + MonthLength[m - 1]
  <2>1. g = [m \in 1 .. N + 1 |-> F(m)]
    BY <1>4
  <2> HIDE DEF F
  <2>2. \A m \in 1 .. N + 1 : g[m] = F(m)
    BY <2>1
  <2>3. g = [m \in 1 .. N + 1 |-> g[m]]
    BY <2>1, <2>2
  <2>4. QED
    BY <2>2, <2>3 DEF F
<1>5. \A m \in 1 .. N + 1 :
         FirstDay[m] = IF m = 1 THEN 1 ELSE FirstDay[m - 1] + MonthLength[m - 1]
  BY <1>3, <1>4
<1>6. FirstDay = [m \in 1 .. N + 1 |-> FirstDay[m]]
  BY <1>3, <1>4
<1> HIDE DEF P
<1>7. FirstDay[1] = 1
  <2>1. 1 \in 1 .. N + 1
    BY MonthsType
  <2>2. QED
    BY <1>5, <2>1
<1>8. ASSUME NEW m \in 1 .. N
      PROVE  FirstDay[m + 1] = FirstDay[m] + MonthLength[m]
  <2>1. m + 1 \in 1 .. N + 1 /\ m + 1 # 1 /\ (m + 1) - 1 = m
    BY MonthsType
  <2>2. QED
    BY <1>5, <2>1
<1> DEFINE G == {n \in Nat : \A m \in 1 .. N + 1 : m <= n + 1 => FirstDay[m] \in Int}
<1>9. 0 \in G
  <2>1. \A m \in 1 .. N + 1 : m <= 0 + 1 => m = 1
    BY MonthsType
  <2>2. QED
    BY <1>7, <2>1
<1>10. ASSUME NEW n \in Nat, n \in G
      PROVE  n + 1 \in G
  <2> SUFFICES ASSUME NEW m \in 1 .. N + 1, m = (n + 1) + 1
               PROVE  FirstDay[m] \in Int
    BY <1>10, MonthsType
  <2>1. n + 1 \in 1 .. N
    BY MonthsType
  <2>2. FirstDay[n + 1] \in Int /\ MonthLength[n + 1] \in Int
    <3>1. n + 1 \in 1 .. N + 1 /\ n + 1 <= n + 1
      BY <2>1, MonthsType
    <3>2. QED
      BY <1>10, <2>1, <3>1, MonthsType
  <2>3. FirstDay[(n + 1) + 1] = FirstDay[n + 1] + MonthLength[n + 1]
    BY <1>8, <2>1
  <2>4. QED
    BY <2>2, <2>3
<1>11. N \in G
  <2> HIDE DEF G
  <2>1. Nat \subseteq G
    BY <1>9, <1>10, NatSetInduction
  <2>2. QED
    BY <2>1, MonthsType
<1>12. \A m \in 1 .. N + 1 : FirstDay[m] \in Int
  BY <1>11, MonthsType
<1> HIDE DEF G
<1>13. QED
  BY <1>8, <1>12, <1>6, <1>7

(* Months follow each other without a gap. *)
LEMMA Increasing ==
  ASSUME NEW m \in 1 .. N, NEW k \in m + 1 .. N + 1
  PROVE  FirstDay[m + 1] <= FirstDay[k]
<1> DEFINE G == {n \in Nat : m + 1 + n \in 1 .. N + 1 => FirstDay[m + 1] <= FirstDay[m + 1 + n]}
<1>1. 0 \in G
  BY FirstDayType, MonthsType
<1>2. ASSUME NEW n \in Nat, n \in G
      PROVE  n + 1 \in G
  <2> SUFFICES ASSUME m + 1 + (n + 1) \in 1 .. N + 1
               PROVE  FirstDay[m + 1] <= FirstDay[m + 1 + (n + 1)]
    OBVIOUS
  <2> DEFINE j == m + 1 + n
  <2>1. j \in 1 .. N /\ j + 1 = m + 1 + (n + 1) /\ m + 1 \in 1 .. N + 1
    BY MonthsType
  <2>2. FirstDay[m + 1] <= FirstDay[j]
    <3>1. m + 1 + n \in 1 .. N + 1
      BY <2>1, MonthsType
    <3>2. QED
      BY <1>2, <3>1
  <2> HIDE DEF j
  <2>3. /\ FirstDay[j + 1] = FirstDay[j] + MonthLength[j] /\ MonthLength[j] \in Nat
        /\ FirstDay[j] \in Int /\ FirstDay[m + 1] \in Int
    BY <2>1, FirstDayType, MonthsType
  <2>4. QED
    BY <2>1, <2>2, <2>3
<1>3. k - (m + 1) \in G
  <2> HIDE DEF G
  <2>1. Nat \subseteq G
    BY <1>1, <1>2, NatSetInduction
  <2>2. k - (m + 1) \in Nat
    BY MonthsType
  <2>3. QED
    BY <2>1, <2>2
<1>4. m + 1 + (k - (m + 1)) = k
  BY MonthsType
<1>5. QED
  BY <1>3, <1>4, MonthsType

(* The first day of a month, and its last one. *)
LEMMA MonthBounds ==
  ASSUME NEW m \in 1 .. N
  PROVE  /\ FirstDay[m] \in Nat \ {0} /\ LastDay(m) \in Int /\ FirstDay[m + 1] \in Int
         /\ LastDay(m) = FirstDay[m] + MonthLength[m] - 1
         /\ FirstDay[m] <= LastDay(m) /\ FirstDay[m + 1] = LastDay(m) + 1
<1>1. /\ FirstDay[m] \in Int /\ FirstDay[m + 1] \in Int /\ MonthLength[m] \in Nat \ {0}
      /\ FirstDay[m + 1] = FirstDay[m] + MonthLength[m] /\ FirstDay[1] = 1
  BY FirstDayType, MonthsType
<1>2. FirstDay[m] >= 1
  <2>1. CASE m = 1
    BY <1>1, <2>1
  <2>2. CASE m # 1
    <3>1. 1 \in 1 .. N /\ m \in 1 + 1 .. N + 1 /\ MonthLength[1] \in Nat \ {0}
      BY <2>2, MonthsType
    <3>2. FirstDay[1 + 1] <= FirstDay[m] /\ FirstDay[1 + 1] = FirstDay[1] + MonthLength[1]
      BY <3>1, Increasing, FirstDayType
    <3>3. QED
      BY <1>1, <3>1, <3>2
  <2>3. QED
    BY <2>1, <2>2
<1>3. QED
  BY <1>1, <1>2 DEF LastDay

(* Earlier months have earlier days. *)
LEMMA MonthOrder ==
  ASSUME NEW m \in 1 .. N, NEW k \in 1 .. N, NEW d \in DaysOf(m), NEW e \in DaysOf(k)
  PROVE  /\ d \in Nat \ {0} /\ e \in Nat \ {0}
         /\ m < k => d < e
         /\ d <= e => m <= k
         /\ d = e => m = k
<1>1. ASSUME NEW i \in 1 .. N, NEW j \in 1 .. N, i < j
      PROVE  LastDay(i) < FirstDay[j]
  <2>1. j \in i + 1 .. N + 1
    BY <1>1, MonthsType
  <2>2. FirstDay[i + 1] <= FirstDay[j]
    BY <2>1, Increasing
  <2>3. QED
    BY <2>2, MonthBounds
<1>2. /\ d \in Int /\ FirstDay[m] <= d /\ d <= LastDay(m)
      /\ e \in Int /\ FirstDay[k] <= e /\ e <= LastDay(k)
  BY MonthBounds DEF DaysOf
<1>3. d \in Nat \ {0} /\ e \in Nat \ {0}
  BY <1>2, MonthBounds
<1>4. m < k => d < e
  BY <1>1, <1>2, MonthBounds
<1>5. k < m => e < d
  BY <1>1, <1>2, MonthBounds
<1>6. QED
  BY <1>3, <1>4, <1>5, MonthsType

(* Every day up to the end of a month is in one of the months until then.  *)
LEMMA DayInMonth ==
  ASSUME NEW i \in 1 .. N, NEW k \in i .. N, NEW d \in FirstDay[i] .. LastDay(k)
  PROVE  \E m \in i .. k : d \in DaysOf(m)
<1> DEFINE T == {m \in Nat : m \in i .. k /\ d <= LastDay(m)}
<1>1. i \in Nat /\ k \in 1 .. N /\ i <= k
  BY MonthsType
<1>2. k \in T /\ d \in Int
  BY <1>1, MonthBounds
<1>3. PICK m \in T : \A j \in T : m <= j
  BY <1>2, LeastNat
<1>4. m \in i .. k /\ d <= LastDay(m) /\ m \in 1 .. N /\ m \in Nat
  <2>1. m \in i .. k /\ d <= LastDay(m)
    BY <1>3
  <2>2. QED
    BY <1>1, <2>1, MonthsType
<1>5. FirstDay[m] <= d
  <2>1. CASE m = i
    BY <2>1, <1>4, MonthBounds
  <2>2. CASE m # i
    <3>1. m - 1 \in i .. k /\ m - 1 \in 1 .. N /\ (m - 1) + 1 = m /\ m - 1 \in Nat /\ ~(m <= m - 1)
      BY <1>1, <1>4, <2>2, MonthsType
    <3>2. ~(d <= LastDay(m - 1))
      BY <1>3, <3>1
    <3>3. FirstDay[m] = LastDay(m - 1) + 1 /\ LastDay(m - 1) \in Int
      BY <3>1, MonthBounds
    <3>4. QED
      BY <1>2, <3>2, <3>3
  <2>3. QED
    BY <2>1, <2>2
<1>6. QED
  BY <1>2, <1>4, <1>5, MonthBounds DEF DaysOf

-----------------------------------------------------------------------------
(* The phone's days, in parts of UTC.                                      *)

(* East of UTC, a local midnight is on the day before. *)
Shift == IF zone > 0 THEN 1 ELSE 0

(* The day of a month on which the bill is due. *)
DueDayOf(m) == FirstDay[m] + Min({dueDay, MonthLength[m]}) - 1

LEMMA ZoneType ==
  ASSUME zone \in Zones
  PROVE  /\ zone \in Int /\ Parts \in Nat \ {0} /\ 0 - Parts < zone /\ zone < Parts
         /\ Shift \in {0, 1}
<1>1. zone \in 1 - Parts .. Parts - 1 /\ Parts \in Nat \ {0}
  BY BillCalendarAssumption
<1>2. QED
  BY <1>1 DEF Shift

(* A local midnight: the day it begins, and its date in UTC. *)
LEMMA Midnights ==
  ASSUME zone \in Zones, NEW d \in Int
  PROVE  /\ Midnight(d) \in Int /\ LocalDay(Midnight(d)) = d
         /\ UTCDate(Midnight(d)) = d - Shift
<1>1. Midnight(d) \in Int /\ Midnight(d) + zone = Parts * d + 0 /\ 0 \in 0 .. Parts - 1
  BY ZoneType, Scale DEF Midnight
<1>2. LocalDay(Midnight(d)) = d
  <2>1. (Parts * d + 0) \div Parts = d
    BY <1>1, ZoneType, Quotient
  <2>2. QED
    BY <1>1, <2>1 DEF LocalDay
<1>3. CASE zone > 0
  <2>1. Parts - zone \in 0 .. Parts - 1 /\ d - 1 \in Int /\ Shift = 1
    BY <1>3, ZoneType DEF Shift
  <2>2. (Parts * (d - 1) + (Parts - zone)) \div Parts = d - 1
    BY <2>1, ZoneType, Quotient
  <2>3. Parts * ((d - 1) + 1) = Parts * (d - 1) + Parts /\ (d - 1) + 1 = d
    BY <2>1, ZoneType, Scale
  <2>4. Parts * (d - 1) + (Parts - zone) = Midnight(d)
    <3>1. Parts * (d - 1) \in Int /\ Parts * d = Parts * (d - 1) + Parts
      BY <2>1, <2>3, ZoneType, Scale
    <3>2. QED
      BY <3>1, ZoneType DEF Midnight
  <2>5. QED
    BY <1>1, <1>2, <2>1, <2>2, <2>4 DEF UTCDate
<1>4. CASE ~(zone > 0)
  <2>1. 0 - zone \in 0 .. Parts - 1 /\ Shift = 0 /\ d - Shift = d
    BY <1>4, ZoneType DEF Shift
  <2>2. (Parts * d + (0 - zone)) \div Parts = d
    BY <2>1, ZoneType, Quotient
  <2>3. Parts * d + (0 - zone) = Midnight(d)
    BY <1>1, ZoneType, Scale DEF Midnight
  <2>4. QED
    BY <1>1, <1>2, <2>1, <2>2, <2>3 DEF UTCDate
<1>5. QED
  BY <1>3, <1>4

(* Later days begin later. *)
LEMMA MidnightOrder ==
  ASSUME zone \in Zones, NEW d \in Int, NEW e \in Int
  PROVE  /\ d < e => Midnight(d) + Parts <= Midnight(e)
         /\ d <= e => Midnight(d) <= Midnight(e)
         /\ Midnight(d) <= Midnight(e) => d <= e
         /\ Midnight(d) < Midnight(e) => d < e
<1>1. /\ d < e => Parts * d + Parts <= Parts * e
      /\ e < d => Parts * e + Parts <= Parts * d
      /\ Parts * d \in Int /\ Parts * e \in Int
  BY ZoneType, Scale
<1>2. d < e \/ e < d \/ d = e
  OBVIOUS
<1>3. QED
  BY <1>1, <1>2, ZoneType DEF Midnight

(* A time is in the day that began last. *)
LEMMA LocalDays ==
  ASSUME zone \in Zones, NEW t \in Int
  PROVE  /\ LocalDay(t) \in Int
         /\ Midnight(LocalDay(t)) <= t /\ t < Midnight(LocalDay(t)) + Parts
         /\ \A d \in Int : (Midnight(d) <= t => d <= LocalDay(t))
                          /\ (t < Midnight(d) => LocalDay(t) < d)
<1> DEFINE q == LocalDay(t)
<1>1. t + zone \in Int /\ Parts \in Nat \ {0} /\ zone \in Int
  BY ZoneType
<1>2. q \in Int /\ Parts * q <= t + zone /\ t + zone < Parts * q + Parts
  <2>1. LocalDay(t) = (t + zone) \div Parts
    BY DEF LocalDay
  <2>2. QED
    BY <1>1, <2>1, Division
<1> HIDE DEF q
<1>3. Parts * q \in Int
  BY <1>1, <1>2, Scale
<1>4. Midnight(q) <= t /\ t < Midnight(q) + Parts /\ Midnight(q) \in Int
  BY <1>1, <1>2, <1>3 DEF Midnight
<1>5. ASSUME NEW d \in Int
      PROVE  /\ Midnight(d) <= t => d <= q
             /\ t < Midnight(d) => q < d
  <2>1. q < d => Midnight(q) + Parts <= Midnight(d)
    BY <1>2, MidnightOrder
  <2>2. d <= q => Midnight(d) <= Midnight(q)
    BY <1>2, MidnightOrder
  <2>3. Midnight(d) \in Int
    BY Midnights
  <2>4. QED
    BY <1>1, <1>2, <1>4, <2>1, <2>2, <2>3
<1>6. QED
  BY <1>2, <1>4, <1>5 DEF q

(* The bill is due on a day of the month. *)
LEMMA DueDayInMonth ==
  ASSUME dueDay \in DueDays, NEW m \in 1 .. N
  PROVE  /\ DueDayOf(m) \in DaysOf(m) /\ DueDayOf(m) \in Int
         /\ CandidateFor(m) = Midnight(DueDayOf(m))
<1>1. dueDay \in Nat \ {0}
  BY BillCalendarAssumption
<1>2. MonthLength[m] \in Nat \ {0}
  BY MonthsType
<1> DEFINE x == Min({dueDay, MonthLength[m]})
           P(y) == y \in {dueDay, MonthLength[m]} /\ \A z \in {dueDay, MonthLength[m]} : y <= z
<1>3. x = CHOOSE y : P(y)
  BY DEF Min
<1>4. \E y : P(y)
  <2>1. CASE dueDay <= MonthLength[m]
    <3>1. P(dueDay)
      BY <1>1, <1>2, <2>1
    <3>2. QED
      BY <3>1
  <2>2. CASE ~(dueDay <= MonthLength[m])
    <3>1. P(MonthLength[m])
      BY <1>1, <1>2, <2>2
    <3>2. QED
      BY <3>1
  <2>3. QED
    BY <2>1, <2>2
<1>5. P(x)
  BY <1>3, <1>4
<1>6. x \in Nat /\ 1 <= x /\ x <= MonthLength[m]
  BY <1>1, <1>2, <1>5
<1>7. DueDayOf(m) = FirstDay[m] + x - 1
  BY DEF DueDayOf
<1> HIDE DEF x
<1>8. DueDayOf(m) \in Int /\ FirstDay[m] <= DueDayOf(m) /\ DueDayOf(m) <= LastDay(m)
  BY <1>2, <1>6, <1>7, MonthBounds
<1>9. QED
  BY <1>8, MonthBounds DEF DaysOf, CandidateFor, DueDayOf

(* The periods of a bill follow each other like the months. *)
LEMMA CandidateOrder ==
  ASSUME zone \in Zones, dueDay \in DueDays, NEW m \in 1 .. N, NEW k \in 1 .. N
  PROVE  /\ CandidateFor(m) \in Int /\ CandidateFor(k) \in Int
         /\ m < k => CandidateFor(m) < CandidateFor(k)
         /\ CandidateFor(m) <= CandidateFor(k) => m <= k
         /\ UTCDate(CandidateFor(m)) = DueDayOf(m) - Shift
<1> DEFINE d == DueDayOf(m)
           e == DueDayOf(k)
<1>1. /\ d \in DaysOf(m) /\ e \in DaysOf(k) /\ d \in Int /\ e \in Int
      /\ CandidateFor(m) = Midnight(d) /\ CandidateFor(k) = Midnight(e)
  BY DueDayInMonth
<1> HIDE DEF d, e
<1>2. /\ m < k => d < e
      /\ d <= e => m <= k
  BY <1>1, MonthOrder
<1>3. /\ d < e => Midnight(d) + Parts <= Midnight(e)
      /\ Midnight(d) <= Midnight(e) => d <= e
      /\ Midnight(d) \in Int /\ Midnight(e) \in Int /\ Parts \in Nat \ {0}
      /\ UTCDate(Midnight(d)) = d - Shift
  BY <1>1, MidnightOrder, Midnights, ZoneType
<1>4. QED
  BY <1>1, <1>2, <1>3 DEF d

(* While the app is used, the time is in one of its months. *)
LEMMA InMonth ==
  ASSUME zone \in Zones, NEW t \in Instants, Midnight(FirstDay[FirstMonth]) <= t
  PROVE  /\ t \in Int /\ LocalDay(t) \in Int
         /\ MonthOf(t) \in FirstMonth .. LastMonth /\ MonthOf(t) \in 1 .. N - 1
         /\ LocalDay(t) \in DaysOf(MonthOf(t))
<1> DEFINE d == LocalDay(t)
           last1 == LastDay(LastMonth)
<1>1. FirstMonth \in 1 .. N /\ LastMonth \in FirstMonth .. N /\ LastMonth \in 1 .. N
  BY MonthsType
<1>2. last1 \in Int /\ FirstDay[FirstMonth] \in Int
  BY <1>1, MonthBounds
<1>3. t \in Int /\ t < Midnight(last1 + 1)
  <2>1. Midnight(last1 + 1) \in Int /\ Midnight(1) \in Int
    BY <1>2, Midnights
  <2>2. t \in Midnight(1) .. Midnight(last1 + 1) - 1
    BY DEF Instants
  <2> HIDE DEF last1
  <2>3. QED
    BY <2>1, <2>2
<1>4. d \in Int /\ FirstDay[FirstMonth] <= d /\ d < last1 + 1
  <2> HIDE DEF last1
  <2>1. last1 + 1 \in Int
    BY <1>2
  <2>2. QED
    BY <1>2, <1>3, <2>1, LocalDays
<1>5. \E m \in FirstMonth .. LastMonth : d \in DaysOf(m)
  <2>1. d \in FirstDay[FirstMonth] .. LastDay(LastMonth)
    BY <1>2, <1>4
  <2> HIDE DEF d
  <2>2. QED
    BY <1>1, <2>1, DayInMonth
<1> HIDE DEF d
<1>6. PICK m \in FirstMonth .. LastMonth : d \in DaysOf(m)
  BY <1>5
<1>7. m \in 1 .. N /\ m \in 1 .. N - 1
  BY <1>1, MonthsType
<1>8. MonthOf(t) \in Months /\ d \in DaysOf(MonthOf(t))
  BY <1>6, <1>7, MonthsType DEF MonthOf, d
<1>9. MonthOf(t) = m
  BY <1>6, <1>7, <1>8, MonthOrder, MonthsType
<1>10. QED
  BY <1>3, <1>4, <1>6, <1>7, <1>8, <1>9 DEF d

(* The bill is due at an instant of the model. *)
LEMMA DayIsInstant ==
  ASSUME zone \in Zones, NEW m \in FirstMonth .. LastMonth, NEW d \in DaysOf(m)
  PROVE  Midnight(d) \in Instants
<1>1. m \in 1 .. N /\ LastMonth \in m .. N /\ LastMonth \in 1 .. N
  BY MonthsType
<1>2. d \in Int /\ 1 <= d /\ d <= LastDay(m)
  BY <1>1, MonthBounds DEF DaysOf
<1>3. LastDay(m) <= LastDay(LastMonth)
  <2>1. CASE m = LastMonth
    BY <1>1, <2>1, MonthBounds
  <2>2. CASE m # LastMonth
    <3>1. /\ LastDay(m) \in DaysOf(m) /\ LastDay(LastMonth) \in DaysOf(LastMonth)
          /\ m < LastMonth
      BY <1>1, <2>2, MonthBounds, MonthsType DEF DaysOf
    <3>2. LastDay(m) < LastDay(LastMonth)
      BY <1>1, <3>1, MonthOrder
    <3>3. QED
      BY <1>1, <3>2, MonthBounds
  <2>3. QED
    BY <2>1, <2>2
<1>4. LastDay(LastMonth) \in Int /\ d < LastDay(LastMonth) + 1
  BY <1>1, <1>2, <1>3, MonthBounds
<1> DEFINE e == LastDay(LastMonth) + 1
<1>5. e \in Int /\ d < e
  BY <1>4
<1>6. Instants = Midnight(1) .. Midnight(e) - 1
  BY DEF Instants
<1> HIDE DEF e
<1>7. /\ Midnight(d) \in Int /\ Midnight(e) \in Int /\ Midnight(1) \in Int
      /\ Midnight(1) <= Midnight(d) /\ Midnight(d) + Parts <= Midnight(e)
  BY <1>2, <1>5, Midnights, MidnightOrder
<1>8. QED
  BY <1>6, <1>7, ZoneType

(* Dates are not mistaken for Never. *)
LEMMA DatesType ==
  ASSUME zone \in Zones, NEW date \in Dates
  PROVE  date \in Nat /\ date # Never /\ date # Unknown
<1>1. PICK t \in Instants : date = UTCDate(t)
  BY DEF Dates
<1>2. LastMonth \in 1 .. N
  BY MonthsType
<1>3. LastDay(LastMonth) + 1 \in Int
  BY <1>2, MonthBounds
<1>4. Midnight(1) \in Int /\ Midnight(LastDay(LastMonth) + 1) \in Int
  BY <1>3, Midnights
<1>5. t \in Int /\ Midnight(1) <= t
  BY <1>4 DEF Instants
<1>6. Midnight(1) >= 1 /\ Parts \in Nat \ {0}
  <2>1. Parts * 1 = Parts
    BY ZoneType
  <2>2. QED
    BY <2>1, ZoneType DEF Midnight
<1>7. date \in Int /\ t < Parts * date + Parts
  BY <1>1, <1>5, <1>6, Division DEF UTCDate
<1>8. date >= 0
  <2>1. date < 0 => Parts * date + Parts <= Parts * 0
    BY <1>6, <1>7, Scale
  <2>2. Parts * 0 = 0 /\ Parts * date \in Int
    BY <1>6, <1>7, Scale
  <2>3. QED
    BY <1>4, <1>5, <1>6, <1>7, <2>1, <2>2
<1>9. QED
  BY <1>7, <1>8 DEF Never, Unknown

-----------------------------------------------------------------------------
(* The months of the reports *)

(* A quotient reaches a number when the dividend reaches its multiple.     *)
LEMMA QuotientReaches ==
  ASSUME NEW b \in Nat \ {0}, NEW x \in Int, NEW p \in Int
  PROVE  (b * p <= x) <=> (p <= x \div b)
<1> DEFINE q == x \div b
<1>1. q \in Int /\ b * q <= x /\ x < b * q + b
  BY Division
<1> HIDE DEF q
<1>2. p <= q => b * p <= b * q
  BY <1>1, Scale
<1>3. q < p => b * q + b <= b * p
  BY <1>1, Scale
<1>4. b * p \in Int /\ b * q \in Int
  BY <1>1, Scale
<1>5. b * p <= x <=> p <= q
  BY <1>1, <1>2, <1>3, <1>4
<1>6. QED
  BY <1>5 DEF q

(* A month of the reports has the dates of its days, moved as a whole. *)
LEMMA CountedByDate ==
  ASSUME zone \in Zones, NEW t \in Int, NEW m \in 1 .. N
  PROVE  /\ UTCDate(t) \in Int
         /\ ReportStart(m) <= t /\ t < ReportEnd(m)
              <=> UTCDate(t) + Shift \in DaysOf(m)
<1> DEFINE q == UTCDate(t)
           f == FirstDay[m]
           e == LastDay(m)
<1>1. f \in Int /\ e \in Int /\ Parts \in Nat \ {0} /\ Shift \in {0, 1}
  BY MonthBounds, ZoneType
<1>2. q \in Int
  BY <1>1, Division DEF UTCDate
<1>3. /\ ReportStart(m) = Parts * (f - Shift)
      /\ ReportEnd(m) = Parts * ((e - Shift) + 1)
  BY <1>1, Midnights DEF ReportStart, ReportEnd
<1> HIDE DEF f, e
<1>4. /\ f - Shift \in Int /\ (e - Shift) + 1 \in Int
  BY <1>1
<1>5. /\ Parts * (f - Shift) <= t <=> f - Shift <= q
      /\ Parts * ((e - Shift) + 1) <= t <=> (e - Shift) + 1 <= q
  BY <1>1, <1>4, QuotientReaches DEF UTCDate
<1>6. Parts * ((e - Shift) + 1) \in Int
  BY <1>1, <1>4, Scale
<1> HIDE DEF q
<1>7. /\ f - Shift <= q <=> f <= q + Shift
      /\ ~((e - Shift) + 1 <= q) <=> q + Shift <= e
      /\ q + Shift \in Int
  BY <1>1, <1>2
<1>8. q + Shift \in DaysOf(m) <=> f <= q + Shift /\ q + Shift <= e
  BY <1>1, <1>7 DEF DaysOf, f, e
<1>9. ReportStart(m) <= t /\ t < ReportEnd(m) <=> q + Shift \in DaysOf(m)
  BY <1>3, <1>5, <1>6, <1>7, <1>8
<1>10. QED
  BY <1>2, <1>9 DEF q

(* What is posted while the app is used is in one month of the reports. *)
LEMMA CountedInOne ==
  ASSUME zone \in Zones, NEW t \in Instants
  PROVE  \E m \in Months : CountedIn(t) = {m}
<1> DEFINE d == UTCDate(t) + Shift
           e == LastDay(LastMonth) + 1
<1>1. 1 \in 1 .. N /\ LastMonth \in 1 .. N /\ LastMonth + 1 \in 1 .. N
  BY MonthsType
<1>2. e \in Int /\ e <= LastDay(LastMonth + 1) /\ FirstDay[1] = 1
      /\ LastDay(LastMonth + 1) \in Int
  BY <1>1, MonthBounds, FirstDayType
<1>3. Instants = Midnight(1) .. Midnight(e) - 1
  BY DEF Instants
<1> HIDE DEF e
<1>4. /\ Midnight(1) \in Int /\ Midnight(e) \in Int
      /\ UTCDate(Midnight(1)) = 1 - Shift /\ UTCDate(Midnight(e)) = e - Shift
      /\ Parts \in Nat \ {0} /\ Shift \in {0, 1}
  BY <1>2, Midnights, ZoneType
<1>5. t \in Int /\ Midnight(1) <= t /\ t < Midnight(e)
  BY <1>3, <1>4
<1> DEFINE q == UTCDate(t)
<1>6. q \in Int /\ Parts * q <= t
  BY <1>4, <1>5, Division DEF UTCDate
<1>7. 1 - Shift <= q
  <2>1. 1 - Shift \in Int
    BY <1>4
  <2>2. Parts * (1 - Shift) <= Midnight(1)
    BY <1>4, <2>1, QuotientReaches DEF UTCDate
  <2>3. Parts * (1 - Shift) <= t
    BY <1>4, <1>5, <2>1, <2>2, Scale
  <2>4. QED
    BY <1>4, <1>5, <2>1, <2>3, QuotientReaches DEF UTCDate
<1>8. q <= e - Shift
  <2>1. Parts * q \in Int
    BY <1>4, <1>6, Scale
  <2>2. Parts * q <= Midnight(e)
    BY <1>4, <1>5, <1>6, <2>1
  <2> HIDE DEF q
  <2>3. q <= UTCDate(Midnight(e))
    BY <1>4, <1>6, <2>2, QuotientReaches DEF UTCDate
  <2>4. QED
    BY <1>4, <2>3
<1>9. d \in FirstDay[1] .. LastDay(LastMonth + 1)
  <2> HIDE DEF q
  <2>1. 1 <= q + Shift /\ q + Shift <= e /\ q + Shift \in Int
    BY <1>2, <1>4, <1>6, <1>7, <1>8
  <2>2. QED
    BY <1>2, <2>1 DEF q
<1> HIDE DEF q, d
<1>10. \E m \in 1 .. LastMonth + 1 : d \in DaysOf(m)
  BY <1>1, <1>9, DayInMonth
<1>11. PICK m \in 1 .. N : d \in DaysOf(m)
  <2>1. 1 .. LastMonth + 1 \subseteq 1 .. N
    BY <1>1, MonthsType
  <2>2. QED
    BY <1>10, <2>1
<1>12. \A k \in 1 .. N : k \in CountedIn(t) <=> d \in DaysOf(k)
  BY <1>5, CountedByDate, MonthsType DEF CountedIn, d
<1>13. \A k \in 1 .. N : k \in CountedIn(t) <=> k = m
  BY <1>11, <1>12, MonthOrder
<1>14. CountedIn(t) = {m}
  BY <1>11, <1>13, MonthsType DEF CountedIn
<1>15. QED
  BY <1>14, MonthsType

-----------------------------------------------------------------------------
(* The inductive invariant                                                 *)

PaidDates == {o.date : o \in occurrences}

(* A tap asks for the due date of a month of use, whenever it arrives. *)
TapsAreDue ==
  \A i \in 1 .. MaxTaps :
    tap[i].status # "unused" => /\ tap[i].month \in FirstMonth .. LastMonth
                                /\ tap[i].due = CandidateFor(tap[i].month)

(* A payment has the date of its period, and no other payment has it. *)
OneDateAPeriod ==
  /\ \A o \in occurrences : o.date = UTCDate(CandidateFor(o.month))
  /\ \A o1, o2 \in occurrences : o1.date = o2.date => o1 = o2

(* What the phone holds, or is about to, was the date of a payment. *)
CacheWasTrue ==
  /\ last \in {Unknown, Never} \cup PaidDates
  /\ fetch \in {NoFetch, Asked} \cup {Answered(d) : d \in {Never} \cup PaidDates}

IInv ==
  /\ TypeOK
  /\ Midnight(FirstDay[FirstMonth]) <= seen
  /\ TapsAreDue
  /\ IsFiniteSet(occurrences) /\ OneDateAPeriod
  /\ \A o \in occurrences : \E m \in Months : o.counted = {m}
  /\ CacheWasTrue

(* The invariant is about the calendar of one phone and one bill. *)
LEMMA CalendarStays ==
  ASSUME UNCHANGED bill
  PROVE  /\ zone' = zone /\ dueDay' = dueDay
         /\ \A d : Midnight(d)' = Midnight(d)
         /\ \A m : CandidateFor(m)' = CandidateFor(m)
         /\ Instants' = Instants /\ Dates' = Dates
<1>1. zone' = zone /\ dueDay' = dueDay
  BY DEF bill
<1>2. \A d : Midnight(d)' = Midnight(d)
  BY <1>1 DEF Midnight
<1>3. \A m : CandidateFor(m)' = CandidateFor(m)
  BY <1>1 DEF CandidateFor, Midnight
<1>4. Instants' = Instants
  BY <1>1 DEF Instants, Midnight
<1>5. Dates' = Dates
  BY <1>4 DEF Dates
<1>6. QED
  BY <1>1, <1>2, <1>3, <1>4, <1>5

(* What the phone shows is about the month it is made for. *)
LEMMA SeenMonth ==
  ASSUME IInv
  PROVE  /\ zone \in Zones /\ dueDay \in DueDays
         /\ MonthOf(seen) \in FirstMonth .. LastMonth /\ MonthOf(seen) \in 1 .. N - 1
         /\ MonthOf(seen) \in Months
         /\ LocalDay(seen) \in DaysOf(MonthOf(seen)) /\ seen \in Int
         /\ Due = CandidateFor(MonthOf(seen))
<1>1. zone \in Zones /\ dueDay \in DueDays /\ seen \in Instants
      /\ Midnight(FirstDay[FirstMonth]) <= seen
  BY DEF IInv, TypeOK
<1>2. QED
  BY <1>1, InMonth, MonthsType DEF Due, CurrentBillPeriodDueDate

LEMMA InitInv == Init => IInv
<1> SUFFICES ASSUME Init
             PROVE  IInv
  OBVIOUS
<1>1. zone \in Zones /\ dueDay \in DueDays /\ occurrences = {}
  BY DEF Init
<1> DEFINE d == FirstDay[FirstMonth]
<1>2. now = Midnight(d) /\ seen = now
  BY DEF Init
<1>3. FirstMonth \in 1 .. N /\ FirstMonth \in FirstMonth .. LastMonth
  BY MonthsType
<1>4. d \in DaysOf(FirstMonth) /\ d \in Int
  BY <1>3, MonthBounds DEF DaysOf
<1> HIDE DEF d
<1>5. Midnight(d) \in Instants /\ Midnight(d) \in Int
  BY <1>1, <1>3, <1>4, DayIsInstant, Midnights
<1>6. Unused \in Tap /\ Unused.status = "unused" /\ Unused.month = 0
  BY MonthsType DEF Unused, Tap
<1>7. tap \in [1 .. MaxTaps -> Tap] /\ \A i \in 1 .. MaxTaps : tap[i] = Unused
  BY <1>6 DEF Init
<1>8. TypeOK
  <2>1. now \in Instants /\ seen \in Instants /\ seen <= now
    BY <1>2, <1>5
  <2>2. screen = "elsewhere" /\ dashboard = "unknown" /\ last = Unknown /\ fetch = NoFetch
        /\ failed = FALSE
    BY DEF Init
  <2>3. \A i \in 1 .. MaxTaps : tap[i].month = 0
    BY <1>6, <1>7
  <2>4. QED
    BY <1>1, <1>7, <2>1, <2>2, <2>3 DEF TypeOK
<1>9. TapsAreDue
  BY <1>6, <1>7 DEF TapsAreDue
<1>10. IsFiniteSet(occurrences)
  BY <1>1, FS_EmptySet
<1>11. CacheWasTrue
  BY DEF Init, CacheWasTrue
<1>12. Midnight(d) <= seen
  BY <1>2, <1>5
<1>13. QED
  BY <1>1, <1>8, <1>9, <1>10, <1>11, <1>12 DEF IInv, OneDateAPeriod, d

(* The parts of the invariant, by the variables they are about. *)
TimeInv ==
  /\ zone \in Zones /\ dueDay \in DueDays
  /\ now \in Instants /\ seen \in Instants /\ seen <= now
  /\ Midnight(FirstDay[FirstMonth]) <= seen

TapsInv ==
  /\ tap \in [1 .. MaxTaps -> Tap]
  /\ \A i \in 1 .. MaxTaps :
       tap[i].month # 0 => tap[i].due \in {Midnight(d) : d \in DaysOf(tap[i].month)}
  /\ TapsAreDue

PaymentsInv ==
  /\ occurrences \subseteq
       [date : Dates, month : FirstMonth .. LastMonth, counted : SUBSET Months]
  /\ IsFiniteSet(occurrences) /\ OneDateAPeriod
  /\ \A o \in occurrences : \E m \in Months : o.counted = {m}

ViewInv ==
  /\ screen \in {"home", "bills", "elsewhere"}
  /\ dashboard \in {"unknown", "fresh", "stale"}
  /\ failed \in BOOLEAN
  /\ CacheWasTrue

LEMMA InvParts == IInv <=> TimeInv /\ TapsInv /\ PaymentsInv /\ ViewInv
<1>1. IInv => TimeInv /\ TapsInv /\ PaymentsInv /\ ViewInv
  BY DEF IInv, TypeOK, TimeInv, TapsInv, PaymentsInv, ViewInv
<1>2. ASSUME TimeInv /\ TapsInv /\ PaymentsInv /\ ViewInv
      PROVE  IInv
  <2>1. PaidDates \subseteq Dates
    BY <1>2 DEF PaymentsInv, PaidDates
  <2>2. /\ last \in {Unknown, Never} \cup Dates
        /\ fetch \in {NoFetch, Asked} \cup {Answered(d) : d \in {Never} \cup Dates}
    BY <1>2, <2>1 DEF ViewInv, CacheWasTrue
  <2>3. TypeOK
    BY <1>2, <2>2 DEF TypeOK, TimeInv, TapsInv, PaymentsInv, ViewInv
  <2>4. QED
    BY <1>2, <2>3 DEF IInv, TimeInv, TapsInv, PaymentsInv, ViewInv
<1>3. QED
  BY <1>1, <1>2

(* The clock ticks, and a screen is made for the time it has then. *)
LEMMA TimeStep ==
  ASSUME TimeInv, UNCHANGED bill,
         now' = now \/ (now' = now + 1 /\ now' \in Instants),
         seen' = seen \/ seen' = now
  PROVE  TimeInv'
<1>1. /\ zone' = zone /\ dueDay' = dueDay /\ Instants' = Instants
      /\ Midnight(FirstDay[FirstMonth])' = Midnight(FirstDay[FirstMonth])
  BY CalendarStays
<1>2. zone \in Zones /\ now \in Instants /\ seen \in Instants
  BY DEF TimeInv
<1>3. LastMonth \in 1 .. N /\ FirstMonth \in 1 .. N
  BY MonthsType
<1>4. LastDay(LastMonth) + 1 \in Int /\ FirstDay[FirstMonth] \in Int
  BY <1>3, MonthBounds
<1>5. /\ Midnight(1) \in Int /\ Midnight(LastDay(LastMonth) + 1) \in Int
      /\ Midnight(FirstDay[FirstMonth]) \in Int
  BY <1>2, <1>4, Midnights
<1>6. now \in Int /\ seen \in Int
  BY <1>2, <1>5 DEF Instants
<1>7. now' \in Instants /\ seen' \in Instants
  BY <1>2
<1>8. seen' <= now' /\ Midnight(FirstDay[FirstMonth]) <= seen'
  BY <1>5, <1>6 DEF TimeInv
<1>9. QED
  BY <1>1, <1>7, <1>8 DEF TimeInv

(* The payments of an unchanged calendar. *)
LEMMA PaymentsStay ==
  ASSUME PaymentsInv, UNCHANGED <<bill, occurrences>>
  PROVE  PaymentsInv' /\ PaidDates' = PaidDates
<1>1. /\ Dates' = Dates /\ occurrences' = occurrences
      /\ \A m : CandidateFor(m)' = CandidateFor(m)
  BY CalendarStays
<1>2. OneDateAPeriod'
  BY <1>1 DEF OneDateAPeriod, PaymentsInv, UTCDate
<1>3. QED
  BY <1>1, <1>2 DEF PaymentsInv, PaidDates

(* The taps of an unchanged calendar. *)
LEMMA TapsStay ==
  ASSUME TapsInv, UNCHANGED <<bill, tap>>
  PROVE  TapsInv'
<1>1. /\ tap' = tap
      /\ \A d : Midnight(d)' = Midnight(d)
      /\ \A m : CandidateFor(m)' = CandidateFor(m)
  BY CalendarStays
<1>2. TapsAreDue'
  BY <1>1 DEF TapsInv, TapsAreDue
<1>3. \A i \in 1 .. MaxTaps :
         (tap[i].month # 0 => tap[i].due \in {Midnight(d) : d \in DaysOf(tap[i].month)})'
  BY <1>1 DEF TapsInv, DaysOf, LastDay
<1>4. tap' \in [1 .. MaxTaps -> Tap']
  BY <1>1 DEF TapsInv, Tap
<1>5. QED
  BY <1>2, <1>3, <1>4 DEF TapsInv

(* A new status on a tap that was sent. *)
LEMMA TapMoves ==
  ASSUME TapsInv, UNCHANGED bill, NEW i \in 1 .. MaxTaps,
         tap[i].status # "unused", NEW st \in {"paid", "over", "lost"},
         tap' = [tap EXCEPT ![i].status = st]
  PROVE  TapsInv'
<1>1. /\ \A d : Midnight(d)' = Midnight(d)
      /\ \A m : CandidateFor(m)' = CandidateFor(m)
  BY CalendarStays
<1>2. tap \in [1 .. MaxTaps -> Tap] /\ tap[i] \in Tap
  BY DEF TapsInv
<1> DEFINE e == [tap[i] EXCEPT !.status = st]
<1>3. e \in Tap /\ e.status = st /\ e.month = tap[i].month /\ e.due = tap[i].due
  BY <1>2 DEF Tap
<1>4. tap' = [tap EXCEPT ![i] = e]
  OBVIOUS
<1> HIDE DEF e
<1>5. /\ tap' \in [1 .. MaxTaps -> Tap] /\ tap'[i] = e
      /\ \A j \in 1 .. MaxTaps : j # i => tap'[j] = tap[j]
  BY <1>2, <1>3, <1>4
<1>6. \A j \in 1 .. MaxTaps : /\ tap'[j].month = tap[j].month /\ tap'[j].due = tap[j].due
                              /\ tap'[j].status # "unused" => tap[j].status # "unused"
  BY <1>3, <1>5
<1>7. TapsAreDue'
  BY <1>1, <1>6 DEF TapsInv, TapsAreDue
<1>8. \A j \in 1 .. MaxTaps :
         (tap[j].month # 0 => tap[j].due \in {Midnight(d) : d \in DaysOf(tap[j].month)})'
  <2>1. \A m : DaysOf(m)' = DaysOf(m)
    BY DEF DaysOf, LastDay
  <2>2. \A j \in 1 .. MaxTaps :
           tap'[j].month # 0 => tap'[j].due \in {Midnight(d) : d \in DaysOf(tap'[j].month)}
    BY <1>6 DEF TapsInv
  <2>3. QED
    BY <1>1, <2>1, <2>2
<1>9. Tap' = Tap
  BY DEF Tap
<1>10. QED
  BY <1>5, <1>7, <1>8, <1>9 DEF TapsInv

(* The greatest of the dates: the bill's last_paid_due_date. *)
LEMMA LastPaid ==
  ASSUME TimeInv, PaymentsInv
  PROVE  LastPaidDueDate \in {Never} \cup PaidDates
<1> DEFINE S == {Never} \cup PaidDates
           P(x) == x \in S /\ \A y \in S : x >= y
<1>1. zone \in Zones
  BY DEF TimeInv
<1>2. PaidDates \subseteq Dates
  BY DEF PaymentsInv, PaidDates
<1>3. S \in SUBSET Int
  BY <1>1, <1>2, DatesType DEF Never
<1>4. IsFiniteSet(S)
  <2>1. IsFiniteSet(occurrences)
    BY DEF PaymentsInv
  <2>2. IsFiniteSet(PaidDates)
    <3> DEFINE f == [o \in occurrences |-> o.date]
    <3>1. f \in Surjection(occurrences, PaidDates)
      BY DEF Surjection, PaidDates
    <3>2. QED
      BY <2>1, <3>1, FS_Surjection
  <2>3. IsFiniteSet({Never})
    BY FS_Singleton
  <2>4. QED
    BY <2>2, <2>3, FS_Union
<1>5. LastPaidDueDate = CHOOSE x : P(x)
  BY DEF LastPaidDueDate, Max, PaidDates
<1>6. \E x : P(x)
  <2> HIDE DEF S
  <2>1. S # {}
    BY DEF S
  <2>2. PICK n \in S : \A m \in S : m <= n
    BY <1>3, <1>4, <2>1, FiniteGreatest
  <2>3. \A m \in S : n >= m
    BY <1>3, <2>2
  <2>4. QED
    BY <2>3
<1>7. P(LastPaidDueDate)
  BY <1>5, <1>6
<1>8. QED
  BY <1>7

(* What was true of the cache stays so while the payments only grow. *)
LEMMA CacheStays ==
  ASSUME CacheWasTrue, PaidDates \subseteq PaidDates',
         last' = last,
         fetch' \in {fetch, NoFetch, Asked}
  PROVE  CacheWasTrue'
<1>1. last' \in {Unknown, Never} \cup PaidDates'
  BY DEF CacheWasTrue
<1>2. fetch' \in {NoFetch, Asked} \cup {Answered(d) : d \in {Never} \cup PaidDates'}
  BY DEF CacheWasTrue
<1>3. QED
  BY <1>1, <1>2 DEF CacheWasTrue

-----------------------------------------------------------------------------
(* The steps *)

(* Every step but a payment leaves the payments alone. *)
LEMMA QuietStep ==
  ASSUME IInv, UNCHANGED <<bill, occurrences>>, TimeInv', TapsInv', ViewInv'
  PROVE  IInv'
<1>1. PaymentsInv'
  BY InvParts, PaymentsStay
<1>2. (IInv <=> TimeInv /\ TapsInv /\ PaymentsInv /\ ViewInv)'
  BY InvParts, PTL
<1>3. QED
  BY <1>1, <1>2

LEMMA InvParts1 ==
  ASSUME IInv
  PROVE  TimeInv /\ TapsInv /\ PaymentsInv /\ ViewInv
BY InvParts

LEMMA TickInv ==
  ASSUME IInv, Tick
  PROVE  IInv'
<1>1. UNCHANGED <<bill, occurrences, tap, screen, seen, dashboard, last, failed, fetch>>
  BY DEF Tick, view, cache
<1>2. now' = now + 1 /\ now' \in Instants
  BY DEF Tick
<1>3. TimeInv' /\ TapsInv' /\ PaidDates' = PaidDates
  BY <1>1, <1>2, InvParts1, TimeStep, TapsStay, PaymentsStay
<1>4. CacheWasTrue'
  BY <1>1, <1>3, InvParts1, CacheStays DEF ViewInv
<1>5. ViewInv'
  BY <1>1, <1>4, InvParts1 DEF ViewInv
<1>6. QED
  BY <1>1, <1>3, <1>5, QuietStep

LEMMA GoInv ==
  ASSUME IInv, Go
  PROVE  IInv'
<1>1. UNCHANGED <<bill, now, occurrences, tap, last, failed>> /\ seen' = now
  BY DEF Go
<1>2. PICK s \in {"home", "bills", "elsewhere"} :
        /\ screen' = s
        /\ dashboard' \in IF s = "home" THEN {"unknown", "fresh", "stale"} ELSE {"unknown"}
        /\ fetch' = IF s # "elsewhere" /\ fetch = NoFetch THEN Asked ELSE fetch
  BY DEF Go
<1>3. TimeInv' /\ TapsInv' /\ PaidDates' = PaidDates
  BY <1>1, InvParts1, TimeStep, TapsStay, PaymentsStay
<1>4. CacheWasTrue'
  BY <1>1, <1>2, <1>3, InvParts1, CacheStays DEF ViewInv
<1>5. ViewInv'
  BY <1>1, <1>2, <1>4, InvParts1 DEF ViewInv
<1>6. QED
  BY <1>1, <1>3, <1>5, QuietStep

LEMMA LoadInv ==
  ASSUME IInv, LoadDashboard \/ LoadCashFlow
  PROVE  IInv'
<1>1. /\ UNCHANGED <<bill, now, occurrences, tap, screen, last, failed, fetch>>
      /\ seen' \in {seen, now} /\ dashboard' \in {"fresh", "stale", dashboard}
  BY DEF LoadDashboard, LoadCashFlow, cache
<1>2. TimeInv' /\ TapsInv' /\ PaidDates' = PaidDates
  BY <1>1, InvParts1, TimeStep, TapsStay, PaymentsStay
<1>3. CacheWasTrue'
  BY <1>1, <1>2, InvParts1, CacheStays DEF ViewInv
<1>4. ViewInv'
  BY <1>1, <1>3, InvParts1 DEF ViewInv
<1>5. QED
  BY <1>1, <1>2, <1>4, QuietStep

(* The server answers the greatest of the dates; what is delivered is what *)
(* it answered, whatever has been paid since.                              *)
LEMMA FetchInv ==
  ASSUME IInv, ServeFetch \/ Deliver \/ FailFetch
  PROVE  IInv'
<1>1. /\ UNCHANGED <<bill, now, occurrences, tap, screen, dashboard>>
      /\ seen' \in {seen, now} /\ failed' \in {failed, TRUE, FALSE}
  BY DEF ServeFetch, Deliver, FailFetch, view
<1>2. TimeInv' /\ TapsInv' /\ PaidDates' = PaidDates
  BY <1>1, InvParts1, TimeStep, TapsStay, PaymentsStay
<1>3. CacheWasTrue
  BY InvParts1 DEF ViewInv
<1>4. CacheWasTrue'
  <2>1. CASE ServeFetch
    <3>1. last' = last /\ fetch' = Answered(LastPaidDueDate)
      BY <2>1 DEF ServeFetch
    <3>2. LastPaidDueDate \in {Never} \cup PaidDates
      BY InvParts1, LastPaid
    <3>3. QED
      BY <1>2, <1>3, <3>1, <3>2 DEF CacheWasTrue
  <2>2. CASE Deliver
    <3>1. last' = fetch.got /\ fetch' = NoFetch /\ fetch.phase = "answered"
      BY <2>2 DEF Deliver
    <3>2. fetch \in {Answered(d) : d \in {Never} \cup PaidDates}
      BY <1>3, <3>1 DEF CacheWasTrue, NoFetch, Asked
    <3>3. fetch.got \in {Never} \cup PaidDates
      BY <3>2 DEF Answered
    <3>4. QED
      BY <1>2, <3>1, <3>3 DEF CacheWasTrue
  <2>3. CASE FailFetch
    <3>1. last' = last /\ fetch' = NoFetch
      BY <2>3 DEF FailFetch
    <3>2. QED
      BY <1>2, <1>3, <3>1, CacheStays
  <2>4. QED
    BY <2>1, <2>2, <2>3
<1>5. ViewInv'
  BY <1>1, <1>4, InvParts1 DEF ViewInv
<1>6. QED
  BY <1>1, <1>2, <1>5, QuietStep

(* What is tapped is due in the month that is seen. *)
LEMMA MarkPaidInv ==
  ASSUME IInv, MarkPaid
  PROVE  IInv'
<1>1. UNCHANGED <<bill, now, occurrences, screen, seen, dashboard, last, failed, fetch>>
  BY DEF MarkPaid, view, cache
<1> DEFINE m == MonthOf(seen)
           e == [status |-> "sent", month |-> m, due |-> DueDate]
<1>2. PICK i \in 1 .. MaxTaps : tap' = [tap EXCEPT ![i] = e]
  BY DEF MarkPaid
<1>3. /\ zone \in Zones /\ dueDay \in DueDays /\ m \in FirstMonth .. LastMonth
      /\ m \in Months /\ m \in 1 .. N /\ DueDate = CandidateFor(m)
  BY SeenMonth, MonthsType DEF DueDate
<1>4. CandidateFor(m) \in Int /\ CandidateFor(m) \in {Midnight(d) : d \in DaysOf(m)}
  BY <1>3, DueDayInMonth, Midnights
<1> HIDE DEF m
<1>5. e \in Tap /\ e.status = "sent" /\ e.month = m /\ e.due = CandidateFor(m)
  BY <1>3, <1>4 DEF Tap
<1> HIDE DEF e
<1>6. /\ tap' \in [1 .. MaxTaps -> Tap] /\ tap'[i] = e
      /\ \A j \in 1 .. MaxTaps : j # i => tap'[j] = tap[j]
  BY <1>2, <1>5, InvParts1 DEF TapsInv
<1>7. /\ \A d : Midnight(d)' = Midnight(d)
      /\ \A k : CandidateFor(k)' = CandidateFor(k)
      /\ \A k : DaysOf(k)' = DaysOf(k)
      /\ Tap' = Tap
  BY <1>1, CalendarStays DEF DaysOf, LastDay, Tap
<1>8. \A j \in 1 .. MaxTaps :
         /\ tap'[j].month # 0 => tap'[j].due \in {Midnight(d) : d \in DaysOf(tap'[j].month)}
         /\ tap'[j].status # "unused" => /\ tap'[j].month \in FirstMonth .. LastMonth
                                         /\ tap'[j].due = CandidateFor(tap'[j].month)
  <2>1. \A j \in 1 .. MaxTaps :
         /\ tap[j].month # 0 => tap[j].due \in {Midnight(d) : d \in DaysOf(tap[j].month)}
         /\ tap[j].status # "unused" => /\ tap[j].month \in FirstMonth .. LastMonth
                                        /\ tap[j].due = CandidateFor(tap[j].month)
    BY InvParts1 DEF TapsInv, TapsAreDue
  <2>2. QED
    BY <1>3, <1>4, <1>5, <1>6, <2>1
<1>9. TapsAreDue'
  BY <1>7, <1>8 DEF TapsAreDue
<1>10. \A j \in 1 .. MaxTaps :
         (tap[j].month # 0 => tap[j].due \in {Midnight(d) : d \in DaysOf(tap[j].month)})'
  BY <1>7, <1>8
<1>11. TapsInv'
  BY <1>6, <1>7, <1>9, <1>10 DEF TapsInv
<1>12. TimeInv' /\ PaidDates' = PaidDates
  BY <1>1, InvParts1, TimeStep, PaymentsStay
<1>13. CacheWasTrue'
  BY <1>1, <1>12, InvParts1, CacheStays DEF ViewInv
<1>14. ViewInv'
  BY <1>1, <1>13, InvParts1 DEF ViewInv
<1>15. QED
  BY <1>1, <1>11, <1>12, <1>14, QuietStep

LEMMA AnswerInv ==
  ASSUME IInv, NEW i \in 1 .. MaxTaps, Acknowledge(i) \/ Lose(i)
  PROVE  IInv'
<1>1. /\ UNCHANGED <<bill, now, occurrences, screen, seen, dashboard, last, failed>>
      /\ fetch' \in {fetch, Asked}
  BY DEF Acknowledge, Lose, Invalidate, view, cache
<1>2. PICK st \in {"paid", "over", "lost"} : tap' = [tap EXCEPT ![i].status = st]
  BY DEF Acknowledge, Lose
<1>3. tap[i].status # "unused"
  BY DEF Acknowledge, Lose
<1>4. TapsInv'
  BY <1>1, <1>2, <1>3, InvParts1, TapMoves
<1>5. TimeInv' /\ PaidDates' = PaidDates
  BY <1>1, InvParts1, TimeStep, PaymentsStay
<1>6. CacheWasTrue'
  BY <1>1, <1>5, InvParts1, CacheStays DEF ViewInv
<1>7. ViewInv'
  BY <1>1, <1>6, InvParts1 DEF ViewInv
<1>8. QED
  BY <1>1, <1>4, <1>5, <1>7, QuietStep

(* The server posts a payment for a date it has none for. *)
LEMMA ServeInv ==
  ASSUME IInv, NEW i \in 1 .. MaxTaps, Serve(i)
  PROVE  IInv'
<1> DEFINE date == UTCDate(tap[i].due)
           taken == \E o \in occurrences : o.date = date
           new == [date |-> date, month |-> tap[i].month, counted |-> CountedIn(now)]
           st == IF taken THEN "over" ELSE "paid"
<1>1. UNCHANGED <<bill, now, screen, seen, dashboard, last, failed, fetch>>
  BY DEF Serve, view, cache
<1>2. /\ tap[i].status = "sent" /\ tap' = [tap EXCEPT ![i].status = st]
      /\ occurrences' = IF taken THEN occurrences ELSE occurrences \cup {new}
  BY DEF Serve
<1>3. /\ zone \in Zones /\ dueDay \in DueDays /\ now \in Instants
  BY InvParts1 DEF TimeInv
<1>4. TapsInv'
  <2>1. st \in {"paid", "over", "lost"} /\ tap[i].status # "unused"
    BY <1>2
  <2> HIDE DEF st
  <2>2. QED
    BY <1>1, <1>2, <2>1, InvParts1, TapMoves
<1>5. tap[i].month \in FirstMonth .. LastMonth /\ date = UTCDate(CandidateFor(tap[i].month))
  BY <1>2, InvParts1 DEF TapsInv, TapsAreDue
<1>6. date \in Dates
  <2>1. tap[i].month \in 1 .. N
    BY <1>5, MonthsType
  <2>2. /\ CandidateFor(tap[i].month) = Midnight(DueDayOf(tap[i].month))
        /\ DueDayOf(tap[i].month) \in DaysOf(tap[i].month)
    BY <1>3, <2>1, DueDayInMonth
  <2>3. Midnight(DueDayOf(tap[i].month)) \in Instants
    BY <1>3, <1>5, <2>2, DayIsInstant
  <2>4. QED
    BY <1>5, <2>2, <2>3 DEF Dates
<1>7. \E m \in Months : CountedIn(now) = {m}
  BY <1>3, CountedInOne
<1> DEFINE Payment == [date : Dates, month : FirstMonth .. LastMonth, counted : SUBSET Months]
<1>8. /\ new \in Payment /\ new.date = date /\ new.month = tap[i].month
      /\ new.counted = CountedIn(now)
  BY <1>5, <1>6, <1>7
<1>9. /\ occurrences \subseteq Payment /\ IsFiniteSet(occurrences)
      /\ \A o \in occurrences : o.date = UTCDate(CandidateFor(o.month))
      /\ \A o1, o2 \in occurrences : o1.date = o2.date => o1 = o2
      /\ \A o \in occurrences : \E m \in Months : o.counted = {m}
  BY InvParts1 DEF PaymentsInv, OneDateAPeriod
<1>10. /\ Dates' = Dates
       /\ \A m : CandidateFor(m)' = CandidateFor(m)
  BY <1>1, CalendarStays
<1> HIDE DEF date, new, Payment
<1>11. IsFiniteSet(occurrences')
  BY <1>2, <1>9, FS_AddElement
<1>12. /\ occurrences' \subseteq Payment
       /\ \A o \in occurrences' : o.date = UTCDate(CandidateFor(o.month))
       /\ \A o1, o2 \in occurrences' : o1.date = o2.date => o1 = o2
       /\ \A o \in occurrences' : \E m \in Months : o.counted = {m}
  BY <1>2, <1>5, <1>7, <1>8, <1>9
<1>13. OneDateAPeriod'
  BY <1>10, <1>12 DEF OneDateAPeriod, UTCDate
<1>14. PaymentsInv'
  BY <1>10, <1>11, <1>12, <1>13 DEF PaymentsInv, Payment
<1>15. PaidDates \subseteq PaidDates'
  BY <1>2 DEF PaidDates
<1>16. TimeInv'
  BY <1>1, InvParts1, TimeStep
<1>17. CacheWasTrue'
  BY <1>1, <1>15, InvParts1, CacheStays DEF ViewInv
<1>18. ViewInv'
  BY <1>1, <1>17, InvParts1 DEF ViewInv
<1>19. (IInv <=> TimeInv /\ TapsInv /\ PaymentsInv /\ ViewInv)'
  BY InvParts, PTL
<1>20. QED
  BY <1>4, <1>14, <1>16, <1>18, <1>19

LEMMA StutterInv ==
  ASSUME IInv, UNCHANGED vars
  PROVE  IInv'
<1>1. UNCHANGED <<bill, now, occurrences, tap, screen, seen, dashboard, last, failed, fetch>>
  BY DEF vars, view, cache
<1>2. TimeInv' /\ TapsInv' /\ PaidDates' = PaidDates
  BY <1>1, InvParts1, TimeStep, TapsStay, PaymentsStay
<1>3. CacheWasTrue'
  BY <1>1, <1>2, InvParts1, CacheStays DEF ViewInv
<1>4. ViewInv'
  BY <1>1, <1>3, InvParts1 DEF ViewInv
<1>5. QED
  BY <1>1, <1>2, <1>4, QuietStep

(* The invariant holds at every step: of a payment, of the phone's cache,  *)
(* of its clock and of its screens.                                        *)
THEOREM CalendarInductive == Spec => []IInv
<1>1. Init => IInv
  BY InitInv
<1>2. IInv /\ [Next]_vars => IInv'
  <2> SUFFICES ASSUME IInv, [Next]_vars
               PROVE  IInv'
    OBVIOUS
  <2>1. CASE Tick
    BY <2>1, TickInv
  <2>2. CASE Go
    BY <2>2, GoInv
  <2>3. CASE MarkPaid
    BY <2>3, MarkPaidInv
  <2>4. ASSUME NEW i \in 1 .. MaxTaps, Serve(i)
        PROVE  IInv'
    BY <2>4, ServeInv
  <2>5. ASSUME NEW i \in 1 .. MaxTaps, Acknowledge(i) \/ Lose(i)
        PROVE  IInv'
    BY <2>5, AnswerInv
  <2>6. CASE ServeFetch \/ Deliver \/ FailFetch
    BY <2>6, FetchInv
  <2>7. CASE LoadDashboard \/ LoadCashFlow
    BY <2>7, LoadInv
  <2>8. CASE UNCHANGED vars
    BY <2>8, StutterInv
  <2>9. QED
    BY <2>1, <2>2, <2>3, <2>4, <2>5, <2>6, <2>7, <2>8 DEF Next
<1>3. QED
  BY <1>1, <1>2, PTL DEF Spec

(* Every variable keeps its type: no date is one the calendar has not, no  *)
(* tap asks for a day out of its month.                                    *)
THEOREM CalendarTyped == Spec => []TypeOK
<1>1. IInv => TypeOK
  BY DEF IInv
<1>2. QED
  BY <1>1, CalendarInductive, PTL

-----------------------------------------------------------------------------
(* What the phone may rely on                                              *)

(* The date of a payment is that of its period, and no date is paid twice: *)
(* so no period of the bill is charged twice, in any zone and however      *)
(* often it is tapped (bills.tsx:38, home.tsx:73, bills_goals.go:71-144).   *)
THEOREM ChargedOnce == Spec => []ChargedOncePerPeriod
<1>1. IInv => ChargedOncePerPeriod
  BY DEF IInv, OneDateAPeriod, ChargedOncePerPeriod
<1>2. QED
  BY <1>1, CalendarInductive, PTL

(* No payment, and no tap, is of a month that the screen has not come to.  *)
NotAhead ==
  /\ \A o \in occurrences : o.month <= MonthOf(seen)
  /\ \A i \in 1 .. MaxTaps : tap[i].month <= MonthOf(seen)

(* The month of what is shown only moves on. *)
LEMMA SeenMoves ==
  ASSUME IInv, UNCHANGED bill, seen' = seen \/ seen' = now
  PROVE  MonthOf(seen) \in Int /\ MonthOf(seen)' \in Int /\ MonthOf(seen) <= MonthOf(seen)'
<1> DEFINE t == seen'
<1>1. /\ zone \in Zones /\ now \in Instants /\ seen \in Instants /\ seen <= now
      /\ Midnight(FirstDay[FirstMonth]) <= seen
  BY DEF IInv, TypeOK
<1>2. Midnight(FirstDay[FirstMonth]) \in Int /\ seen \in Int /\ now \in Int
  <2>1. FirstMonth \in 1 .. N /\ LastMonth \in 1 .. N
    BY MonthsType
  <2>2. FirstDay[FirstMonth] \in Int
    BY <2>1, MonthBounds
  <2>3. Midnight(FirstDay[FirstMonth]) \in Int
    BY <1>1, <2>2, Midnights
  <2>4. Midnight(1) \in Int /\ Midnight(LastDay(LastMonth) + 1) \in Int
    BY <1>1, <2>1, MonthBounds, Midnights
  <2>5. QED
    BY <1>1, <2>3, <2>4 DEF Instants
<1>3. /\ t \in Instants /\ Midnight(FirstDay[FirstMonth]) <= t /\ seen <= t /\ t \in Int
  BY <1>1, <1>2
<1>4. MonthOf(seen)' = MonthOf(t)
  BY DEF MonthOf, LocalDay, DaysOf, LastDay, bill
<1> HIDE DEF t
<1>5. /\ MonthOf(seen) \in 1 .. N - 1 /\ LocalDay(seen) \in DaysOf(MonthOf(seen))
      /\ MonthOf(t) \in 1 .. N - 1 /\ LocalDay(t) \in DaysOf(MonthOf(t))
      /\ LocalDay(seen) \in Int
  BY <1>1, <1>3, InMonth
<1>6. LocalDay(seen) <= LocalDay(t)
  <2>1. Midnight(LocalDay(seen)) <= seen /\ Midnight(LocalDay(seen)) \in Int
    BY <1>1, <1>2, <1>5, LocalDays, Midnights
  <2>2. Midnight(LocalDay(seen)) <= t
    BY <1>2, <1>3, <2>1
  <2>3. QED
    BY <1>1, <1>3, <1>5, <2>2, LocalDays
<1>7. MonthOf(seen) \in 1 .. N /\ MonthOf(t) \in 1 .. N
  BY <1>5, MonthsType
<1>8. MonthOf(seen) <= MonthOf(t)
  BY <1>5, <1>6, <1>7, MonthOrder
<1>9. QED
  BY <1>4, <1>7, <1>8

LEMMA NeverAhead == Spec => []NotAhead
<1>1. Init => NotAhead
  <2> SUFFICES ASSUME Init
               PROVE  NotAhead
    OBVIOUS
  <2>1. MonthOf(seen) \in 1 .. N - 1
    BY InitInv, SeenMonth
  <2>2. occurrences = {} /\ \A i \in 1 .. MaxTaps : tap[i].month = 0
    BY DEF Init, Unused
  <2>3. QED
    BY <2>1, <2>2, MonthsType DEF NotAhead
<1>2. IInv /\ NotAhead /\ [Next]_vars => NotAhead'
  <2> SUFFICES ASSUME IInv, NotAhead, [Next]_vars
               PROVE  NotAhead'
    OBVIOUS
  <2>1. /\ \A o \in occurrences : o.month \in Int
        /\ tap \in [1 .. MaxTaps -> Tap]
        /\ \A i \in 1 .. MaxTaps : tap[i].month \in Int
    BY MonthsType DEF IInv, TypeOK, Tap
  <2>2. MonthOf(seen) \in Int
    BY SeenMonth, MonthsType
  <2>3. ASSUME UNCHANGED bill, seen' = seen \/ seen' = now,
               \A o \in occurrences' : o.month \in Int /\ o.month <= MonthOf(seen),
               \A i \in 1 .. MaxTaps : tap'[i].month \in Int /\ tap'[i].month <= MonthOf(seen)
        PROVE  NotAhead'
    BY <2>2, <2>3, SeenMoves DEF NotAhead
  <2>4. CASE UNCHANGED <<bill, occurrences, tap>> /\ (seen' = seen \/ seen' = now)
    BY <2>1, <2>3, <2>4 DEF NotAhead
  <2>5. CASE MarkPaid
    <3>1. PICK i \in 1 .. MaxTaps :
            tap' = [tap EXCEPT ![i] = [status |-> "sent", month |-> MonthOf(seen), due |-> DueDate]]
      BY <2>5 DEF MarkPaid
    <3>2. \A j \in 1 .. MaxTaps : tap'[j].month \in Int /\ tap'[j].month <= MonthOf(seen)
      BY <2>1, <2>2, <3>1 DEF NotAhead
    <3>3. UNCHANGED <<bill, occurrences, seen>>
      BY <2>5 DEF MarkPaid, view
    <3>4. QED
      BY <2>1, <2>3, <3>2, <3>3 DEF NotAhead
  <2>6. ASSUME NEW i \in 1 .. MaxTaps, Serve(i)
        PROVE  NotAhead'
    <3>1. \A o \in occurrences' : o \in occurrences \/ o.month = tap[i].month
      BY <2>6 DEF Serve
    <3>2. \A j \in 1 .. MaxTaps : tap'[j].month = tap[j].month
      BY <2>1, <2>6 DEF Serve
    <3>3. UNCHANGED <<bill, seen>>
      BY <2>6 DEF Serve, view
    <3>4. QED
      BY <2>1, <2>3, <3>1, <3>2, <3>3 DEF NotAhead
  <2>7. ASSUME NEW i \in 1 .. MaxTaps, Acknowledge(i) \/ Lose(i)
        PROVE  NotAhead'
    <3>1. \A j \in 1 .. MaxTaps : tap'[j].month = tap[j].month
      <4>1. PICK st \in {"over", "lost"} : tap' = [tap EXCEPT ![i].status = st]
        BY <2>7 DEF Acknowledge, Lose
      <4>2. QED
        BY <2>1, <4>1
    <3>2. UNCHANGED <<bill, occurrences, seen>>
      BY <2>7 DEF Acknowledge, Lose, view
    <3>3. QED
      BY <2>1, <2>3, <3>1, <3>2 DEF NotAhead
  <2>8. \/ UNCHANGED <<bill, occurrences, tap>> /\ (seen' = seen \/ seen' = now)
        \/ MarkPaid
        \/ \E i \in 1 .. MaxTaps : Serve(i) \/ Acknowledge(i) \/ Lose(i)
    BY DEF Next, Tick, Go, ServeFetch, Deliver, FailFetch, LoadDashboard, LoadCashFlow, vars, view,
           cache
  <2>9. QED
    BY <2>4, <2>5, <2>6, <2>7, <2>8
<1>3. QED
  BY <1>1, <1>2, CalendarInductive, PTL DEF Spec

(* A row that says Lunas is of a period that is paid: the date it was told *)
(* is of a payment, read back it is no later than the midnight that was    *)
(* paid, the periods are ordered like the months, and none is paid ahead.  *)
LEMMA PaidPeriod ==
  ASSUME IInv, NotAhead, Paid
  PROVE  \E o \in occurrences : o.month = MonthOf(seen) /\ last = UTCDate(Due)
<1> DEFINE m == MonthOf(seen)
<1>1. /\ zone \in Zones /\ dueDay \in DueDays /\ m \in 1 .. N - 1
      /\ Due = CandidateFor(m)
  BY SeenMonth
<1>2. last # Unknown /\ last # Never /\ Parts * last >= Due
  BY DEF Paid, Loaded, IsPaidForPeriod
<1>3. PICK o \in occurrences : last = o.date
  BY <1>2 DEF IInv, CacheWasTrue, PaidDates
<1>4. o.month \in 1 .. N /\ m \in 1 .. N
  BY <1>1, MonthsType DEF IInv, TypeOK
<1>5. last = UTCDate(CandidateFor(o.month)) /\ o.month <= m
  BY <1>3 DEF IInv, OneDateAPeriod, NotAhead
<1> HIDE DEF m
<1>6. CandidateFor(m) \in Int /\ CandidateFor(o.month) \in Int
  BY <1>1, <1>4, CandidateOrder
<1>7. last \in Int /\ Parts * last <= CandidateFor(o.month)
  BY <1>1, <1>5, <1>6, ZoneType, Division DEF UTCDate
<1>8. Parts * last \in Int
  BY <1>1, <1>7, ZoneType, Scale
<1>9. CandidateFor(m) <= CandidateFor(o.month)
  BY <1>1, <1>2, <1>6, <1>7, <1>8
<1>10. m <= o.month
  BY <1>1, <1>4, <1>9, CandidateOrder
<1>11. o.month = m
  BY <1>4, <1>5, <1>10
<1>12. QED
  BY <1>1, <1>5, <1>11 DEF m

(* A phone that keeps UTC calls the period paid last Lunas, no other phone *)
(* calls any so: Parts times the UTC date of a local midnight is that      *)
(* midnight in UTC only, and before it elsewhere (billPaymentStatus.ts:7). *)
THEOREM LunasAtUTC == Spec => []LunasOnlyAtUTC
<1>1. ASSUME IInv, NotAhead
      PROVE  LunasOnlyAtUTC
  <2> DEFINE d == DueDayOf(MonthOf(seen))
  <2>1. /\ zone \in Zones /\ dueDay \in DueDays /\ MonthOf(seen) \in 1 .. N
        /\ Due = CandidateFor(MonthOf(seen))
    BY <1>1, SeenMonth, MonthsType
  <2>2. d \in Int /\ d \in Nat \ {0} /\ Due = Midnight(d)
    BY <2>1, DueDayInMonth, MonthOrder
  <2>3. UTCDate(Due) = d - Shift
    BY <2>1, CandidateOrder
  <2> HIDE DEF d
  <2>4. Parts * (d - 1) + Parts = Parts * d /\ Parts * d \in Int /\ Parts * (d - 1) \in Int
    <3>1. d - 1 \in Int /\ (d - 1) + 1 = d
      BY <2>2
    <3>2. QED
      BY <2>1, <2>2, <3>1, ZoneType, Scale
  <2>5. Due = Parts * d - zone
    BY <2>2 DEF Midnight
  <2>6. zone # 0 => ~Paid
    <3> SUFFICES ASSUME zone # 0, Paid
                 PROVE  FALSE
      OBVIOUS
    <3>1. last = UTCDate(Due) /\ Parts * last >= Due
      BY <1>1, PaidPeriod DEF Paid, IsPaidForPeriod
    <3>2. CASE zone > 0
      <4>1. last = d - 1
        BY <2>3, <3>1, <3>2 DEF Shift
      <4>2. QED
        BY <2>1, <2>4, <2>5, <3>1, <4>1, ZoneType
    <3>3. CASE zone < 0
      <4>1. last = d
        BY <2>1, <2>2, <2>3, <3>1, <3>3, ZoneType DEF Shift
      <4>2. QED
        BY <2>1, <2>4, <2>5, <3>1, <3>3, <4>1, ZoneType
    <3>4. QED
      BY <2>1, <3>2, <3>3, ZoneType
  <2>7. zone = 0 /\ last = UTCDate(Due) => Paid
    <3> SUFFICES ASSUME zone = 0, last = UTCDate(Due)
                 PROVE  Paid
      OBVIOUS
    <3>1. last = d
      BY <2>2, <2>3 DEF Shift
    <3>2. last # Never /\ last # Unknown /\ Parts * last >= Due
      BY <2>2, <2>4, <2>5, <3>1 DEF Never, Unknown
    <3>3. QED
      BY <3>2 DEF Paid, Loaded, IsPaidForPeriod
  <2>8. QED
    BY <2>6, <2>7 DEF LunasOnlyAtUTC
<1>2. QED
  BY <1>1, CalendarInductive, NeverAhead, PTL

(* What is called Lunas is paid, however old the cache, in any zone        *)
(* (billPaymentStatus.ts:5).                                               *)
THEOREM LunasIsTrue == Spec => []LunasMeansPaid
<1>1. IInv /\ NotAhead /\ LunasOnlyAtUTC => LunasMeansPaid
  BY PaidPeriod DEF LunasMeansPaid
<1>2. QED
  BY <1>1, CalendarInductive, NeverAhead, LunasAtUTC, PTL

(* The days that a row tells of: rounded, they are those between the two   *)
(* days of the calendar, and one less in the second half of a day.         *)
LEMMA DaysLeft ==
  ASSUME zone \in Zones, NEW t \in Int, NEW d \in Int
  PROVE  Days(Midnight(d), t) = d - LocalDay(t) - (IF AfterNoon(t) THEN 1 ELSE 0)
<1> DEFINE q == LocalDay(t)
           x == 2 * (Midnight(d) - t) + Parts
           n == d - q
<1>1. /\ q \in Int /\ Midnight(q) <= t /\ t < Midnight(q) + Parts
      /\ Midnight(q) \in Int /\ Midnight(d) \in Int
      /\ Parts \in Nat \ {0} /\ zone \in Int
  BY LocalDays, Midnights, ZoneType
<1> HIDE DEF q
<1>2. n \in Int /\ Parts * n \in Int /\ Midnight(d) = Midnight(q) + Parts * n
  <2>1. Parts * d = Parts * q + Parts * (d - q) /\ Parts * (d - q) \in Int
    BY <1>1
  <2>2. Parts * q \in Int
    BY <1>1
  <2>3. QED
    BY <1>1, <2>1, <2>2 DEF Midnight
<1> DEFINE b == 2 * Parts
           r == t - Midnight(q)
<1>3. b \in Nat \ {0} /\ b * n = 2 * (Parts * n) /\ r \in 0 .. Parts - 1
  BY <1>1, <1>2
<1>4. x = b * n + (Parts - 2 * r)
  <2> HIDE DEF n
  <2>1. x = 2 * (Parts * n) + (Parts - 2 * r)
    BY <1>1, <1>2
  <2>2. QED
    BY <1>3, <2>1
<1>5. Days(Midnight(d), t) = x \div b /\ (AfterNoon(t) <=> 2 * r > Parts)
  BY DEF Days, AfterNoon, q
<1> HIDE DEF x, b, n, r
<1>6. CASE 2 * r <= Parts
  <2>1. Parts - 2 * r \in 0 .. b - 1
    BY <1>1, <1>3, <1>6 DEF b
  <2>2. (b * n + (Parts - 2 * r)) \div b = n
    BY <1>2, <1>3, <2>1, Quotient
  <2>3. ~AfterNoon(t)
    BY <1>1, <1>3, <1>5, <1>6
  <2>4. QED
    BY <1>1, <1>2, <1>4, <1>5, <2>2, <2>3 DEF n, q
<1>7. CASE ~(2 * r <= Parts)
  <2>1. b + (Parts - 2 * r) \in 0 .. b - 1 /\ n - 1 \in Int
    BY <1>1, <1>2, <1>3, <1>7 DEF b
  <2>2. (b * (n - 1) + (b + (Parts - 2 * r))) \div b = n - 1
    BY <1>3, <2>1, Quotient
  <2>3. b * ((n - 1) + 1) = b * (n - 1) + b /\ b * (n - 1) \in Int /\ (n - 1) + 1 = n
    BY <1>2, <1>3, <2>1, Scale
  <2>4. b * n + (Parts - 2 * r) = b * (n - 1) + (b + (Parts - 2 * r))
    BY <1>1, <1>3, <2>3
  <2>5. AfterNoon(t)
    BY <1>1, <1>3, <1>5, <1>7
  <2>6. QED
    BY <1>1, <1>2, <1>4, <1>5, <2>2, <2>4, <2>5 DEF n, q
<1>8. QED
  BY <1>6, <1>7

(* The candidate of this month or of the next is the first that is not     *)
(* before today: the next one is after the end of this month.              *)
LEMMA NextIsFirst ==
  ASSUME zone \in Zones, dueDay \in DueDays, NEW t \in Instants,
         Midnight(FirstDay[FirstMonth]) <= t
  PROVE  NextBillOccurrence(t) =
           Min({due \in {CandidateFor(m) : m \in MonthOf(t) .. MonthOf(t) + 1} :
                  due >= Midnight(LocalDay(t))})
<1> DEFINE m == MonthOf(t)
           today == Midnight(LocalDay(t))
           A == CandidateFor(m)
           B == CandidateFor(m + 1)
           S == {due \in {CandidateFor(k) : k \in m .. m + 1} : due >= today}
           P(x) == x \in S /\ \A y \in S : x <= y
           answer == IF A >= today THEN A ELSE B
<1>1. m \in 1 .. N /\ m + 1 \in 1 .. N /\ LocalDay(t) \in DaysOf(m) /\ LocalDay(t) \in Int
  BY InMonth, MonthsType
<1>2. NextBillOccurrence(t) = answer
  BY DEF NextBillOccurrence, CurrentBillPeriodDueDate
<1> HIDE DEF m
<1>3. A \in Int /\ B \in Int /\ A < B /\ today \in Int
  <2>1. m < m + 1
    BY <1>1
  <2>2. A \in Int /\ B \in Int /\ A < B
    BY <1>1, <2>1, CandidateOrder
  <2>3. QED
    BY <1>1, <2>2, Midnights
<1>4. today <= B
  <2>1. DueDayOf(m + 1) \in DaysOf(m + 1) /\ DueDayOf(m + 1) \in Int
        /\ B = Midnight(DueDayOf(m + 1))
    BY <1>1, DueDayInMonth
  <2>2. LocalDay(t) < DueDayOf(m + 1)
    BY <1>1, <2>1, MonthOrder
  <2>3. QED
    BY <1>1, <2>1, <2>2, MidnightOrder
<1> DEFINE C == {CandidateFor(k) : k \in m .. m + 1}
<1>5. C = {A, B}
  <2>1. m .. m + 1 = {m, m + 1}
    BY <1>1
  <2>2. QED
    BY <2>1
<1>6. S = {due \in C : due >= today}
  OBVIOUS
<1> HIDE DEF A, B, today, C, S
<1>7. P(answer) /\ \A x, y : P(x) /\ P(y) => x = y
  <2>1. \A x \in S : x \in Int
    BY <1>3, <1>5, <1>6
  <2>2. P(answer)
    BY <1>3, <1>4, <1>5, <1>6
  <2>3. QED
    BY <2>1, <2>2
<1>8. Min(S) = CHOOSE x : P(x)
  BY DEF Min
<1>9. Min(S) = answer
  <2> HIDE DEF P, answer
  <2>1. P(CHOOSE x : P(x))
    BY <1>7
  <2>2. QED
    BY <1>7, <1>8, <2>1
<1>10. QED
  BY <1>2, <1>9 DEF S, m, today

(* What a row tells of the days left, one less after noon, and which       *)
(* occurrence comes next, is what the calendar of the phone says, in any   *)
(* zone                                                                    *)
(* (billUrgency.ts:6, nextBillOccurrence.ts:12).                           *)
THEOREM DaysAreCounted == Spec => []CountsTheDays
<1>1. ASSUME IInv
      PROVE  CountsTheDays
  <2> DEFINE m == MonthOf(seen)
             d == DueDayOf(m)
  <2>1. /\ zone \in Zones /\ dueDay \in DueDays /\ m \in 1 .. N
        /\ seen \in Int /\ Due = CandidateFor(m)
    BY <1>1, SeenMonth, MonthsType
  <2>2. CurrentBillPeriodDueDate(seen) = CandidateFor(m)
    BY DEF CurrentBillPeriodDueDate
  <2> HIDE DEF m
  <2>3. CandidateFor(m) = Midnight(d) /\ d \in Int
    BY <2>1, DueDayInMonth
  <2> HIDE DEF d
  <2>4. LocalDay(Midnight(d)) = d
    BY <2>1, <2>3, Midnights
  <2>5. Days(Due, seen) = d - LocalDay(seen) - (IF AfterNoon(seen) THEN 1 ELSE 0)
    BY <2>1, <2>3, DaysLeft
  <2>6. d = LocalDay(CurrentBillPeriodDueDate(seen))
    BY <2>2, <2>3, <2>4
  <2>7. /\ now \in Instants /\ now \in Int /\ Midnight(FirstDay[FirstMonth]) <= now
    <3>1. TimeInv
      BY <1>1, InvParts1
    <3>2. LastMonth \in 1 .. N /\ FirstMonth \in 1 .. N
      BY MonthsType
    <3>3. LastDay(LastMonth) + 1 \in Int /\ FirstDay[FirstMonth] \in Int
      BY <3>2, MonthBounds
    <3>4. /\ Midnight(1) \in Int /\ Midnight(LastDay(LastMonth) + 1) \in Int
          /\ Midnight(FirstDay[FirstMonth]) \in Int
      BY <2>1, <3>3, Midnights
    <3>5. now \in Int
      BY <3>1, <3>4 DEF TimeInv, Instants
    <3>6. QED
      BY <2>1, <3>1, <3>4, <3>5 DEF TimeInv
  <2>8. NextBillOccurrence(now) =
          Min({due \in {CandidateFor(k) : k \in MonthOf(now) .. MonthOf(now) + 1} :
                 due >= Midnight(LocalDay(now))})
    BY <2>1, <2>7, NextIsFirst
  <2>9. QED
    BY <2>5, <2>6, <2>8 DEF CountsTheDays
<1>2. QED
  BY <1>1, CalendarInductive, PTL

(* The payments of a month are some of the payments. *)
LEMMA ExpensesType ==
  ASSUME IsFiniteSet(occurrences), NEW m
  PROVE  Expenses(m) \in 0 .. Cardinality(occurrences) /\ Cardinality(occurrences) \in Nat
<1> DEFINE S == {o \in occurrences : m \in o.counted}
<1>1. /\ Cardinality(occurrences) \in Nat
      /\ IsFiniteSet(S) /\ Cardinality(S) <= Cardinality(occurrences)
  BY FS_Subset, FS_CardinalityType
<1>2. Cardinality(S) \in Nat
  <2> HIDE DEF S
  <2>1. QED
    BY <1>1, FS_CardinalityType
<1>3. QED
  BY <1>1, <1>2 DEF Expenses

(* The scale of the chart reaches the highest of its values. *)
LEMMA ScaleReaches ==
  ASSUME IsFiniteSet(occurrences), NEW p \in ReportsScreen
  PROVE  MaxV \in Nat \ {0} /\ p[2] \in 0 .. MaxV
<1> DEFINE S == {1} \cup {q[2] : q \in ReportsScreen}
           n == Cardinality(occurrences) + 1
           P(x) == x \in S /\ \A y \in S : x >= y
<1>1. \A q \in ReportsScreen : q[2] \in 0 .. Cardinality(occurrences)
  <2>1. \A q \in ReportsScreen : \E m : q[2] = Expenses(m)
    BY DEF ReportsScreen
  <2>2. QED
    BY <2>1, ExpensesType
<1>2. Cardinality(occurrences) \in Nat
  BY ExpensesType
<1>3. S \in SUBSET (0 .. n) /\ S # {} /\ n \in Nat /\ 1 \in S /\ p[2] \in S
  BY <1>1, <1>2
<1>4. MaxV = CHOOSE x : P(x)
  BY DEF MaxV, Max
<1> HIDE DEF S, n
<1>5. PICK x \in S : \A y \in S : y <= x
  BY <1>3, GreatestNat
<1>6. \A y \in S : y \in Nat
  BY <1>3
<1>7. P(x)
  BY <1>5, <1>6
<1>8. P(MaxV)
  BY <1>4, <1>7
<1>9. MaxV >= 1 /\ MaxV >= p[2] /\ MaxV \in Nat /\ p[2] \in Nat
  BY <1>3, <1>6, <1>8
<1>10. QED
  BY <1>9

(* Every payment is an expense of one month of the reports, however the    *)
(* zone cuts the months, and the line drawn through them stays on the      *)
(* chart (reports.tsx:26, reporting.go:155-158, CashFlowChart.tsx:21).     *)
THEOREM ReportsCount == Spec => []ReportsAddUp
<1>1. ASSUME IInv
      PROVE  ReportsAddUp
  <2>1. IsFiniteSet(occurrences) /\ \A o \in occurrences : \E m \in Months : o.counted = {m}
    BY <1>1 DEF IInv
  <2>2. ASSUME NEW o \in occurrences
        PROVE  Cardinality(o.counted) = 1
    <3>1. PICK m \in Months : o.counted = {m}
      BY <2>1
    <3>2. Cardinality({m}) = 1
      BY FS_Singleton
    <3>3. QED
      BY <3>1, <3>2
  <2>3. ASSUME NEW p \in CashFlowChart
        PROVE  p[2] \in 20 * MaxV .. 130 * MaxV
    <3>1. PICK q \in ReportsScreen : p[2] = 130 * MaxV - 110 * q[2]
      BY DEF CashFlowChart
    <3>2. MaxV \in Nat /\ q[2] \in 0 .. MaxV
      BY <2>1, ScaleReaches
    <3>3. QED
      BY <3>1, <3>2
  <2>4. QED
    BY <2>2, <2>3 DEF ReportsAddUp
<1>2. QED
  BY <1>1, CalendarInductive, PTL

=============================================================================
