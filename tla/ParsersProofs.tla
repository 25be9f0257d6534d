---------------------------- MODULE ParsersProofs ---------------------------
(***************************************************************************)
(* Theorems about the parsing side. The day of a row: for every day and    *)
(* every second of it, with no bound on how far from 1970, the arithmetic  *)
(* of day_from_seconds gives the date the calendar shows. The body of a    *)
(* row: for blocks of any length in which a result without a signed        *)
(* transaction stands only where none is waiting for one, every row has    *)
(* its own.                                                                *)
(***************************************************************************)
EXTENDS Parsers, FiniteSetTheorems, SequenceTheorems, WellFoundedInduction, TLAPS

(* Day of the era on which its year k begins, on 1 March.                  *)
YearStart(k) == 365 * k + k \div 4 - k \div 100

(* Day of the year on which month k begins, counted from March.            *)
MonthStart(k) == (153 * k + 2) \div 5

(* Days of the year that begins on 1 March of year k of an era.            *)
YearLength(k) ==
  IF k = 399 \/ ((k + 1) % 4 = 0 /\ (k + 1) % 100 # 0) THEN 366 ELSE 365

InEra(x) == x \in Int /\ 0 <= x /\ x <= 146096
InEraYears(k) == k \in Int /\ 0 <= k /\ k <= 399

(* Day z is day x of era e.                                                *)
At(z, e, x) == z = 146097 * e + x /\ e \in Int /\ InEra(x)

LEMMA EraSplits ==
  ASSUME NEW z \in Int
  PROVE  At(z, Era(z), DayOfEra(z))
  BY DEF DayOfEra, Era, InEra, At

LEMMA EraUnique ==
  ASSUME NEW z \in Int, NEW e, NEW x, At(z, e, x)
  PROVE  Era(z) = e /\ DayOfEra(z) = x
  BY DEF DayOfEra, Era, InEra, At

LEMMA NextInEra ==
  ASSUME NEW z \in Int, NEW e, NEW x, At(z, e, x)
  PROVE  /\ e \in Int /\ InEra(x)
         /\ x # 146096 => At(z + 1, e, x + 1)
         /\ x = 146096 => At(z + 1, e + 1, 0)
  BY DEF InEra, At

LEMMA YearFound ==
  ASSUME NEW x, InEra(x)
  PROVE  /\ InEraYears(YearOfEra(x))
         /\ YearStart(YearOfEra(x)) <= x
         /\ YearOfEra(x) # 399 => x < YearStart(YearOfEra(x) + 1)
  BY DEF YearOfEra, YearStart, InEra, InEraYears

LEMMA YearsFollow ==
  ASSUME NEW a, InEraYears(a), NEW b, InEraYears(b), a < b
  PROVE  YearStart(a + 1) <= YearStart(b)
  BY DEF YearStart, InEraYears

LEMMA YearUnique ==
  ASSUME NEW x, InEra(x), NEW k, InEraYears(k),
         YearStart(k) <= x, k # 399 => x < YearStart(k + 1)
  PROVE  YearOfEra(x) = k
  <1>1. PICK y : /\ y = YearOfEra(x) /\ InEraYears(y) /\ YearStart(y) <= x
                 /\ y # 399 => x < YearStart(y + 1)
    BY YearFound
  <1>2. YearStart(y) \in Int /\ YearStart(k) \in Int
    BY <1>1 DEF YearStart, InEraYears
  <1>3. ~ y < k
    <2> SUFFICES ASSUME y < k PROVE FALSE
      OBVIOUS
    <2>1. YearStart(y + 1) <= YearStart(k) /\ y # 399 /\ YearStart(y + 1) \in Int
      BY <1>1, YearsFollow DEF InEraYears, YearStart
    <2>2. x \in Int
      BY DEF InEra
    <2> QED BY <2>1, <2>2, <1>1, <1>2
  <1>4. ~ k < y
    <2> SUFFICES ASSUME k < y PROVE FALSE
      OBVIOUS
    <2>1. YearStart(k + 1) <= YearStart(y)
      BY <1>1, YearsFollow
    <2>3. k # 399 /\ YearStart(k + 1) \in Int
      BY <1>1 DEF InEraYears, YearStart
    <2>2. x \in Int
      BY DEF InEra
    <2> QED BY <2>1, <2>2, <2>3, <1>1, <1>2
  <1> QED BY <1>1, <1>3, <1>4 DEF InEraYears

LEMMA YearLengths ==
  ASSUME NEW k, InEraYears(k)
  PROVE  /\ k # 399 => YearStart(k + 1) = YearStart(k) + YearLength(k)
         /\ k = 399 => YearStart(k) + YearLength(k) = 146097
         /\ YearLength(k) \in {365, 366}
  BY DEF YearStart, YearLength, InEraYears

LEMMA LeapYears ==
  ASSUME NEW k, InEraYears(k), NEW e \in Int
  PROVE  Leap(k + 1 + e * 400) <=> YearLength(k) = 366
  <1>1. /\ (k + 1 + e * 400) % 4 = (k + 1) % 4
        /\ (k + 1 + e * 400) % 100 = (k + 1) % 100
        /\ (k + 1 + e * 400) % 400 = (k + 1) % 400
    BY DEF InEraYears
  <1> QED BY <1>1 DEF Leap, YearLength, InEraYears

(* The date, from the year of the era and the day of the year.            *)
MonthOf(doy) ==
  IF MonthFromMarch(doy) < 10 THEN MonthFromMarch(doy) + 3 ELSE MonthFromMarch(doy) - 9

LEMMA MonthFound ==
  ASSUME NEW doy \in Int, 0 <= doy, doy <= 365
  PROVE  /\ MonthFromMarch(doy) \in Int /\ 0 <= MonthFromMarch(doy) /\ MonthFromMarch(doy) <= 11
         /\ MonthStart(MonthFromMarch(doy)) <= doy /\ doy < MonthStart(MonthFromMarch(doy) + 1)
  BY DEF MonthFromMarch, MonthStart

DateOf(e, k, doy) ==
  [y |-> (k + e * 400) + (IF MonthFromMarch(doy) < 10 THEN 0 ELSE 1),
   m |-> MonthOf(doy),
   d |-> doy - MonthStart(MonthFromMarch(doy)) + 1]

LEMMA DayOfYearRange ==
  ASSUME NEW x, InEra(x), NEW k, InEraYears(k),
         YearStart(k) <= x, k # 399 => x < YearStart(k + 1)
  PROVE  /\ x - YearStart(k) \in Int /\ 0 <= x - YearStart(k)
         /\ x - YearStart(k) < YearLength(k) /\ YearLength(k) <= 366
  <1>1. YearStart(k) \in Int /\ x \in Int /\ x <= 146096
    BY DEF InEra, InEraYears, YearStart
  <1>2. /\ k # 399 => YearStart(k + 1) = YearStart(k) + YearLength(k)
        /\ k = 399 => YearStart(k) + YearLength(k) = 146097
        /\ YearLength(k) = 365 \/ YearLength(k) = 366
    BY YearLengths
  <1> QED BY <1>1, <1>2

LEMMA DateIsCivil ==
  ASSUME NEW z \in Int, NEW e \in Int, NEW x, InEra(x), At(z, e, x),
         NEW k, InEraYears(k), YearStart(k) <= x, k # 399 => x < YearStart(k + 1)
  PROVE  CivilDate(z) = DateOf(e, k, x - YearStart(k))
  <1>1. YearOfEra(x) = k /\ Era(z) = e /\ DayOfEra(z) = x
    BY YearUnique, EraUnique
  <1> DEFINE doy == x - YearStart(k)
  <1>2. doy \in Int /\ 0 <= doy /\ doy <= 365
    <2>1. YearLength(k) \in Int
      BY DEF YearLength
    <2> QED BY <2>1, DayOfYearRange
  <1>3. DayOfYear(x) = doy
    BY <1>1 DEF DayOfYear, YearStart
  <1> HIDE DEF doy
  <1>4. CivilDate(z) = [y |-> IF MonthOf(doy) <= 2 THEN k + e * 400 + 1 ELSE k + e * 400,
                        m |-> MonthOf(doy),
                        d |-> doy - MonthStart(MonthFromMarch(doy)) + 1]
    BY <1>1, <1>3 DEF CivilDate, MonthOf, MonthStart
  <1>5. MonthFromMarch(doy) \in Int /\ 0 <= MonthFromMarch(doy) /\ MonthFromMarch(doy) <= 11
    BY <1>2, MonthFound
  <1>6. (MonthOf(doy) <= 2) <=> ~ (MonthFromMarch(doy) < 10)
    BY <1>5 DEF MonthOf
  <1>7. k + e * 400 \in Int
    BY DEF InEraYears
  <1>8. CivilDate(z) = DateOf(e, k, doy)
    BY <1>4, <1>6, <1>7 DEF DateOf
  <1> QED BY <1>8 DEF doy

(* The months of a year counted from March, and the last of them.          *)
MonthNamed(mp) == IF mp < 10 THEN mp + 3 ELSE mp - 9

LEMMA MonthLengths ==
  ASSUME NEW mp \in Int, 0 <= mp, mp < 11, NEW y \in Int
  PROVE  MonthStart(mp + 1) = MonthStart(mp) + DaysIn(y, MonthNamed(mp))
  <1>1. \/ mp = 0 \/ mp = 1 \/ mp = 2 \/ mp = 3 \/ mp = 4 \/ mp = 5 \/ mp = 6
        \/ mp = 7 \/ mp = 8 \/ mp = 9 \/ mp = 10
    OBVIOUS
  <1>2. MonthStart(mp + 1) = MonthStart(mp) + (IF mp \in {1, 3, 6, 8} THEN 30 ELSE 31)
    BY <1>1 DEF MonthStart
  <1>3. DaysIn(y, MonthNamed(mp)) = IF mp \in {1, 3, 6, 8} THEN 30 ELSE 31
    BY <1>1 DEF DaysIn, MonthNamed
  <1> QED BY <1>2, <1>3

LEMMA FebruaryLength ==
  ASSUME NEW k, InEraYears(k), NEW e \in Int
  PROVE  MonthStart(11) + DaysIn(k + e * 400 + 1, 2) = YearLength(k)
  <1>1. k + 1 + e * 400 = k + e * 400 + 1
    BY DEF InEraYears
  <1>2. Leap(k + e * 400 + 1) <=> YearLength(k) = 366
    BY <1>1, LeapYears
  <1>3. YearLength(k) = 365 \/ YearLength(k) = 366
    BY DEF YearLength
  <1> QED BY <1>2, <1>3 DEF DaysIn, MonthStart

LEMMA MonthFollows ==
  ASSUME NEW doy \in Int, 0 <= doy, doy <= 364
  PROVE  MonthFromMarch(doy + 1) =
           IF doy + 1 < MonthStart(MonthFromMarch(doy) + 1) THEN MonthFromMarch(doy)
           ELSE MonthFromMarch(doy) + 1
  BY DEF MonthFromMarch, MonthStart

(* Past the last day of a month that is not the last of its year.          *)
LEMMA MonthTurns ==
  ASSUME NEW y, NEW m, NEW d, NEW m1, m1 = m + 1, m < 12, ~ d < DaysIn(y, m)
  PROVE  Tomorrow([y |-> y, m |-> m, d |-> d]) = [y |-> y, m |-> m1, d |-> 1]
  <1>1. PICK date : date = [y |-> y, m |-> m, d |-> d]
    OBVIOUS
  <1>2. date.y = y /\ date.m = m /\ date.d = d
    BY <1>1
  <1>3. ~ date.d < DaysIn(date.y, date.m) /\ date.m < 12
    BY <1>2
  <1>4. Tomorrow(date) = [date EXCEPT !.m = @ + 1, !.d = 1]
    BY <1>3 DEF Tomorrow
  <1>5. [date EXCEPT !.m = m1, !.d = 1] = [y |-> y, m |-> m1, d |-> 1]
    <2>1. PICK r : r = [date EXCEPT !.m = m1]
      OBVIOUS
    <2>2. r = [y |-> y, m |-> m1, d |-> d]
      BY <1>1, <2>1
    <2>3. [r EXCEPT !.d = 1] = [y |-> y, m |-> m1, d |-> 1]
      BY <2>2
    <2> QED BY <2>1, <2>3
  <1>6. Tomorrow(date) = [date EXCEPT !.m = m1, !.d = 1]
    BY <1>2, <1>4
  <1> QED BY <1>1, <1>5, <1>6

LEMMA TomorrowInYear ==
  ASSUME NEW e \in Int, NEW k, InEraYears(k),
         NEW doy \in Int, 0 <= doy, doy + 1 < YearLength(k)
  PROVE  Tomorrow(DateOf(e, k, doy)) = DateOf(e, k, doy + 1)
  <1> DEFINE mp == MonthFromMarch(doy)
             date == DateOf(e, k, doy)
  <1>1. YearLength(k) \in Int /\ YearLength(k) <= 366 /\ doy <= 364
    BY DEF YearLength
  <1>2. /\ mp \in Int /\ 0 <= mp /\ mp <= 11
        /\ MonthStart(mp) <= doy /\ doy < MonthStart(mp + 1)
    BY <1>1, MonthFound
  <1>3. MonthFromMarch(doy + 1) = IF doy + 1 < MonthStart(mp + 1) THEN mp ELSE mp + 1
    BY <1>1, MonthFollows
  <1> DEFINE mq == MonthFromMarch(doy + 1)
  <1>4. /\ date = [y |-> (k + e * 400) + (IF mp < 10 THEN 0 ELSE 1), m |-> MonthNamed(mp),
                   d |-> doy - MonthStart(mp) + 1]
        /\ DateOf(e, k, doy + 1) =
             [y |-> (k + e * 400) + (IF mq < 10 THEN 0 ELSE 1), m |-> MonthNamed(mq),
              d |-> (doy + 1) - MonthStart(mq) + 1]
    BY DEF DateOf, MonthOf, MonthNamed
  <1> HIDE DEF mp, mq
  <1>5. MonthStart(mp) \in Int /\ MonthStart(mp + 1) \in Int /\ k + e * 400 \in Int
    BY <1>2 DEF MonthStart, InEraYears
  <1>6. MonthStart(11) \in Int /\ MonthStart(12) = 367
    BY DEF MonthStart
  <1>7. CASE doy + 1 < MonthStart(mp + 1)
    <2>1. mq = mp
      BY <1>3, <1>7 DEF mq, mp
    <2>2. date.d < DaysIn(date.y, date.m)
      <3>1. CASE mp < 11
        <4>1. MonthStart(mp + 1) = MonthStart(mp) + DaysIn(date.y, MonthNamed(mp))
          BY <1>2, <1>4, <1>5, <3>1, MonthLengths
        <4>2. DaysIn(date.y, MonthNamed(mp)) \in Int
          BY DEF DaysIn
        <4> QED BY <1>4, <1>5, <1>7, <4>1, <4>2
      <3>2. CASE mp = 11
        <4>1. MonthStart(11) + DaysIn(k + e * 400 + 1, 2) = YearLength(k)
          BY FebruaryLength
        <4>2. DaysIn(k + e * 400 + 1, 2) \in Int
          BY DEF DaysIn
        <4>3. date.y = k + e * 400 + 1 /\ date.m = 2 /\ date.d = doy - MonthStart(11) + 1
          BY <1>4, <3>2 DEF MonthNamed
        <4> QED BY <1>1, <1>6, <4>1, <4>2, <4>3
      <3> QED BY <1>2, <3>1, <3>2
    <2>3. Tomorrow(date) = [date EXCEPT !.d = @ + 1]
      BY <2>2 DEF Tomorrow
    <2> QED BY <1>2, <1>4, <1>5, <2>1, <2>3
  <1>8. CASE ~ doy + 1 < MonthStart(mp + 1)
    <2>1. mq = mp + 1 /\ doy + 1 = MonthStart(mp + 1)
      BY <1>2, <1>3, <1>5, <1>8 DEF mq, mp
    <2>2. mp < 11
      BY <1>1, <1>2, <1>6, <2>1
    <2>3. /\ MonthStart(mp + 1) = MonthStart(mp) + DaysIn(date.y, MonthNamed(mp))
          /\ DaysIn(date.y, MonthNamed(mp)) \in Int
      BY <1>2, <1>4, <1>5, <2>2, MonthLengths DEF DaysIn
    <2>4. ~ date.d < DaysIn(date.y, date.m)
      BY <1>4, <1>5, <2>1, <2>3
    <2>5. Tomorrow(date) = IF date.m < 12 THEN [date EXCEPT !.m = @ + 1, !.d = 1]
                           ELSE [y |-> date.y + 1, m |-> 1, d |-> 1]
      BY <2>4 DEF Tomorrow
    <2>6. DateOf(e, k, doy + 1) =
            [y |-> (k + e * 400) + (IF mp + 1 < 10 THEN 0 ELSE 1), m |-> MonthNamed(mp + 1), d |-> 1]
      BY <1>4, <1>5, <2>1
    <2>7. CASE mp = 9
      BY <1>4, <1>5, <2>5, <2>6, <2>7 DEF MonthNamed
    <2>8. CASE mp # 9
      <3>1. date.m < 12 /\ MonthNamed(mp + 1) = date.m + 1
        BY <1>2, <1>4, <2>2, <2>8 DEF MonthNamed
      <3>2. (mp < 10) <=> (mp + 1 < 10)
        BY <1>2, <2>8
      <3>3. date.y = (k + e * 400) + (IF mp < 10 THEN 0 ELSE 1)
        BY <1>4
      <3>4. PICK m1 : m1 = MonthNamed(mp + 1)
        OBVIOUS
      <3>5. date = [y |-> date.y, m |-> date.m, d |-> date.d]
        BY <1>4
      <3>6. Tomorrow([y |-> date.y, m |-> date.m, d |-> date.d]) = [y |-> date.y, m |-> m1, d |-> 1]
        BY <2>4, <3>1, <3>4, MonthTurns
      <3>7. Tomorrow(date) = [y |-> date.y, m |-> m1, d |-> 1]
        BY <3>5, <3>6
      <3> QED BY <2>6, <3>2, <3>3, <3>4, <3>7
    <2> QED BY <2>7, <2>8
  <1> QED BY <1>7, <1>8

(* On the last day of February the year counted from March is over.        *)
LEMMA TomorrowIsMarch ==
  ASSUME NEW e \in Int, NEW k, InEraYears(k),
         NEW doy \in Int, 0 <= doy, doy + 1 = YearLength(k)
  PROVE  Tomorrow(DateOf(e, k, doy)) = [y |-> k + e * 400 + 1, m |-> 3, d |-> 1]
  <1>1. doy = 364 \/ doy = 365
    BY DEF YearLength
  <1>2. MonthFromMarch(doy) = 11 /\ MonthStart(11) = 337
    BY <1>1 DEF MonthFromMarch, MonthStart
  <1>3. k + e * 400 \in Int
    BY DEF InEraYears
  <1>4. DateOf(e, k, doy) = [y |-> k + e * 400 + 1, m |-> 2, d |-> doy - 337 + 1]
    BY <1>2, <1>3 DEF DateOf, MonthOf
  <1>5. 337 + DaysIn(k + e * 400 + 1, 2) = doy + 1 /\ DaysIn(k + e * 400 + 1, 2) \in Int
    BY <1>2, FebruaryLength DEF DaysIn
  <1>6. PICK y, d : y = k + e * 400 + 1 /\ d = doy - 337 + 1 /\ ~ d < DaysIn(y, 2)
    BY <1>3, <1>5
  <1>7. Tomorrow([y |-> y, m |-> 2, d |-> d]) = [y |-> y, m |-> 3, d |-> 1]
    <2>1. 3 = 2 + 1 /\ 2 < 12
      OBVIOUS
    <2> QED BY ONLY <1>6, <2>1, MonthTurns
  <1> QED BY <1>4, <1>6, <1>7

LEMMA FirstOfMarch ==
  ASSUME NEW e \in Int, NEW k \in Int
  PROVE  DateOf(e, k, 0) = [y |-> k + e * 400, m |-> 3, d |-> 1]
  <1>1. MonthFromMarch(0) = 0 /\ MonthStart(0) = 0
    BY DEF MonthFromMarch, MonthStart
  <1> QED BY <1>1 DEF DateOf, MonthOf

LEMMA YearStartRange ==
  ASSUME NEW k \in Int, 0 <= k, k <= 400
  PROVE  YearStart(k) \in Int /\ YearStart(k) <= 146096
  BY DEF YearStart

(* The computed date of the next day is the calendar's next date.          *)
LEMMA CivilFollows ==
  ASSUME NEW z \in Int, NEW z1 \in Int, z1 = z + 1
  PROVE  CivilDate(z1) = Tomorrow(CivilDate(z))
  <1>1. PICK e, x : At(z, e, x)
    BY EraSplits
  <1>2. /\ e \in Int /\ InEra(x)
        /\ x # 146096 => At(z1, e, x + 1)
        /\ x = 146096 => At(z1, e + 1, 0)
    BY <1>1, NextInEra
  <1>3. PICK k : InEraYears(k) /\ YearStart(k) <= x /\ (k # 399 => x < YearStart(k + 1))
    BY <1>2, YearFound
  <1> DEFINE doy == x - YearStart(k)
  <1>4. CivilDate(z) = DateOf(e, k, doy)
    BY <1>1, <1>2, <1>3, DateIsCivil
  <1>5. doy \in Int /\ 0 <= doy /\ doy < YearLength(k)
    BY <1>2, <1>3, DayOfYearRange
  <1>6. /\ k \in Int /\ 0 <= k /\ k <= 399 /\ x \in Int /\ 0 <= x /\ x <= 146096
    BY <1>2, <1>3 DEF InEraYears, InEra
  <1>7. /\ YearStart(k) \in Int /\ YearStart(k + 1) \in Int /\ YearStart(k + 1) <= 146096
    BY <1>6, YearStartRange
  <1>8. /\ YearLength(k) \in Int
        /\ k # 399 => YearStart(k + 1) = YearStart(k) + YearLength(k)
        /\ k = 399 => YearStart(k) + YearLength(k) = 146097
    BY <1>3, YearLengths DEF YearLength
  <1>9. CASE doy + 1 < YearLength(k)
    <2>1. x # 146096 /\ (k # 399 => x + 1 < YearStart(k + 1)) /\ YearStart(k) <= x + 1
      BY <1>3, <1>6, <1>7, <1>8, <1>9
    <2>2. PICK x1 : x1 = x + 1
      OBVIOUS
    <2>3. InEra(x1) /\ At(z1, e, x1) /\ x1 - YearStart(k) = doy + 1
      BY <1>2, <1>6, <1>7, <2>1, <2>2 DEF InEra
    <2>4. YearStart(k) <= x1 /\ (k # 399 => x1 < YearStart(k + 1))
      BY <2>1, <2>2
    <2>5. CivilDate(z1) = DateOf(e, k, x1 - YearStart(k))
      BY <1>2, <1>3, <2>3, <2>4, DateIsCivil
    <2>6. Tomorrow(DateOf(e, k, doy)) = DateOf(e, k, doy + 1)
      BY <1>2, <1>3, <1>5, <1>9, TomorrowInYear
    <2> QED BY <1>4, <2>3, <2>5, <2>6
  <1>10. CASE ~ doy + 1 < YearLength(k)
    <2>1. doy + 1 = YearLength(k)
      BY <1>5, <1>8, <1>10
    <2>2. Tomorrow(CivilDate(z)) = [y |-> k + e * 400 + 1, m |-> 3, d |-> 1]
      BY <1>2, <1>3, <1>4, <1>5, <2>1, TomorrowIsMarch
    <2>3. CASE k = 399
      <3>1. x = 146096
        BY <1>6, <1>7, <1>8, <2>1, <2>3
      <3>2. PICK e1 : e1 = e + 1 /\ e1 \in Int
        BY <1>2
      <3>3. At(z1, e1, 0)
        BY <1>2, <3>1, <3>2
      <3>4. YearStart(0) = 0 /\ YearStart(1) = 365 /\ InEra(0) /\ InEraYears(0)
        BY DEF YearStart, InEra, InEraYears
      <3>5. CivilDate(z1) = DateOf(e1, 0, 0 - YearStart(0))
        BY <3>2, <3>3, <3>4, DateIsCivil
      <3>6. DateOf(e1, 0, 0) = [y |-> 0 + e1 * 400, m |-> 3, d |-> 1]
        BY <3>2, FirstOfMarch
      <3>7. 0 + e1 * 400 = k + e * 400 + 1
        BY <1>2, <2>3, <3>2
      <3> QED BY <2>2, <3>4, <3>5, <3>6, <3>7
    <2>4. CASE k # 399
      <3>1. PICK x1, k1 : x1 = x + 1 /\ k1 = k + 1
        OBVIOUS
      <3>2. x1 = YearStart(k1) /\ k1 \in Int /\ 0 <= k1 /\ k1 <= 399
        BY <1>6, <1>7, <1>8, <2>1, <2>4, <3>1
      <3>3. InEraYears(k1) /\ InEra(x1) /\ x # 146096
        BY <1>6, <1>7, <3>1, <3>2 DEF InEra, InEraYears
      <3>4. At(z1, e, x1)
        BY <1>2, <3>1, <3>3
      <3>5. YearStart(k1) <= x1 /\ (k1 # 399 => x1 < YearStart(k1 + 1))
        BY <3>2 DEF YearStart
      <3>6. CivilDate(z1) = DateOf(e, k1, x1 - YearStart(k1))
        BY <1>2, <3>3, <3>4, <3>5, DateIsCivil
      <3>7. x1 - YearStart(k1) = 0
        BY <3>2, <3>3 DEF InEra
      <3>8. DateOf(e, k1, 0) = [y |-> k1 + e * 400, m |-> 3, d |-> 1]
        <4>1. e \in Int /\ k1 \in Int
          BY <1>2, <3>2
        <4> QED BY <4>1, FirstOfMarch
      <3>9. k1 + e * 400 = k + e * 400 + 1
        BY <1>2, <1>6, <3>1
      <3> QED BY <2>2, <3>6, <3>7, <3>8, <3>9
    <2> QED BY <2>3, <2>4
  <1> QED BY <1>9, <1>10

(* A date, as the calendar can show it.                                    *)
IsDate(date) ==
  /\ date \in [y : Int, m : Int, d : Int]
  /\ 1 <= date.m /\ date.m <= 12
  /\ 1 <= date.d /\ date.d <= DaysIn(date.y, date.m)

LEMMA TurningBack ==
  ASSUME NEW date, IsDate(date)
  PROVE  Yesterday(Tomorrow(date)) = date /\ IsDate(Tomorrow(date))
  <1> DEFINE y == date.y  m == date.m  d == date.d
  <1>1. y \in Int /\ m \in Int /\ d \in Int /\ date = [y |-> y, m |-> m, d |-> d]
    BY DEF IsDate
  <1>2. 1 <= m /\ m <= 12 /\ 1 <= d /\ d <= DaysIn(y, m) /\ DaysIn(y, m) \in Int
    BY <1>1 DEF IsDate, DaysIn
  <1> HIDE DEF y, m, d
  <1>3. CASE d < DaysIn(y, m)
    <2>1. Tomorrow(date) = [date EXCEPT !.d = @ + 1]
      BY <1>3 DEF Tomorrow, y, m, d
    <2>2. Tomorrow(date) = [y |-> y, m |-> m, d |-> d + 1]
      BY <1>1, <2>1
    <2>3. IsDate(Tomorrow(date))
      BY <1>1, <1>2, <1>3, <2>2 DEF IsDate
    <2> QED BY <1>1, <1>2, <2>2, <2>3 DEF Yesterday
  <1>4. CASE ~ d < DaysIn(y, m) /\ m < 12
    <2>2. PICK m1 : m1 = m + 1
      OBVIOUS
    <2>1. Tomorrow([y |-> y, m |-> m, d |-> d]) = [y |-> y, m |-> m1, d |-> 1]
      BY <1>4, <2>2, MonthTurns
    <2>3. Tomorrow(date) = [y |-> y, m |-> m1, d |-> 1]
      BY <1>1, <2>1
    <2>4. m1 \in Int /\ 1 < m1 /\ m1 <= 12 /\ m1 - 1 = m /\ d = DaysIn(y, m)
      BY <1>1, <1>2, <1>4, <2>2
    <2>5. 1 <= DaysIn(y, m1)
      BY DEF DaysIn
    <2>6. IsDate(Tomorrow(date))
      BY <1>1, <2>3, <2>4, <2>5 DEF IsDate
    <2>7. Yesterday(Tomorrow(date)) = [Tomorrow(date) EXCEPT !.m = m1 - 1, !.d = DaysIn(y, m1 - 1)]
      BY <2>3, <2>4 DEF Yesterday
    <2>8. Yesterday(Tomorrow(date)) = [[y |-> y, m |-> m1, d |-> 1] EXCEPT !.m = m, !.d = d]
      BY <2>3, <2>4, <2>7
    <2>9. Yesterday(Tomorrow(date)) = [y |-> y, m |-> m, d |-> d]
      BY <2>8
    <2> QED BY <1>1, <2>6, <2>9
  <1>5. CASE ~ d < DaysIn(y, m) /\ ~ m < 12
    <2>1. m = 12
      BY <1>1, <1>2, <1>5
    <2>2. DaysIn(y, m) = 31
      BY <2>1 DEF DaysIn
    <2>3. d = 31
      BY <1>1, <1>2, <1>5, <2>2
    <2>4. Tomorrow(date) = [y |-> y + 1, m |-> 1, d |-> 1]
      BY <1>5 DEF Tomorrow, y, m, d
    <2>5. 1 <= DaysIn(y + 1, 1)
      BY DEF DaysIn
    <2>6. IsDate(Tomorrow(date))
      BY <1>1, <2>4, <2>5 DEF IsDate
    <2>7. Yesterday(Tomorrow(date)) = [y |-> y, m |-> 12, d |-> 31]
      <3>1. PICK D : D = Tomorrow(date)
        OBVIOUS
      <3>2. D.y = y + 1 /\ D.m = 1 /\ D.d = 1
        BY <2>4, <3>1
      <3>3. ~ D.d > 1 /\ ~ D.m > 1
        BY <3>2
      <3>4. Yesterday(D) = [y |-> D.y - 1, m |-> 12, d |-> 31]
        BY <3>3 DEF Yesterday
      <3>5. D.y - 1 = y
        BY <1>1, <3>2
      <3> QED BY <3>1, <3>4, <3>5
    <2> QED BY <1>1, <2>1, <2>3, <2>6, <2>7
  <1> QED BY <1>3, <1>4, <1>5
----------------------------------------------------------------------------
(* What the calendar shows is the date computed for its day.               *)
CalendarInv ==
  /\ days \in Int /\ IsDate(today)
  /\ today = CivilDate(SinceMarch0000(days))

LEMMA Epoch == CivilDate(SinceMarch0000(0)) = [y |-> 1970, m |-> 1, d |-> 1]
  <1>1. PICK z : z = SinceMarch0000(0)
    OBVIOUS
  <1>2. Era(z) = 4 /\ DayOfEra(z) = 135080
    BY <1>1 DEF Era, DayOfEra, SinceMarch0000
  <1>3. YearOfEra(135080) = 369 /\ DayOfYear(135080) = 306
    BY DEF YearOfEra, DayOfYear
  <1>4. MonthFromMarch(306) = 10
    BY DEF MonthFromMarch
  <1> QED BY <1>1, <1>2, <1>3, <1>4 DEF CivilDate

LEMMA CalendarStart == CalendarInit => CalendarInv
  <1> SUFFICES ASSUME CalendarInit PROVE CalendarInv
    OBVIOUS
  <1>1. IsDate([y |-> 1970, m |-> 1, d |-> 1])
    BY DEF IsDate, DaysIn
  <1> QED BY <1>1, Epoch DEF CalendarInit, CalendarInv

(* A date computed for the day before the day shown is a date.             *)
LEMMA CivilIsDate ==
  ASSUME NEW z \in Int
  PROVE  IsDate(CivilDate(z))
  <1>1. PICK e, x : At(z, e, x)
    BY EraSplits
  <1>2. e \in Int /\ InEra(x)
    BY <1>1, NextInEra
  <1>3. PICK k : InEraYears(k) /\ YearStart(k) <= x /\ (k # 399 => x < YearStart(k + 1))
    BY <1>2, YearFound
  <1>4. PICK doy : doy = x - YearStart(k) /\ doy \in Int /\ 0 <= doy /\ doy < YearLength(k)
    <2>1. /\ x - YearStart(k) \in Int /\ 0 <= x - YearStart(k)
          /\ x - YearStart(k) < YearLength(k)
      BY <1>2, <1>3, DayOfYearRange
    <2> QED BY <2>1
  <1>5. CivilDate(z) = DateOf(e, k, doy)
    <2>1. CivilDate(z) = DateOf(e, k, x - YearStart(k))
      BY <1>1, <1>2, <1>3, DateIsCivil
    <2> QED BY <1>4, <2>1
  <1>6. YearLength(k) \in Int /\ YearLength(k) <= 366 /\ k \in Int
    BY <1>3 DEF YearLength, InEraYears
  <1>7. PICK mp \in Int : /\ mp = MonthFromMarch(doy) /\ 0 <= mp /\ mp <= 11
                          /\ MonthStart(mp) <= doy /\ doy < MonthStart(mp + 1)
    BY <1>4, <1>6, MonthFound
  <1>8. PICK y \in Int : y = (k + e * 400) + (IF mp < 10 THEN 0 ELSE 1)
    BY <1>2, <1>6
  <1>9. DateOf(e, k, doy) = [y |-> y, m |-> MonthNamed(mp), d |-> doy - MonthStart(mp) + 1]
    BY <1>7, <1>8 DEF DateOf, MonthOf, MonthNamed
  <1>10. /\ MonthNamed(mp) \in Int /\ 1 <= MonthNamed(mp) /\ MonthNamed(mp) <= 12
         /\ MonthStart(mp) \in Int /\ MonthStart(mp + 1) \in Int
    BY <1>7 DEF MonthNamed, MonthStart
  <1>11. doy - MonthStart(mp) + 1 <= DaysIn(y, MonthNamed(mp))
    <2>1. CASE mp < 11
      <3>1. MonthStart(mp + 1) = MonthStart(mp) + DaysIn(y, MonthNamed(mp))
        BY <1>7, <1>8, <2>1, MonthLengths
      <3>2. DaysIn(y, MonthNamed(mp)) \in Int
        BY DEF DaysIn
      <3> QED BY <1>4, <1>7, <1>10, <3>1, <3>2
    <2>2. CASE mp = 11
      <3>1. y = k + e * 400 + 1 /\ MonthNamed(mp) = 2
        BY <1>2, <1>6, <1>8, <2>2 DEF MonthNamed
      <3>2. MonthStart(11) + DaysIn(k + e * 400 + 1, 2) = YearLength(k)
        BY <1>2, <1>3, FebruaryLength
      <3>3. DaysIn(y, 2) \in Int
        BY DEF DaysIn
      <3> QED BY <1>4, <1>6, <1>10, <2>2, <3>1, <3>2, <3>3
    <2> QED BY <1>7, <2>1, <2>2
  <1> QED BY <1>4, <1>5, <1>7, <1>9, <1>10, <1>11 DEF IsDate

LEMMA DayAfterDay ==
  ASSUME NEW n \in Int, NEW n1 \in Int, n1 = n + 1
  PROVE  CivilDate(SinceMarch0000(n1)) = Tomorrow(CivilDate(SinceMarch0000(n)))
  <1>1. PICK z \in Int, z1 \in Int : /\ z = SinceMarch0000(n) /\ z1 = SinceMarch0000(n1)
                                    /\ z1 = z + 1
    BY DEF SinceMarch0000
  <1> QED BY <1>1, CivilFollows

LEMMA CalendarStep == CalendarInv /\ [CalendarNext]_calendar => CalendarInv'
  <1> SUFFICES ASSUME CalendarInv, [CalendarNext]_calendar PROVE CalendarInv'
    OBVIOUS
  <1>1. CASE NextDay
    <2>1. days \in Int /\ days' \in Int /\ days' = days + 1 /\ today' = Tomorrow(today)
      BY <1>1 DEF CalendarInv, NextDay
    <2>2. today' = CivilDate(SinceMarch0000(days'))
      BY <2>1, DayAfterDay DEF CalendarInv
    <2>3. IsDate(today')
      BY <2>1, TurningBack DEF CalendarInv
    <2> QED BY <2>1, <2>2, <2>3 DEF CalendarInv
  <1>2. CASE PreviousDay
    <2>1. days \in Int /\ days' \in Int /\ days = days' + 1 /\ today' = Yesterday(today)
      BY <1>2 DEF CalendarInv, PreviousDay
    <2>2. today = Tomorrow(CivilDate(SinceMarch0000(days')))
      BY <2>1, DayAfterDay DEF CalendarInv
    <2>3. IsDate(CivilDate(SinceMarch0000(days')))
      BY <2>1, CivilIsDate DEF SinceMarch0000
    <2>4. today' = CivilDate(SinceMarch0000(days'))
      BY <2>1, <2>2, <2>3, TurningBack
    <2> QED BY <2>1, <2>3, <2>4 DEF CalendarInv
  <1>3. CASE UNCHANGED calendar
    BY <1>3 DEF CalendarInv, calendar
  <1> QED BY <1>1, <1>2, <1>3 DEF CalendarNext

(* Every second of day n is counted as day n.                              *)
LEMMA SecondsOfADay ==
  ASSUME NEW n \in Int, NEW s \in n * SecondsPerDay .. (n + 1) * SecondsPerDay - 1
  PROVE  EpochDay(s) = n
  <1>1. PICK p \in Nat \ {0} : p = SecondsPerDay
    BY CalendarConstants
  <1>2. PICK q \in Int : q = s \div p
    BY <1>1
  <1>3. s \in Int /\ p * q <= s /\ s < p * q + p
    BY <1>1, <1>2
  <1>4. p * n <= s /\ s < p * n + p
    BY <1>1
  <1>5. ~ q < n
    <2> SUFFICES ASSUME q < n PROVE FALSE
      OBVIOUS
    <2>1. q + 1 <= n
      OBVIOUS
    <2>2. p * (q + 1) <= p * n
      BY <2>1
    <2> QED BY <1>3, <1>4, <2>2
  <1>6. ~ n < q
    <2> SUFFICES ASSUME n < q PROVE FALSE
      OBVIOUS
    <2>1. n + 1 <= q
      OBVIOUS
    <2>2. p * (n + 1) <= p * q
      BY <2>1
    <2> QED BY <1>3, <1>4, <2>2
  <1> QED BY <1>1, <1>2, <1>5, <1>6 DEF EpochDay

LEMMA RightDay == CalendarInv => SecondsFallOnTheirDay
  <1> SUFFICES ASSUME CalendarInv,
                      NEW s \in days * SecondsPerDay .. (days + 1) * SecondsPerDay - 1
               PROVE  day_from_seconds(s) = today
    BY DEF SecondsFallOnTheirDay
  <1>1. EpochDay(s) = days
    BY SecondsOfADay DEF CalendarInv
  <1> QED BY <1>1 DEF day_from_seconds, CalendarInv

(* Whatever the calendar is turned to, and however far: each second of the *)
(* day shown is filed under the date shown. For every length of a day.     *)
THEOREM RowsOnTheirDay == CalendarSpec => []SecondsFallOnTheirDay
  <1>1. CalendarSpec => []CalendarInv
    BY CalendarStart, CalendarStep, PTL DEF CalendarSpec
  <1>2. CalendarInv => SecondsFallOnTheirDay
    BY RightDay
  <1> QED BY <1>1, <1>2, PTL
----------------------------------------------------------------------------
USE DEF Txs

(* What is pending agrees with what the network still owes: between a user *)
(* transaction and its result, its body if it decodes; once the latest     *)
(* user transaction has its result, nothing.                               *)
PendingIsOwed ==
  /\ open # None => /\ open = Len(signed)
                    /\ pending = body_of(open, signed[open].decodes)
  /\ (open = None /\ signed # << >> /\ signed[Len(signed)].kind = "user") => pending = None

PairInv == TypeOK /\ PendingIsOwed /\ RowsHaveTheirOwnBody

(* Sequences over a smaller set are sequences over a larger one.           *)
LEMMA SeqGrows ==
  ASSUME NEW S, NEW T, S \subseteq T
  PROVE  Seq(S) \subseteq Seq(T)
OBVIOUS

(* What a signed transaction is, by its place (the items of                *)
(* mod.rs:283).                                                            *)
LEMMA SignedAt ==
  ASSUME TypeOK
  PROVE  /\ \A t \in Txs : signed[t].kind \in {"user", "signature"} /\ signed[t].decodes \in BOOLEAN
         /\ signed # << >> => Len(signed) \in Txs
<1> DEFINE S == [kind : {"user", "signature"}, decodes : BOOLEAN]
<1>1. signed \in Seq(S)
  BY DEF TypeOK
<1> HIDE DEF S
<1>2. ASSUME NEW t \in Txs PROVE signed[t] \in S
  BY <1>1
<1>3. signed # << >> => Len(signed) \in Txs
  BY <1>1
<1>4. \A r \in S : r.kind \in {"user", "signature"} /\ r.decodes \in BOOLEAN
  BY DEF S
<1> QED BY <1>2, <1>3, <1>4

(* The values of the variables, and that a pending body is the latest.     *)
(* This and the two theorems below are about parse_block, mod.rs:254-299.  *)
LEMMA InitPairInv == Init => PairInv
BY BlockItemsConstants
   DEF Init, PairInv, TypeOK, PendingIsOwed, RowsHaveTheirOwnBody, Own

(* A signed transaction item keeps the invariant: it is never sent while a *)
(* result is due, and it supersedes what was pending.                      *)
LEMMA SendSignedKeepsPairInv ==
  ASSUME PairInv, NEW kind \in {"user", "signature"}, NEW decodes \in BOOLEAN,
         SendSigned(kind, decodes)
  PROVE  PairInv'
<1> DEFINE t == Len(signed) + 1
<1> USE BlockItemsConstants DEF PairInv, TypeOK
<1>1. /\ signed' = Append(signed, [kind |-> kind, decodes |-> decodes])
      /\ open' = IF kind = "user" THEN t ELSE None
      /\ pending' = body_of(t, decodes)
      /\ UNCHANGED <<results, block_number, rounds, transactions>>
  BY DEF SendSigned, SignedTransaction
<1>2. Len(signed) \in Nat /\ t \in Nat /\ Len(signed') = t /\ signed'[t] = [kind |-> kind, decodes |-> decodes]
  BY <1>1
<1>3. \A u \in Txs : signed'[u] = signed[u]
  BY <1>1
<1>4. TypeOK'
  <2>1. [kind |-> kind, decodes |-> decodes] \in [kind : {"user", "signature"}, decodes : BOOLEAN]
    OBVIOUS
  <2>2. signed' \in Seq([kind : {"user", "signature"}, decodes : BOOLEAN])
    BY <1>1, <2>1
  <2>3. Txs \subseteq Txs'
    BY <1>2
  <2>4. results \in Seq(Txs' \cup {None})
    BY <2>3
  <2>5. transactions \in Seq([result : 1 .. Len(results), body : Txs' \cup {None}])
    <3>1. [result : 1 .. Len(results), body : Txs \cup {None}]
            \subseteq [result : 1 .. Len(results), body : Txs' \cup {None}]
      BY <2>3
    <3> QED BY <3>1, SeqGrows
  <2>6. open' \in Txs' \cup {None} /\ pending' \in Txs' \cup {None}
    BY <1>1, <1>2 DEF body_of
  <2>7. pending' # None => pending' = Len(signed')
    BY <1>1, <1>2 DEF body_of
  <2> QED BY <1>1, <2>2, <2>4, <2>5, <2>6, <2>7
<1>5. PendingIsOwed'
  BY <1>1, <1>2 DEF PendingIsOwed, body_of
<1>6. RowsHaveTheirOwnBody'
  <2>1. \A r \in 1 .. Len(results) : Own(r)' = Own(r)
    BY <1>1, <1>3 DEF Own
  <2> QED BY <1>1, <2>1 DEF RowsHaveTheirOwnBody
<1> QED BY <1>4, <1>5, <1>6

(* Both kinds of result append one row, with the body pending then: it is  *)
(* the right one when that body is the result's own.                       *)
LEMMA ResultKeepsPairInv ==
  ASSUME PairInv, NEW own \in Txs \cup {None},
         results' = Append(results, own),
         TransactionResult(Len(results) + 1),
         UNCHANGED signed,
         open' = None,
         pending = IF own # None /\ signed[own].decodes THEN own ELSE None
  PROVE  PairInv'
<1> USE BlockItemsConstants DEF PairInv, TypeOK
<1>0. PICK n \in Nat : n = Len(results) + 1
  OBVIOUS
<1>1. /\ transactions' = Append(transactions, [result |-> n, body |-> pending])
      /\ pending' = None
      /\ UNCHANGED <<block_number, rounds, signed>>
  BY <1>0 DEF TransactionResult, Paired
<1>2. Len(transactions) = Len(results) /\ n = Len(results) + 1
  BY <1>0 DEF RowsHaveTheirOwnBody
<1>3. Len(results') = n /\ Len(transactions') = n /\ results'[n] = own
  BY <1>1, <1>2
<1>4. TypeOK'
  <2>1. transactions \in Seq([result : 1 .. n, body : Txs \cup {None}])
    <3>1. [result : 1 .. Len(results), body : Txs \cup {None}]
            \subseteq [result : 1 .. n, body : Txs \cup {None}]
      BY <1>2
    <3> DEFINE S == [result : 1 .. Len(results), body : Txs \cup {None}]
               T == [result : 1 .. n, body : Txs \cup {None}]
    <3>2. transactions \in Seq(S) /\ S \subseteq T
      BY <3>1
    <3> HIDE DEF S, T
    <3>3. transactions \in Seq(T)
      BY <3>2, SeqGrows
    <3> QED BY <3>3 DEF T
  <2>2. [result |-> n, body |-> pending] \in [result : 1 .. n, body : Txs \cup {None}]
    BY <1>2
  <2>3. transactions' \in Seq([result : 1 .. n, body : Txs \cup {None}])
    BY <1>1, <2>1, <2>2
  <2> QED BY <1>1, <1>3, <2>3
<1>5. PendingIsOwed'
  BY <1>1 DEF PendingIsOwed
<1>6. RowsHaveTheirOwnBody'
  <2>1. \A r \in 1 .. Len(results) : results'[r] = results[r]
    BY <1>2
  <2>2. \A r \in 1 .. Len(results) : Own(r)' = Own(r)
    BY <1>1, <2>1 DEF Own
  <2>3. Own(n)' = pending
    <3>1. Own(n)' = IF results'[n] # None /\ signed'[results'[n]].decodes THEN results'[n] ELSE None
      BY DEF Own
    <3> QED BY <1>1, <1>3, <3>1
  <2>4. \A r \in 1 .. n : transactions'[r] = [result |-> r, body |-> Own(r)']
    <3>1. TAKE r \in 1 .. n
    <3>2. CASE r = n
      BY <1>1, <1>2, <2>3, <3>2
    <3>3. CASE r # n
      BY <1>1, <1>2, <2>2, <3>3 DEF RowsHaveTheirOwnBody
    <3> QED BY <3>2, <3>3
  <2> QED BY <1>3, <2>4 DEF RowsHaveTheirOwnBody
<1> QED BY <1>4, <1>5, <1>6

(* With orphans only where nothing waits, every step keeps the invariant.  *)
LEMMA StepPairInv ==
  ASSUME OrphanPlaces = {"following"}, PairInv, [Next]_vars
  PROVE  PairInv'
<1> USE BlockItemsConstants
<1>1. ASSUME NEW n \in Numbers, SendHeader(n) PROVE PairInv'
  BY <1>1 DEF SendHeader, BlockHeader, network, PairInv, TypeOK, PendingIsOwed,
              RowsHaveTheirOwnBody, Own, body_of
<1>2. ASSUME NEW r \in Rounds, SendRound(r) PROVE PairInv'
  <2>1. rounds' \in Seq(Rounds)
    BY <1>2 DEF SendRound, RoundHeader, PairInv, TypeOK
  <2>2. UNCHANGED <<signed, open, results, block_number, pending, transactions>>
    BY <1>2 DEF SendRound, RoundHeader, network
  <2>3. TypeOK'
    BY <2>1, <2>2 DEF PairInv, TypeOK
  <2>4. PendingIsOwed' /\ RowsHaveTheirOwnBody'
    BY <2>2 DEF PairInv, PendingIsOwed, RowsHaveTheirOwnBody, Own
  <2> QED BY <2>3, <2>4 DEF PairInv
<1>3. CASE SendResult
  <2>1. open \in Txs /\ signed[open].decodes \in BOOLEAN
    BY <1>3, SignedAt DEF SendResult, PairInv, TypeOK
  <2>2. pending = IF open # None /\ signed[open].decodes THEN open ELSE None
    BY <1>3, <2>1 DEF SendResult, PairInv, PendingIsOwed, body_of
  <2> QED BY <1>3, <2>1, <2>2, ResultKeepsPairInv DEF SendResult
<1>4. CASE SendOrphan
  <2>1. Here = "following"
    BY <1>4 DEF SendOrphan
  <2>2. open = None /\ (signed = << >> \/ signed[Len(signed)].kind # "signature")
    BY <2>1 DEF Here
  <2>3. signed # << >> => signed[Len(signed)].kind = "user"
    BY <2>2, SignedAt DEF PairInv
  <2>4. pending = None
    <3>1. CASE signed = << >>
      BY <3>1 DEF PairInv, TypeOK
    <3>2. CASE signed # << >>
      BY <3>2, <2>2, <2>3 DEF PairInv, PendingIsOwed
    <3> QED BY <3>1, <3>2
  <2> QED BY <1>4, <2>2, <2>4, ResultKeepsPairInv DEF SendOrphan
<1>5. CASE UNCHANGED vars
  BY <1>5 DEF vars, PairInv, TypeOK, PendingIsOwed, RowsHaveTheirOwnBody, Own, body_of
<1> QED BY <1>1, <1>2, <1>3, <1>4, <1>5, SendSignedKeepsPairInv DEF Next

(* Every row of a block of any length has the body of its own transaction  *)
(* and is in its place, provided results without a signed transaction      *)
(* stand only where none is waiting (parse_block, mod.rs:284-288).         *)
THEOREM PairedForever ==
  ASSUME OrphanPlaces = {"following"}
  PROVE  Spec => []RowsHaveTheirOwnBody
<1>1. Init => PairInv
  BY InitPairInv
<1>2. PairInv /\ [Next]_vars => PairInv'
  BY StepPairInv
<1>3. PairInv => RowsHaveTheirOwnBody
  BY DEF PairInv
<1> QED BY <1>1, <1>2, <1>3, PTL DEF Spec

(* Every variable of the pairing keeps its type, and a body that is        *)
(* pending is that of the latest signed transaction (mod.rs:283-288).      *)
THEOREM PairingTypes ==
  ASSUME OrphanPlaces = {"following"}
  PROVE  Spec => []TypeOK
<1>1. Init => PairInv
  BY InitPairInv
<1>2. PairInv /\ [Next]_vars => PairInv'
  BY StepPairInv
<1>3. PairInv => TypeOK
  BY DEF PairInv
<1> QED BY <1>1, <1>2, <1>3, PTL DEF Spec
----------------------------------------------------------------------------
(* The item and the result that the rows of the present state were made    *)
(* from: Next's parameters, kept.                                          *)
Tx == [body : Body, status : Maybe(Codes), time : Times, fee : {1}, moves : Movements]

RowsInv ==
  record_row # Absent =>
    \E tx \in Tx, form \in Readings :
      /\ shown = [tx |-> tx, form |-> form]
      /\ record_row = parse_item(RecordItem(tx, form))
      /\ block_row = transaction_from(IF form \in Readable THEN tx.body ELSE Absent, ResultItem(tx))

(* Of whichever form an envelope is, decode_body gives the transaction's   *)
(* own body, or none when the form cannot be read (record/mod.rs:125-138). *)
LEMMA BodyOfEnvelope ==
  ASSUME NEW body \in Body, NEW form \in Readings
  PROVE  decode_body(Envelope(body, form)) = IF form \in Readable THEN body ELSE Absent
<1> DEFINE Wrapped == [signed : Maybe(Holder), body_bytes : Maybe(Holder), body : Maybe(Body)]
<1>1. Held(body) # Absent /\ Held(Absent) # Absent
  <2>1. Held(body) \in Holder /\ Held(Absent) \in Holder
    BY DEF Held, Holder, Maybe
  <2> QED BY <2>1, AbsentIsNoMessage
<1>2. form # "missing" => Envelope(body, form) # Absent
  <2>1. form # "missing" => Envelope(body, form) \in Wrapped
    BY DEF Envelope, Held, Holder, Maybe
  <2> QED BY <2>1, AbsentIsNoMessage
<1>3. CASE form = "missing"
  BY <1>3 DEF decode_body, Envelope, Readable
<1>4. CASE form # "missing"
  <2>1. /\ Envelope(body, form).signed = IF form = "signed" THEN Held(body)
                                         ELSE IF form = "garbled" THEN Held(Absent) ELSE Absent
        /\ Envelope(body, form).body_bytes = IF form = "bytes" THEN Held(body) ELSE Absent
        /\ Envelope(body, form).body = IF form \in {"body", "garbled"} THEN body ELSE Absent
    BY <1>4 DEF Envelope
  <2>2. body # Absent
    BY AbsentIsNoMessage
  <2> QED BY <1>1, <1>2, <1>4, <2>1, <2>2 DEF decode_body, Held, Readable, Readings
<1> QED BY <1>3, <1>4

(* A type both sets of definitions give one name, or none, has one case    *)
(* name in both eras' rows (lib.rs:266-268).                               *)
LEMMA SameCaseName ==
  ASSUME NEW body, body = Absent \/ SameName(RecordTypes, BlockTypes, body.data)
  PROVE  CaseName(RecordTypes, body) = CaseName(BlockTypes, body)
BY DEF CaseName, SameName

(* And a code that the older definitions name has the newer ones' name     *)
(* for it, or the newer ones fill in (record/mod.rs:145-153).              *)
LEMMA SameCodeName ==
  ASSUME NEW code, SharedCode(code)
  PROVE  response_code_name(code) = BlockName(code)
BY DEF SharedCode, SameName, response_code_name, BlockName

LEMMA RowsInvInit == RowsInit => RowsInv
BY DEF RowsInit, RowsInv

LEMMA RowsInvStep ==
  ASSUME RowsInv, [RowsNext]_rows
  PROVE  RowsInv'
<1>1. CASE UNCHANGED rows
  BY <1>1 DEF RowsInv, rows
<1>2. ASSUME NEW body \in Body, NEW status \in Maybe(Codes), NEW time \in Times,
             NEW moves \in Movements, NEW form \in Readings,
             Show([body |-> body, status |-> status, time |-> time, fee |-> 1, moves |-> moves], form)
      PROVE  RowsInv'
  <2> DEFINE tx == [body |-> body, status |-> status, time |-> time, fee |-> 1, moves |-> moves]
  <2>1. tx \in Tx
    BY DEF Tx
  <2>2. /\ shown' = [tx |-> tx, form |-> form]
        /\ record_row' = parse_item(RecordItem(tx, form))
        /\ block_row' = transaction_from(IF form \in Readable THEN tx.body ELSE Absent, ResultItem(tx))
    BY <1>2 DEF Show
  <2> HIDE DEF tx
  <2> QED BY <2>1, <2>2 DEF RowsInv
<1> QED BY <1>1, <1>2 DEF RowsNext

(* A row r of the record era and a row b of the block era, of which body   *)
(* was read: equal but for the names, which each era takes from its own    *)
(* definitions.                                                            *)
OneRow(r, b, body, form) ==
  /\ b.day = r.day /\ b.timestamp = r.timestamp
  /\ form \in Readable => b.payer = r.payer /\ b.transaction_id = r.transaction_id
  /\ r.tx_type = CaseName(RecordTypes, body) /\ b.tx_type = CaseName(BlockTypes, body)
  /\ b.result_code = r.result_code
  /\ r.result = response_code_name(r.result_code)
  /\ b.result = BlockName(r.result_code)
  /\ b.fee = r.fee /\ b.transfers = r.transfers /\ b.token = r.token /\ b.nft = r.nft
  /\ DOMAIN b = {"day", "timestamp", "payer", "transaction_id", "tx_type", "result_code",
                 "result", "fee", "transfers", "token", "nft"}

(* The two rows of one transaction are so related.                         *)
LEMMA RowsOfOne ==
  ASSUME NEW tx \in Tx, NEW form \in Readings, form # "recordless",
         parse_item(RecordItem(tx, form)) # Absent
  PROVE  LET body == IF form \in Readable THEN tx.body ELSE Absent
         IN  OneRow(parse_item(RecordItem(tx, form)),
                    transaction_from(body, ResultItem(tx)), body, form)
<1> DEFINE body   == IF form \in Readable THEN tx.body ELSE Absent
           status == IF tx.status = Absent THEN 0 ELSE tx.status
           entry  == RecordItem(tx, form)
           record == entry.record
           result == ResultItem(tx)
           r      == parse_item(entry)
           b      == transaction_from(body, result)
<1>1. tx.body \in Body /\ tx.status \in Maybe(Codes)
  BY DEF Tx
<1>2. decode_body(entry.transaction) = body
  BY <1>1, BodyOfEnvelope DEF RecordItem
<1>3. record = [transaction_id       |-> tx.body.transaction_id,
                receipt              |-> IF tx.status = Absent THEN Absent ELSE [status |-> tx.status],
                consensus_timestamp  |-> tx.time,
                transaction_fee      |-> tx.fee,
                transfer_list        |-> tx.moves.hbar,
                token_transfer_lists |-> tx.moves.tokens]
  BY DEF RecordItem
<1>4. (IF record.receipt = Absent THEN 0 ELSE record.receipt.status) = status
  <2>1. tx.status # Absent => [status |-> tx.status] # Absent
    BY <1>1, AbsentIsNoMessage DEF Maybe
  <2> QED BY <1>3, <2>1
<1>5. result = [status |-> status, consensus_timestamp |-> tx.time,
                transaction_fee_charged |-> tx.fee, transfer_list |-> tx.moves.hbar,
                token_transfer_lists |-> tx.moves.tokens]
  BY DEF ResultItem
<1>6. record # Absent
  BY DEF parse_item
<1>7. r = [day            |-> day_from_seconds(Seconds(tx.time)),
           timestamp      |-> consensus_string(tx.time),
           payer          |-> Payer(tx.body.transaction_id),
           transaction_id |-> transaction_id_string(tx.body.transaction_id),
           tx_type        |-> CaseName(RecordTypes, body),
           result_code    |-> status,
           result         |-> response_code_name(status),
           fee            |-> tx.fee,
           transfers      |-> Hbar(tx.moves.hbar),
           token          |-> Fungible(tx.moves.tokens),
           nft            |-> Nft(tx.moves.tokens)]
  <2> HIDE DEF body, status
  <2> QED BY <1>2, <1>3, <1>4, <1>6 DEF parse_item
<1> DEFINE id == IF body = Absent THEN Absent ELSE body.transaction_id
<1>8. b = [day            |-> day_from_seconds(Seconds(tx.time)),
           timestamp      |-> consensus_string(tx.time),
           payer          |-> Payer(id),
           transaction_id |-> transaction_id_string(id),
           tx_type        |-> CaseName(BlockTypes, body),
           result_code    |-> status,
           result         |-> BlockName(status),
           fee            |-> tx.fee,
           transfers      |-> Hbar(tx.moves.hbar),
           token          |-> Fungible(tx.moves.tokens),
           nft            |-> Nft(tx.moves.tokens)]
  <2> HIDE DEF body, status
  <2> QED BY <1>5 DEF transaction_from
<1>9. form \in Readable => id = tx.body.transaction_id
  BY <1>1, AbsentIsNoMessage
<1> HIDE DEF body, status, entry, record, result, r, b, id
<1>10. OneRow(r, b, body, form)
  BY <1>7, <1>8, <1>9 DEF OneRow
<1> QED BY <1>10 DEF body, entry, result, r, b

LEMMA RowsInvAgree == RowsInv => RowsAgree
<1> SUFFICES ASSUME RowsInv, record_row # Absent PROVE RowsAgree
  BY DEF RowsAgree
<1>1. PICK tx \in Tx, form \in Readings :
        /\ shown = [tx |-> tx, form |-> form]
        /\ record_row = parse_item(RecordItem(tx, form))
        /\ block_row = transaction_from(IF form \in Readable THEN tx.body ELSE Absent, ResultItem(tx))
  BY DEF RowsInv
<1>2. form # "recordless"
  BY <1>1 DEF parse_item, RecordItem
<1> DEFINE body == IF form \in Readable THEN tx.body ELSE Absent
           r == record_row
           b == block_row
           but == (IF form \in Readable THEN {} ELSE {"payer", "transaction_id"})
                  \cup (IF SharedCode(r.result_code) THEN {} ELSE {"result"})
                  \cup (IF SameName(RecordTypes, BlockTypes, tx.body.data) THEN {} ELSE {"tx_type"})
<1>3. OneRow(r, b, body, form)
  BY <1>1, <1>2, RowsOfOne
<1>4. SharedCode(r.result_code) => b.result = r.result
  BY <1>3, SameCodeName DEF OneRow
<1>5. SameName(RecordTypes, BlockTypes, tx.body.data) => b.tx_type = r.tx_type
  BY <1>3, SameCaseName DEF OneRow
<1> HIDE DEF r, b
<1>6. ASSUME NEW column \in DOMAIN b \ but PROVE r[column] = b[column]
  BY <1>3, <1>4, <1>5 DEF OneRow
<1>7. shown.tx.body = tx.body /\ shown.form = form
  BY <1>1
<1> QED BY <1>6, <1>7 DEF RowsAgree, r, b

(* A transaction is the same row in both eras, for any ids, times,         *)
(* transfers and names the network and the two sets of definitions have:   *)
(* parse_item (record/mod.rs:155) on a record file, transaction_from       *)
(* (block/mod.rs:140) on a block.                                          *)
THEOREM RowsAgreeForever == RowsSpec => []RowsAgree
<1>1. RowsSpec => []RowsInv
  BY RowsInvInit, RowsInvStep, PTL DEF RowsSpec
<1> QED BY <1>1, RowsInvAgree, PTL
----------------------------------------------------------------------------
(* The scan of a block's bytes. The lemmas go from the bottom up: what a   *)
(* function defined by recursion is; the powers of two; one varint; one    *)
(* field; the fields of a message, turn by turn of the loop; the items.    *)
(* Whatever is read backwards from bytes that were written is read as it   *)
(* was written, which is what the invariant of the writer is for.          *)

(* The least-number principle and induction, on sets.                      *)
LEMMA LeastNumber ==
  ASSUME NEW T, T \subseteq Nat, T # {}
  PROVE  \E x \in T : \A y \in T : ~ (y < x)
<1>1. IsWellFoundedOn(OpToRel(<, Nat), Nat)
  BY NatLessThanWellFounded
<1>2. \E x \in T : \A y \in T : ~ (<<y, x>> \in OpToRel(<, Nat))
  BY <1>1, WFMin
<1>3. QED
  BY <1>2 DEF OpToRel

(* Induction, with a set in the place of the formula.                      *)
LEMMA Induction ==
  ASSUME NEW S, 0 \in S, \A n \in Nat : n \in S => n + 1 \in S
  PROVE  \A n \in Nat : n \in S
<1> DEFINE Others == {n \in Nat : n \notin S}
<1> SUFFICES ASSUME Others # {} PROVE FALSE
  OBVIOUS
<1>1. PICK x \in Others : \A y \in Others : ~ (y < x)
  BY LeastNumber
<1>2. x - 1 \in Nat /\ x - 1 \notin Others
  BY <1>1
<1> QED
  BY <1>1, <1>2

(* A function defined by recursion over the numbers up to a bound, with    *)
(* values in a set that its step does not leave, exists.                   *)
IsUpto(g, n, V, c, step) ==
  /\ g \in [0 .. n -> V] /\ g[0] = c
  /\ \A i \in 0 .. n - 1 : g[i + 1] = step[i][g[i]]

(* One more value of a function defined by recursion.                      *)
LEMMA UptoStep ==
  ASSUME NEW V, NEW c \in V, NEW step \in [Nat -> [V -> V]], NEW n \in Nat,
         NEW g, IsUpto(g, n, V, c, step)
  PROVE  \E h : IsUpto(h, n + 1, V, c, step)
<1> DEFINE h == [i \in 0 .. n + 1 |-> IF i = n + 1 THEN step[n][g[n]] ELSE g[i]]
<1>1. /\ g \in [0 .. n -> V] /\ g[0] = c
      /\ \A i \in 0 .. n - 1 : g[i + 1] = step[i][g[i]]
  BY DEF IsUpto
<1>2. step[n][g[n]] \in V
  BY <1>1
<1>3. h \in [0 .. n + 1 -> V]
  BY <1>1, <1>2
<1>4. h[0] = c
  BY <1>1
<1>5. ASSUME NEW i \in 0 .. n PROVE h[i + 1] = step[i][h[i]]
  <2>1. CASE i = n
    BY <2>1
  <2>2. CASE i # n
    <3>1. i \in 0 .. n - 1 /\ i + 1 \in 0 .. n
      BY <2>2
    <3> QED BY <1>1, <3>1
  <2> QED BY <2>1, <2>2
<1> HIDE DEF h
<1>6. IsUpto(h, n + 1, V, c, step)
  BY <1>3, <1>4, <1>5 DEF IsUpto
<1> QED BY <1>6

LEMMA BoundedRecursion ==
  ASSUME NEW V, NEW c \in V, NEW m \in Nat, NEW step \in [0 .. m - 1 -> [V -> V]]
  PROVE  \E f : IsUpto(f, m, V, c, step)
<1> DEFINE all == [n \in Nat |-> IF n < m THEN step[n] ELSE [v \in V |-> v]]
<1>1. all \in [Nat -> [V -> V]]
  BY DEF all
<1>2. ASSUME NEW n \in 0 .. m - 1 PROVE all[n] = step[n]
  OBVIOUS
<1> HIDE DEF all
<1> DEFINE S == {n \in Nat : \E g : IsUpto(g, n, V, c, all)}
<1>3. 0 \in S
  <2>1. IsUpto([i \in 0 .. 0 |-> c], 0, V, c, all)
    BY DEF IsUpto
  <2> QED BY <2>1
<1>4. ASSUME NEW n \in Nat, n \in S PROVE n + 1 \in S
  BY <1>1, <1>4, UptoStep
<1> HIDE DEF S
<1>5. m \in S
  BY <1>3, <1>4, Induction
<1>6. PICK f : IsUpto(f, m, V, c, all)
  BY <1>5 DEF S
<1>7. IsUpto(f, m, V, c, step)
  BY <1>2, <1>6 DEF IsUpto
<1> QED BY <1>7

(* Induction up to a bound.                                                *)
LEMMA BoundedInduction ==
  ASSUME NEW S, NEW m \in Nat, 0 \in S, \A k \in 0 .. m - 1 : k \in S => k + 1 \in S
  PROVE  \A k \in 0 .. m : k \in S
<1> DEFINE T == {k \in Nat : k <= m => k \in S}
<1>1. 0 \in T
  OBVIOUS
<1>2. ASSUME NEW k \in Nat, k \in T PROVE k + 1 \in T
  BY <1>2
<1> HIDE DEF T
<1>3. \A k \in Nat : k \in T
  BY <1>1, <1>2, Induction
<1> QED BY <1>3 DEF T

(* What the recursion of TwoTo computes.                                   *)
Bound == IntBits + GroupBits

LEMMA TwoToIs ==
  /\ Bound \in Nat /\ \A k \in 0 .. Bound : TwoTo[k] \in Nat
  /\ TwoTo[0] = 1
  /\ \A k \in 0 .. Bound - 1 : TwoTo[k + 1] = 2 * TwoTo[k]
<1> DEFINE step == [k \in 0 .. Bound - 1 |-> [v \in Nat |-> 2 * v]]
<1>1. Bound \in Nat
  BY WireWidths DEF Bound
<1>2. step \in [0 .. Bound - 1 -> [Nat -> Nat]] /\ 1 \in Nat
  OBVIOUS
<1>3. PICK h : IsUpto(h, Bound, Nat, 1, step)
  <2> HIDE DEF step
  <2> QED BY <1>1, <1>2, BoundedRecursion
<1>4. h = [k \in 0 .. Bound |-> IF k = 0 THEN 1 ELSE 2 * h[k - 1]]
  <2>1. /\ h \in [0 .. Bound -> Nat] /\ h[0] = 1
        /\ \A k \in 0 .. Bound - 1 : h[k + 1] = step[k][h[k]]
    BY <1>3 DEF IsUpto
  <2>2. ASSUME NEW k \in 0 .. Bound, k # 0 PROVE h[k] = 2 * h[k - 1]
    <3>1. k - 1 \in 0 .. Bound - 1 /\ k - 1 \in 0 .. Bound /\ k = (k - 1) + 1
      BY <1>1, <2>2
    <3> QED BY <2>1, <3>1
  <2> QED BY <2>1, <2>2
<1>5. TwoTo = [k \in 0 .. Bound |-> IF k = 0 THEN 1 ELSE 2 * TwoTo[k - 1]]
  BY <1>4 DEF TwoTo, Bound
<1>6. TwoTo[0] = 1
  BY <1>1, <1>5
<1>7. ASSUME NEW k \in 0 .. Bound - 1 PROVE TwoTo[k + 1] = 2 * TwoTo[k]
  <2>1. k + 1 \in 0 .. Bound /\ k + 1 # 0 /\ (k + 1) - 1 = k
    BY <1>1
  <2> QED BY <1>5, <2>1
<1>8. \A k \in 0 .. Bound : TwoTo[k] \in Nat
  <2> DEFINE S == {k \in 0 .. Bound : TwoTo[k] \in Nat}
  <2>1. 0 \in S /\ \A k \in 0 .. Bound - 1 : k \in S => k + 1 \in S
    BY <1>1, <1>6, <1>7
  <2> HIDE DEF S
  <2>2. \A k \in 0 .. Bound : k \in S
    BY <1>1, <2>1, BoundedInduction
  <2> QED BY <2>2 DEF S
<1> QED BY <1>1, <1>6, <1>7, <1>8

(* Powers of two are positive, grow, and multiply as they should.          *)
LEMMA TwoToGrows ==
  /\ \A k \in 0 .. Bound : TwoTo[k] \in Nat \ {0}
  /\ \A a \in 0 .. Bound : \A b \in 0 .. Bound - a : TwoTo[a + b] = TwoTo[a] * TwoTo[b]
  /\ \A a, b \in 0 .. Bound : a <= b => TwoTo[a] <= TwoTo[b]
<1>1. \A k \in 0 .. Bound : TwoTo[k] \in Nat \ {0}
  <2> DEFINE S == {k \in 0 .. Bound : TwoTo[k] # 0}
  <2>1. 0 \in S /\ \A k \in 0 .. Bound - 1 : k \in S => k + 1 \in S
    BY TwoToIs
  <2> HIDE DEF S
  <2>2. \A k \in 0 .. Bound : k \in S
    BY TwoToIs, <2>1, BoundedInduction
  <2> QED BY <2>2, TwoToIs DEF S
<1>2. ASSUME NEW a \in 0 .. Bound
      PROVE  \A b \in 0 .. Bound - a : TwoTo[a + b] = TwoTo[a] * TwoTo[b]
  <2> DEFINE m == Bound - a
             S == {b \in 0 .. m : TwoTo[a + b] = TwoTo[a] * TwoTo[b]}
  <2>0. m \in Nat /\ \A b \in 0 .. m : a + b \in 0 .. Bound /\ b \in 0 .. Bound
    BY TwoToIs
  <2>1. 0 \in S
    BY <2>0, TwoToIs
  <2>2. ASSUME NEW b \in 0 .. m - 1, b \in S PROVE b + 1 \in S
    <3>1. a + b \in 0 .. Bound - 1 /\ b \in 0 .. Bound - 1 /\ a + (b + 1) = (a + b) + 1 /\ b + 1 \in 0 .. m
      BY <2>0, TwoToIs
    <3>2. TwoTo[a + (b + 1)] = 2 * TwoTo[a + b] /\ TwoTo[b + 1] = 2 * TwoTo[b]
      BY <3>1, TwoToIs
    <3>3. TwoTo[a + b] = TwoTo[a] * TwoTo[b]
      BY <2>2
    <3>4. PICK x \in Nat, y \in Nat : x = TwoTo[a] /\ y = TwoTo[b]
      BY <2>0, TwoToIs
    <3>5. 2 * (x * y) = x * (2 * y)
      OBVIOUS
    <3> QED BY <3>1, <3>2, <3>3, <3>4, <3>5
  <2> HIDE DEF S, m
  <2>3. \A b \in 0 .. m : b \in S
    BY <2>0, <2>1, <2>2, BoundedInduction
  <2> QED BY <2>3 DEF S, m
<1>3. ASSUME NEW a \in 0 .. Bound, NEW b \in 0 .. Bound, a <= b PROVE TwoTo[a] <= TwoTo[b]
  <2>1. b - a \in 0 .. Bound - a /\ a + (b - a) = b /\ b - a \in 0 .. Bound
    BY TwoToIs, <1>3
  <2>2. TwoTo[b] = TwoTo[a] * TwoTo[b - a]
    BY <1>2, <2>1
  <2>3. PICK x \in Nat, y \in Nat : x = TwoTo[a] /\ y = TwoTo[b - a] /\ y >= 1
    BY <1>1, <2>1
  <2>4. x * y >= x * 1
    BY <2>3
  <2> QED BY <2>2, <2>3, <2>4
<1> QED BY <1>1, <1>2, <1>3

(* The groups of an integer (wire.rs:48-49): each counts Continues times   *)
(* what the one before it does, and together they reach past the integer.  *)
LEMMA ShiftIs ==
  /\ MaxGroups \in Nat \ {0} /\ Continues \in Nat /\ Continues >= 2
  /\ \A i \in 1 .. MaxGroups + 1 : Shift(i) \in Nat \ {0}
  /\ Shift(1) = 1
  /\ \A i \in 1 .. MaxGroups : Shift(i + 1) = Continues * Shift(i)
  /\ TwoTo[IntBits] \in Nat \ {0} /\ TwoTo[IntBits] <= Shift(MaxGroups + 1)
  /\ TwoTo[TypeBits] \in Nat /\ TwoTo[TypeBits] > 2 /\ 2 * TwoTo[TypeBits] <= TwoTo[IntBits]
<1> DEFINE q == (IntBits - 1) \div GroupBits
<1>1. /\ GroupBits \in Nat /\ GroupBits > 0 /\ IntBits \in Nat /\ IntBits > 0
      /\ TypeBits \in Nat /\ TypeBits >= 2 /\ TypeBits + 1 <= IntBits
  BY WireWidths
<1>2. q \in Nat /\ GroupBits * q <= IntBits - 1 /\ IntBits - 1 < GroupBits * q + GroupBits
  BY <1>1
<1>3. MaxGroups = q + 1
  BY DEF MaxGroups
<1> HIDE DEF q
<1>4. GroupBits * MaxGroups = GroupBits * q + GroupBits
  BY <1>1, <1>2, <1>3
<1>5. /\ GroupBits * MaxGroups \in 0 .. Bound /\ IntBits <= GroupBits * MaxGroups
      /\ Bound = IntBits + GroupBits /\ IntBits \in 0 .. Bound
  BY <1>1, <1>2, <1>4 DEF Bound
<1>6. ASSUME NEW i \in 0 .. MaxGroups
      PROVE  GroupBits * i \in 0 .. Bound /\ i \in Nat
  <2>1. i \in Nat /\ i <= MaxGroups /\ MaxGroups \in Nat
    BY <1>2, <1>3
  <2>2. 0 <= GroupBits * i /\ GroupBits * i <= GroupBits * MaxGroups /\ GroupBits * i \in Nat
    BY <1>1, <2>1
  <2> QED BY <1>5, <2>1, <2>2
<1>7. ASSUME NEW i \in 1 .. MaxGroups + 1 PROVE Shift(i) \in Nat \ {0}
  <2>1. i - 1 \in 0 .. MaxGroups
    BY <1>2, <1>3
  <2> QED BY <1>6, <2>1, TwoToGrows DEF Shift
<1>8. Shift(1) = 1
  <2>1. GroupBits * (1 - 1) = 0
    BY <1>1
  <2> QED BY <2>1, TwoToIs DEF Shift
<1>9. Continues \in Nat /\ Continues >= 2
  <2>1. GroupBits \in 0 .. Bound /\ 1 \in 0 .. Bound /\ 0 \in 0 .. Bound - 1
    BY <1>1, <1>5
  <2>2. TwoTo[1] = 2
    BY <2>1, TwoToIs
  <2>3. TwoTo[1] <= TwoTo[GroupBits]
    BY <1>1, <2>1, TwoToGrows
  <2> QED BY <2>1, <2>2, <2>3, TwoToIs DEF Continues
<1>10. ASSUME NEW i \in 1 .. MaxGroups PROVE Shift(i + 1) = Continues * Shift(i)
  <2>1. i - 1 \in 0 .. MaxGroups /\ i \in 0 .. MaxGroups /\ i \in Nat /\ (i + 1) - 1 = i
    BY <1>2, <1>3
  <2> DEFINE a == GroupBits * (i - 1)
  <2>2. GroupBits * i = GroupBits * (i - 1) + GroupBits
    BY <1>1, <2>1
  <2>3. a \in 0 .. Bound /\ GroupBits * i \in 0 .. Bound
    BY <1>6, <2>1
  <2>4. GroupBits * i = GroupBits + a
    BY <2>2, <2>3, <1>1
  <2> HIDE DEF a
  <2>5. GroupBits \in 0 .. Bound /\ a \in 0 .. Bound - GroupBits
    BY <1>1, <1>5, <2>3, <2>4
  <2>6. TwoTo[GroupBits * i] = TwoTo[GroupBits] * TwoTo[a]
    BY <2>4, <2>5, TwoToGrows
  <2> QED BY <2>1, <2>6 DEF Shift, Continues, a
<1>11. TwoTo[IntBits] \in Nat \ {0} /\ TwoTo[IntBits] <= Shift(MaxGroups + 1)
  <2>1. (MaxGroups + 1) - 1 = MaxGroups
    BY <1>2, <1>3
  <2> QED BY <1>5, <2>1, TwoToGrows DEF Shift
<1>12. TwoTo[TypeBits] \in Nat /\ TwoTo[TypeBits] > 2 /\ 2 * TwoTo[TypeBits] <= TwoTo[IntBits]
  <2>1. TypeBits \in 0 .. Bound - 1 /\ TypeBits + 1 \in 0 .. Bound /\ TypeBits \in 0 .. Bound
        /\ 2 \in 0 .. Bound /\ 0 \in 0 .. Bound - 1 /\ 1 \in 0 .. Bound - 1
    BY <1>1, <1>5
  <2>2. TwoTo[0 + 1] = 2 * TwoTo[0] /\ TwoTo[1 + 1] = 2 * TwoTo[1]
    BY <2>1, TwoToIs
  <2>3. TwoTo[2] <= TwoTo[TypeBits] /\ TwoTo[TypeBits + 1] <= TwoTo[IntBits]
    BY <1>1, <1>5, <2>1, TwoToGrows
  <2>4. TwoTo[TypeBits + 1] = 2 * TwoTo[TypeBits]
    BY <2>1, TwoToIs
  <2> QED BY <1>5, <2>1, <2>2, <2>3, <2>4, TwoToIs
<1> QED BY <1>2, <1>3, <1>7, <1>8, <1>9, <1>10, <1>11, <1>12

(* What Combined adds up, group by group (wire.rs:43).                     *)
IsSum(sum, bytes, offset, n) ==
  /\ \A i \in 0 .. n : sum[i] \in Nat
  /\ sum[0] = 0
  /\ \A i \in 0 .. n - 1 :
       sum[i + 1] = sum[i] + (bytes[offset + (i + 1)] % Continues) * Shift(i + 1)

LEMMA CombinedIs ==
  ASSUME NEW bytes \in Seq(Byte), NEW offset \in Nat, NEW n \in 1 .. MaxGroups,
         offset + n <= Len(bytes)
  PROVE  \E sum : IsSum(sum, bytes, offset, n) /\ Combined(bytes, offset, n) = sum[n]
<1> DEFINE term(i) == (bytes[offset + i] % Continues) * Shift(i)
           step == [k \in 0 .. n - 1 |-> [v \in Nat |-> v + term(k + 1)]]
           form(f, i) == IF i = 0 THEN 0 ELSE f[i - 1] + term(i)
           total == CHOOSE f : f = [i \in 0 .. n |-> form(f, i)]
<1>0. n \in Nat /\ 0 \in Nat /\ MaxGroups \in Nat
  BY ShiftIs
<1>1. ASSUME NEW k \in 0 .. n - 1 PROVE term(k + 1) \in Nat
  <2>1. k + 1 \in 1 .. MaxGroups + 1 /\ offset + (k + 1) \in 1 .. Len(bytes)
    BY <1>0
  <2>a. bytes[offset + (k + 1)] \in Byte
    BY <2>1
  <2>2. PICK x \in Nat, c \in Nat \ {0} : x = bytes[offset + (k + 1)] /\ c = Continues
    BY <2>a, ShiftIs DEF Byte
  <2>b. x % c \in Nat
    OBVIOUS
  <2>3. PICK a \in Nat, b \in Nat : a = bytes[offset + (k + 1)] % Continues /\ b = Shift(k + 1)
    BY <2>1, <2>2, <2>b, ShiftIs
  <2>4. a * b \in Nat
    OBVIOUS
  <2> QED BY <2>3, <2>4
<1> HIDE DEF term
<1>2. step \in [0 .. n - 1 -> [Nat -> Nat]]
  BY <1>1
<1>3. PICK h : IsUpto(h, n, Nat, 0, step)
  <2> HIDE DEF step
  <2> QED BY <1>0, <1>2, BoundedRecursion
<1>4. /\ h \in [0 .. n -> Nat] /\ h[0] = 0
      /\ \A k \in 0 .. n - 1 : h[k + 1] = step[k][h[k]]
  BY <1>3 DEF IsUpto
<1>5. h = [i \in 0 .. n |-> form(h, i)]
  <2>1. ASSUME NEW i \in 0 .. n, i # 0 PROVE h[i] = h[i - 1] + term(i)
    <3>1. i - 1 \in 0 .. n - 1 /\ i - 1 \in 0 .. n /\ i = (i - 1) + 1
      BY <1>0, <2>1
    <3> QED BY <1>4, <3>1
  <2> QED BY <1>4, <2>1
<1> HIDE DEF form
<1>6. total = [i \in 0 .. n |-> form(total, i)]
  BY <1>5
<1>7. Combined(bytes, offset, n) = total[n]
  BY DEF Combined, total, form, term
<1> HIDE DEF total
<1>8. total[0] = 0
  BY <1>0, <1>6 DEF form
<1>9. ASSUME NEW i \in 0 .. n - 1 PROVE total[i + 1] = total[i] + term(i + 1)
  <2>1. i + 1 \in 0 .. n /\ i + 1 # 0 /\ (i + 1) - 1 = i
    BY <1>0
  <2> QED BY <1>6, <2>1 DEF form
<1>10. \A i \in 0 .. n : total[i] \in Nat
  <2> DEFINE S == {i \in 0 .. n : total[i] \in Nat}
  <2>1. 0 \in S
    BY <1>0, <1>8
  <2>2. ASSUME NEW k \in 0 .. n - 1, k \in S PROVE k + 1 \in S
    <3>1. k + 1 \in 0 .. n /\ total[k] \in Nat
      BY <1>0, <2>2
    <3> QED BY <1>1, <1>9, <3>1
  <2> HIDE DEF S
  <2>3. \A k \in 0 .. n : k \in S
    BY <1>0, <2>1, <2>2, BoundedInduction
  <2> QED BY <2>3 DEF S
<1>11. IsSum(total, bytes, offset, n)
  BY <1>8, <1>9, <1>10 DEF IsSum, term
<1> QED BY <1>7, <1>11

(* A digit more of a number written in groups.                             *)
LEMMA OneGroupMore ==
  ASSUME NEW v \in Nat, NEW s \in Nat \ {0}, NEW c \in Nat \ {0}
  PROVE  /\ (v \div s) % c \in Nat /\ v % s \in Nat
         /\ v % (c * s) = (v % s) + ((v \div s) % c) * s
<1> DEFINE q == v \div s
           r == v % s
           p == q \div c
           d == q % c
<1>1. q \in Nat /\ r \in 0 .. s - 1 /\ v = s * q + r
  OBVIOUS
<1> HIDE DEF q, r
<1>2. p \in Nat /\ d \in 0 .. c - 1 /\ q = c * p + d
  BY <1>1
<1> HIDE DEF p, d
<1>3. v = (c * s) * p + (d * s + r)
  BY <1>1, <1>2
<1>4. d * s + r \in 0 .. c * s - 1
  <2>1. (d + 1) * s <= c * s
    BY <1>2
  <2>2. (d + 1) * s = d * s + s /\ d * s \in Nat /\ c * s \in Nat
    BY <1>2
  <2> QED BY <1>1, <2>1, <2>2
<1> DEFINE M == c * s
           R == d * s + r
<1>5. M \in Nat /\ M > 0 /\ v = M * p + R /\ R \in 0 .. M - 1
  BY <1>3, <1>4
<1> HIDE DEF M, R
<1>6. v % M = R
  BY <1>2, <1>5
<1>7. R = r + d * s
  BY <1>1, <1>2 DEF R
<1> QED BY <1>1, <1>2, <1>6, <1>7 DEF M, q, r, d

(* The groups of a varint: all but the last say that another follows.      *)
LEMMA EncodeIs ==
  ASSUME NEW v \in Nat, NEW n \in 1 .. MaxGroups
  PROVE  /\ Encode(v, n) \in Seq(Byte) /\ Len(Encode(v, n)) = n
         /\ \A i \in 1 .. n : /\ Encode(v, n)[i] \in Byte
                              /\ Encode(v, n)[i] % Continues = (v \div Shift(i)) % Continues
                              /\ Encode(v, n)[i] < Continues <=> i = n
<1>0. n \in Nat /\ MaxGroups \in Nat /\ Continues \in Nat /\ Continues >= 2
  BY ShiftIs
<1>1. ASSUME NEW i \in 1 .. n
      PROVE  /\ Encode(v, n)[i] \in Byte
             /\ Encode(v, n)[i] % Continues = (v \div Shift(i)) % Continues
             /\ Encode(v, n)[i] < Continues <=> i = n
  <2>1. i \in 1 .. MaxGroups + 1
    BY <1>0
  <2>2. PICK s \in Nat \ {0} : s = Shift(i)
    BY <2>1, ShiftIs
  <2>3. PICK c \in Nat \ {0} : c = Continues /\ c >= 2
    BY <1>0
  <2>4. PICK d \in 0 .. c - 1 : d = (v \div s) % c
    <3>1. v \div s \in Nat
      OBVIOUS
    <3> QED BY <3>1
  <2>5. d % c = d /\ (d + c) % c = d
    BY <2>4
  <2>6. Encode(v, n)[i] = d + (IF i < n THEN c ELSE 0)
    BY <2>2, <2>3, <2>4 DEF Encode
  <2>7. i < n \/ i = n
    BY <1>0
  <2> QED BY <2>2, <2>3, <2>4, <2>5, <2>6, <2>7 DEF Byte
<1>2. Encode(v, n) \in [1 .. n -> Byte]
  BY <1>1 DEF Encode
<1> QED BY <1>0, <1>1, <1>2

(* Bytes that hold a sequence after an offset, as far as they go.          *)
StartsAt(bytes, offset, part) ==
  \A i \in 1 .. Len(part) : offset + i <= Len(bytes) => bytes[offset + i] = part[i]

(* The groups of a number that they have room for add up to it.            *)
LEMMA CombinedDecodes ==
  ASSUME NEW bytes \in Seq(Byte), NEW offset \in Nat, NEW v \in Nat, NEW n \in 1 .. MaxGroups,
         v < Shift(n + 1), offset + n <= Len(bytes), StartsAt(bytes, offset, Encode(v, n))
  PROVE  Combined(bytes, offset, n) = v
<1>0. n \in Nat /\ n >= 1 /\ n <= MaxGroups /\ MaxGroups \in Nat /\ Continues \in Nat \ {0}
  BY ShiftIs
<1>1. PICK sum : IsSum(sum, bytes, offset, n) /\ Combined(bytes, offset, n) = sum[n]
  BY CombinedIs
<1> DEFINE S == {i \in 0 .. n : sum[i] = v % Shift(i + 1)}
<1>2. 0 \in S
  <2>1. v % 1 = 0 /\ 0 + 1 = 1 /\ 0 \in 0 .. n
    BY <1>0
  <2> QED BY <1>1, <2>1, ShiftIs DEF IsSum
<1>3. ASSUME NEW i \in 0 .. n - 1, i \in S PROVE i + 1 \in S
  <2>1. i + 1 \in 1 .. n /\ i + 1 \in 0 .. n /\ i + 1 \in 1 .. MaxGroups + 1 /\ i + 1 \in 1 .. MaxGroups
    BY <1>0
  <2>2. bytes[offset + (i + 1)] % Continues = (v \div Shift(i + 1)) % Continues
    <3>1. offset + (i + 1) <= Len(bytes) /\ Len(Encode(v, n)) = n
      BY <1>0, <2>1, EncodeIs
    <3>2. bytes[offset + (i + 1)] = Encode(v, n)[i + 1]
      BY <2>1, <3>1 DEF StartsAt
    <3> QED BY <2>1, <3>2, EncodeIs
  <2>3. PICK s \in Nat \ {0} : s = Shift(i + 1) /\ Shift((i + 1) + 1) = Continues * s
    BY <2>1, ShiftIs
  <2>4. sum[i + 1] = sum[i] + (bytes[offset + (i + 1)] % Continues) * s
    BY <1>1, <2>3 DEF IsSum
  <2>5. v % (Continues * s) = (v % s) + ((v \div s) % Continues) * s
    BY <1>0, OneGroupMore
  <2>6. sum[i] = v % s
    BY <1>3, <2>3
  <2>7. sum[i + 1] = v % Shift((i + 1) + 1)
    BY <2>2, <2>3, <2>4, <2>5, <2>6
  <2> QED BY <2>1, <2>7
<1> HIDE DEF S
<1>4. \A i \in 0 .. n : i \in S
  BY <1>0, <1>2, <1>3, BoundedInduction
<1>5. sum[n] = v % Shift(n + 1)
  BY <1>0, <1>4 DEF S
<1>6. PICK t \in Nat \ {0} : t = Shift(n + 1)
  <2>1. n + 1 \in 1 .. MaxGroups + 1
    BY <1>0
  <2> QED BY <2>1, ShiftIs
<1>7. v % t = v
  BY <1>6
<1> QED BY <1>1, <1>5, <1>6, <1>7

(* A varint has one length, if any (wire.rs:40-51).                        *)
LEMMA GroupsAreOne ==
  ASSUME NEW bytes \in Seq(Byte), NEW offset \in Nat,
         NEW m \in Groups(bytes, offset), NEW n \in Groups(bytes, offset)
  PROVE  m = n
<1>0. MaxGroups \in Nat /\ Continues \in Nat
  BY ShiftIs
<1>1. /\ m \in Nat /\ 1 <= m /\ offset + m <= Len(bytes) /\ bytes[offset + m] < Continues
      /\ \A i \in 1 .. m - 1 : bytes[offset + i] >= Continues
  BY <1>0 DEF Groups
<1>2. /\ n \in Nat /\ 1 <= n /\ offset + n <= Len(bytes) /\ bytes[offset + n] < Continues
      /\ \A i \in 1 .. n - 1 : bytes[offset + i] >= Continues
  BY <1>0 DEF Groups
<1>3. \A i \in Nat : 1 <= i /\ offset + i <= Len(bytes) => bytes[offset + i] \in Nat
  <2> TAKE i \in Nat
  <2>1. 1 <= i /\ offset + i <= Len(bytes) => offset + i \in 1 .. Len(bytes)
    OBVIOUS
  <2> QED BY <2>1, <1>0 DEF Byte
<1>4. ~ m < n
  <2> SUFFICES ASSUME m < n PROVE FALSE
    OBVIOUS
  <2>1. m \in 1 .. n - 1
    BY <1>1, <1>2
  <2>2. bytes[offset + m] >= Continues
    BY <1>2, <2>1
  <2>3. bytes[offset + m] \in Nat
    BY <1>1, <1>3
  <2> QED BY <1>0, <1>1, <2>2, <2>3
<1>5. ~ n < m
  <2> SUFFICES ASSUME n < m PROVE FALSE
    OBVIOUS
  <2>1. n \in 1 .. m - 1
    BY <1>1, <1>2
  <2>2. bytes[offset + n] >= Continues
    BY <1>1, <2>1
  <2>3. bytes[offset + n] \in Nat
    BY <1>2, <1>3
  <2> QED BY <1>0, <1>2, <2>2, <2>3
<1> QED BY <1>1, <1>2, <1>4, <1>5

(* A varint is read as it was written, cut down to an integer; and not at  *)
(* all when it is cut off (read_varint, wire.rs:36-53).                    *)
LEMMA ReadEncoded ==
  ASSUME NEW bytes \in Seq(Byte), NEW offset \in Nat, NEW v \in Nat, NEW n \in 1 .. MaxGroups,
         v < Shift(n + 1), StartsAt(bytes, offset, Encode(v, n))
  PROVE  read_varint(bytes, offset) =
           IF offset + n <= Len(bytes)
           THEN {[next |-> offset + n, value |-> v % TwoTo[IntBits]]} ELSE {}
<1>0. /\ n \in Nat /\ n >= 1 /\ n <= MaxGroups /\ MaxGroups \in Nat /\ Continues \in Nat
      /\ Len(Encode(v, n)) = n
  BY ShiftIs, EncodeIs
<1>1. ASSUME NEW i \in 1 .. n, offset + i <= Len(bytes)
      PROVE  /\ bytes[offset + i] \in Nat
             /\ bytes[offset + i] < Continues <=> i = n
  <2>1. bytes[offset + i] = Encode(v, n)[i]
    BY <1>0, <1>1 DEF StartsAt
  <2>2. Encode(v, n)[i] \in Byte /\ (Encode(v, n)[i] < Continues <=> i = n)
    BY EncodeIs
  <2> QED BY <1>0, <2>1, <2>2 DEF Byte
<1>2. ASSUME offset + n <= Len(bytes) PROVE n \in Groups(bytes, offset)
  <2>1. bytes[offset + n] < Continues
    BY <1>0, <1>1, <1>2
  <2>2. ASSUME NEW i \in 1 .. n - 1 PROVE bytes[offset + i] >= Continues
    <3>1. i \in 1 .. n /\ i # n /\ offset + i <= Len(bytes)
      BY <1>0, <1>2
    <3>2. bytes[offset + i] \in Nat /\ ~ (bytes[offset + i] < Continues)
      BY <1>1, <3>1
    <3> QED BY <1>0, <3>2
  <2> QED BY <1>2, <2>1, <2>2 DEF Groups
<1>3. ASSUME NEW j \in Groups(bytes, offset) PROVE offset + n <= Len(bytes)
  <2> SUFFICES ASSUME Len(bytes) < offset + n PROVE FALSE
    BY <1>0
  <2>1. j \in Nat /\ 1 <= j /\ offset + j <= Len(bytes) /\ bytes[offset + j] < Continues
    BY <1>0 DEF Groups
  <2>2. j \in 1 .. n /\ j # n
    BY <1>0, <2>1
  <2> QED BY <1>1, <2>1, <2>2
<1>4. CASE offset + n <= Len(bytes)
  <2>1. Groups(bytes, offset) = {n}
    BY <1>2, <1>4, GroupsAreOne
  <2>2. Combined(bytes, offset, n) = v
    BY <1>4, CombinedDecodes
  <2> QED BY <1>4, <2>1, <2>2 DEF read_varint
<1>5. CASE ~ (offset + n <= Len(bytes))
  <2>1. Groups(bytes, offset) = {}
    BY <1>3, <1>5
  <2> QED BY <1>5, <2>1 DEF read_varint
<1> QED BY <1>4, <1>5

(* More groups reach further.                                              *)
LEMMA ShiftGrows ==
  ASSUME NEW a \in 1 .. MaxGroups + 1, NEW b \in 1 .. MaxGroups + 1, a <= b
  PROVE  Shift(a) <= Shift(b)
<1>0. MaxGroups \in Nat
  BY ShiftIs
<1> DEFINE S == {d \in 0 .. MaxGroups + 1 - a : Shift(a) <= Shift(a + d)}
<1>1. 0 \in S
  BY <1>0, ShiftIs
<1>2. ASSUME NEW d \in 0 .. (MaxGroups + 1 - a) - 1, d \in S PROVE d + 1 \in S
  <2>1. /\ a + d \in 1 .. MaxGroups /\ a + d \in 1 .. MaxGroups + 1
        /\ (a + d) + 1 = a + (d + 1) /\ d + 1 \in 0 .. MaxGroups + 1 - a
    BY <1>0
  <2>2. Shift((a + d) + 1) = Continues * Shift(a + d)
    BY <2>1, ShiftIs
  <2>3. PICK x \in Nat, y \in Nat : x = Shift(a + d) /\ y = Shift(a) /\ y <= x
    BY <1>2, <2>1, ShiftIs
  <2>4. PICK c \in Nat : c = Continues /\ c >= 2
    BY ShiftIs
  <2>5. c * x >= 1 * x
    BY <2>4
  <2> QED BY <2>1, <2>2, <2>3, <2>4, <2>5
<1> HIDE DEF S
<1>3. \A d \in 0 .. MaxGroups + 1 - a : d \in S
  BY <1>0, <1>1, <1>2, BoundedInduction
<1>4. b - a \in 0 .. MaxGroups + 1 - a /\ a + (b - a) = b
  BY <1>0
<1> QED BY <1>3, <1>4 DEF S

(* A varint of a number: some groups with room for it, or for one whose    *)
(* bits past the integer are lost.                                         *)
IsEncoding(enc, v) ==
  \E n \in 1 .. MaxGroups, u \in Nat :
    enc = Encode(u, n) /\ u < Shift(n + 1) /\ u % TwoTo[IntBits] = v

LEMMA ShortestIs ==
  ASSUME NEW v \in Nat, v < TwoTo[IntBits]
  PROVE  Shortest(v) \in 1 .. MaxGroups /\ v < Shift(Shortest(v) + 1)
<1>0. /\ MaxGroups \in Nat /\ MaxGroups >= 1 /\ TwoTo[IntBits] \in Nat
      /\ Shift(MaxGroups + 1) \in Nat
      /\ TwoTo[IntBits] <= Shift(MaxGroups + 1)
  BY ShiftIs
<1> DEFINE T == {n \in 1 .. MaxGroups : v < Shift(n + 1)}
<1>1. MaxGroups \in T
  BY <1>0
<1>2. PICK n \in T : \A m \in T : ~ (m < n)
  <2>1. T \subseteq Nat /\ T # {}
    BY <1>1
  <2> HIDE DEF T
  <2> QED BY <2>1, LeastNumber
<1>3. n = 1 \/ v >= Shift(n)
  <2> SUFFICES ASSUME n # 1 PROVE v >= Shift(n)
    OBVIOUS
  <2>1. n - 1 \in 1 .. MaxGroups /\ (n - 1) + 1 = n /\ n - 1 < n
    BY <1>0
  <2>2. ~ (v < Shift(n))
    BY <1>2, <2>1
  <2>3. n \in 1 .. MaxGroups + 1
    BY <1>0
  <2>4. Shift(n) \in Nat
    BY <2>3, ShiftIs
  <2> QED BY <2>2, <2>4
<1> QED BY <1>2, <1>3 DEF Shortest

LEMMA EncodingsAre ==
  ASSUME NEW v \in Nat, v < TwoTo[IntBits], NEW form \in Forms, NEW enc \in Encodings(v)[form]
  PROVE  IsEncoding(enc, v)
<1>0. /\ MaxGroups \in Nat /\ MaxGroups >= 1 /\ TwoTo[IntBits] \in Nat \ {0}
  BY ShiftIs
<1>1. v % TwoTo[IntBits] = v
  BY <1>0
<1>2. CASE form = "plain"
  <2>1. enc = Encode(v, Shortest(v))
    BY <1>2 DEF Encodings
  <2> QED BY <1>1, <2>1, ShortestIs DEF IsEncoding
<1>3. CASE form = "padded"
  <2>1. PICK n \in (Shortest(v) + 1) .. MaxGroups : enc = Encode(v, n)
    BY <1>3 DEF Encodings
  <2>2. PICK m \in 1 .. MaxGroups : m = Shortest(v) /\ v < Shift(m + 1)
    BY ShortestIs
  <2>3. /\ n \in 1 .. MaxGroups
        /\ m + 1 \in 1 .. MaxGroups + 1 /\ n + 1 \in 1 .. MaxGroups + 1 /\ m + 1 <= n + 1
    BY <1>0, <2>2
  <2>4. Shift(m + 1) <= Shift(n + 1) /\ Shift(m + 1) \in Nat /\ Shift(n + 1) \in Nat
    BY <2>3, ShiftGrows, ShiftIs
  <2>5. v < Shift(n + 1)
    BY <2>2, <2>4
  <2> QED BY <1>1, <2>1, <2>3, <2>5 DEF IsEncoding
<1>4. CASE form = "spilled"
  <2>1. Spilled(v) < Shift(MaxGroups + 1) /\ enc = Encode(Spilled(v), MaxGroups)
    BY <1>4 DEF Encodings
  <2>2. PICK k \in Nat \ {0} : k = TwoTo[IntBits]
    BY <1>0
  <2>3. v + k \in Nat /\ (v + k) % k = v
    BY <2>2
  <2>4. Spilled(v) \in Nat /\ Spilled(v) % TwoTo[IntBits] = v
    BY <2>2, <2>3 DEF Spilled
  <2>5. MaxGroups \in 1 .. MaxGroups
    BY <1>0
  <2> QED BY <2>1, <2>4, <2>5 DEF IsEncoding
<1> QED BY <1>2, <1>3, <1>4 DEF Forms

LEMMA ReadVarint ==
  ASSUME NEW v, NEW enc, IsEncoding(enc, v)
  PROVE  /\ enc \in Seq(Byte) /\ Len(enc) \in Nat \ {0}
         /\ \A bytes \in Seq(Byte), offset \in Nat :
              StartsAt(bytes, offset, enc) =>
                read_varint(bytes, offset) =
                  IF offset + Len(enc) <= Len(bytes)
                  THEN {[next |-> offset + Len(enc), value |-> v]} ELSE {}
<1>1. PICK n \in 1 .. MaxGroups, u \in Nat :
        enc = Encode(u, n) /\ u < Shift(n + 1) /\ u % TwoTo[IntBits] = v
  BY DEF IsEncoding
<1>2. enc \in Seq(Byte) /\ Len(enc) = n /\ n \in Nat \ {0}
  BY <1>1, EncodeIs, ShiftIs
<1>3. ASSUME NEW bytes \in Seq(Byte), NEW offset \in Nat, StartsAt(bytes, offset, enc)
      PROVE  read_varint(bytes, offset) =
               IF offset + Len(enc) <= Len(bytes)
               THEN {[next |-> offset + Len(enc), value |-> v]} ELSE {}
  <2>1. read_varint(bytes, offset) =
          IF offset + n <= Len(bytes)
          THEN {[next |-> offset + n, value |-> u % TwoTo[IntBits]]} ELSE {}
    BY <1>1, <1>3, ReadEncoded
  <2> QED BY <1>1, <1>2, <2>1
<1> QED BY <1>2, <1>3

(* What two sequences one after the other start with.                      *)
LEMMA StartsAtBoth ==
  ASSUME NEW bytes \in Seq(Byte), NEW offset \in Nat, NEW a \in Seq(Byte), NEW b \in Seq(Byte),
         StartsAt(bytes, offset, a \o b)
  PROVE  StartsAt(bytes, offset, a) /\ StartsAt(bytes, offset + Len(a), b)
<1>1. Len(a \o b) = Len(a) + Len(b) /\ Len(a) \in Nat /\ Len(b) \in Nat
  OBVIOUS
<1>2. ASSUME NEW i \in 1 .. Len(a), offset + i <= Len(bytes) PROVE bytes[offset + i] = a[i]
  <2>1. i \in 1 .. Len(a \o b) /\ (a \o b)[i] = a[i]
    BY <1>1
  <2> QED BY <1>2, <2>1 DEF StartsAt
<1>3. ASSUME NEW i \in 1 .. Len(b), (offset + Len(a)) + i <= Len(bytes)
      PROVE  bytes[(offset + Len(a)) + i] = b[i]
  <2>1. Len(a) + i \in 1 .. Len(a \o b) /\ (a \o b)[Len(a) + i] = b[i]
    BY <1>1
  <2>2. offset + (Len(a) + i) = (offset + Len(a)) + i
    BY <1>1
  <2> QED BY <1>3, <2>1, <2>2 DEF StartsAt
<1> QED BY <1>2, <1>3 DEF StartsAt

(* A length and so many bytes (read_length_delimited, wire.rs:55-66).      *)
LEMMA ReadBody ==
  ASSUME NEW bytes \in Seq(Byte), NEW offset \in Nat, NEW len, NEW payload \in Seq(Byte),
         IsEncoding(len, Len(payload)), StartsAt(bytes, offset, len \o payload)
  PROVE  read_length_delimited(bytes, offset) =
           IF offset + Len(len \o payload) <= Len(bytes)
           THEN {[next |-> offset + Len(len \o payload), bytes |-> payload]} ELSE {}
<1>1. len \in Seq(Byte) /\ Len(len) \in Nat /\ Len(payload) \in Nat /\ Len(bytes) \in Nat
      /\ Len(len \o payload) = Len(len) + Len(payload)
  BY ReadVarint
<1>2. StartsAt(bytes, offset, len) /\ StartsAt(bytes, offset + Len(len), payload)
  BY <1>1, StartsAtBoth
<1> DEFINE at == offset + Len(len)
           n == Len(payload)
<1>3. at \in Nat /\ n \in Nat /\ offset + Len(len \o payload) = at + n
  BY <1>1
<1>4. read_varint(bytes, offset) = IF at <= Len(bytes) THEN {[next |-> at, value |-> n]} ELSE {}
  BY <1>2, ReadVarint
<1> HIDE DEF at, n
<1>5. CASE at + n <= Len(bytes)
  <2>1. read_varint(bytes, offset) = {[next |-> at, value |-> n]}
    BY <1>1, <1>3, <1>4, <1>5
  <2>2. SubSeq(bytes, at + 1, at + n) = payload
    <3>1. SubSeq(bytes, at + 1, at + n) \in Seq(Byte)
      BY <1>1, <1>3, <1>5
    <3>2. Len(SubSeq(bytes, at + 1, at + n)) = n
      BY <1>1, <1>3, <1>5
    <3>3. ASSUME NEW i \in 1 .. n PROVE SubSeq(bytes, at + 1, at + n)[i] = payload[i]
      <4>1. SubSeq(bytes, at + 1, at + n)[i] = bytes[at + i]
        BY <1>1, <1>3, <1>5
      <4>2. at + i <= Len(bytes)
        BY <1>1, <1>3, <1>5
      <4>3. StartsAt(bytes, at, payload) /\ i \in 1 .. Len(payload)
        BY <1>2 DEF at, n
      <4>4. bytes[at + i] = payload[i]
        BY <4>2, <4>3 DEF StartsAt
      <4> QED BY <4>1, <4>4
    <3> QED BY <3>1, <3>2, <3>3 DEF n
  <2>3. {l \in read_varint(bytes, offset) : l.next + l.value <= Len(bytes)} = {[next |-> at, value |-> n]}
    BY <1>5, <2>1
  <2> DEFINE r == [next |-> at, value |-> n]
  <2>4. read_length_delimited(bytes, offset) =
          {[next |-> r.next + r.value, bytes |-> SubSeq(bytes, r.next + 1, r.next + r.value)]}
    <3> HIDE DEF r
    <3>1. {l \in read_varint(bytes, offset) : l.next + l.value <= Len(bytes)} = {r}
      BY <2>3 DEF r
    <3> QED BY <3>1, Zenon DEF read_length_delimited
  <2>5. r.next = at /\ r.value = n
    OBVIOUS
  <2> HIDE DEF r
  <2> QED BY <1>3, <1>5, <2>2, <2>4, <2>5
<1>6. CASE ~ (at + n <= Len(bytes))
  <2>1. {l \in read_varint(bytes, offset) : l.next + l.value <= Len(bytes)} = {}
    BY <1>4, <1>6
  <2> QED BY <1>3, <1>6, <2>1 DEF read_length_delimited
<1> QED BY <1>5, <1>6

(* The bytes of a field: a tag, and a length and a payload, or one byte.   *)
IsField(part, number, type, payload) ==
  \E tag, len :
    /\ IsEncoding(tag, number * TwoTo[TypeBits] + type)
    /\ IF type = Delimited THEN IsEncoding(len, Len(payload)) /\ part = tag \o (len \o payload)
                           ELSE part = tag \o <<0>>

Written(number, type, payload) ==
  /\ number \in {1} \cup FieldNumbers \cup RareNumbers /\ type \in {0, Delimited}
  /\ payload \in Seq(Byte) /\ Len(payload) < TwoTo[IntBits]

LEMMA Quotients ==
  ASSUME NEW t \in Nat \ {0}, NEW m \in Nat, NEW r \in 0 .. t - 1, NEW n \in Nat, n = t * m + r
  PROVE  n % t = r /\ n \div t = m
<1>1. n \div t = m
  OBVIOUS
<1>2. n = t * (n \div t) + (n % t) /\ n % t \in Int
  OBVIOUS
<1>3. PICK a \in Int, b \in Int : a = t * m /\ b = n % t
  BY <1>2
<1>4. n = a + b /\ n = a + r
  BY <1>1, <1>2, <1>3
<1> QED BY <1>1, <1>3, <1>4

(* A tag holds its number and its type apart.                              *)
LEMMA TagIs ==
  ASSUME NEW number, NEW type, NEW payload, Written(number, type, payload)
  PROVE  LET tag == number * TwoTo[TypeBits] + type
         IN  /\ tag \in Nat /\ tag < TwoTo[IntBits]
             /\ tag % TwoTo[TypeBits] = type /\ tag \div TwoTo[TypeBits] = number
<1>1. PICK t \in Nat : t = TwoTo[TypeBits] /\ t > 2
  BY ShiftIs
<1>2. PICK k \in Nat : k = TwoTo[IntBits] /\ 2 * t <= k
  BY <1>1, ShiftIs
<1>3. number \in Nat /\ (number + 1) * t <= k
  <2>1. CASE number = 1
    BY <1>1, <1>2, <2>1
  <2>2. CASE number \in FieldNumbers \cup RareNumbers
    BY <1>1, <1>2, <2>2, WireConstants
  <2> QED BY <2>1, <2>2 DEF Written
<1>4. type \in Nat /\ type < t
  BY <1>1 DEF Written, Delimited
<1>a. PICK m \in Nat : m = number
  BY <1>3
<1> DEFINE tag == m * t + type
<1>5. m * t \in Nat /\ (m + 1) * t = m * t + t
  OBVIOUS
<1>6. tag \in Nat /\ tag < k
  BY <1>1, <1>2, <1>3, <1>4, <1>5, <1>a
<1>7. tag = t * m + type /\ type \in 0 .. t - 1
  BY <1>1, <1>4
<1> HIDE DEF tag
<1>8. tag % t = type /\ tag \div t = m
  BY <1>1, <1>6, <1>7, Quotients
<1> QED BY <1>1, <1>2, <1>6, <1>8, <1>a DEF tag

LEMMA FieldIs ==
  ASSUME NEW number, NEW type, NEW payload, Written(number, type, payload),
         NEW field \in Field(number, type, payload)
  PROVE  IsField(field.bytes, number, type, payload)
<1> DEFINE value == number * TwoTo[TypeBits] + type
           Rests(forms) == IF type # Delimited THEN {<<0>>}
                           ELSE {len \o payload : len \in Encodings(Len(payload))[forms[2]]}
<1>1. PICK forms \in Forms \X Forms :
        \E tag \in Encodings(value)[forms[1]], rest \in Rests(forms) : field.bytes = tag \o rest
  <2> DEFINE Ways(forms) ==
        {[odd |-> Oddities(number, type, forms), bytes |-> tag \o rest]
         : tag \in Encodings(value)[forms[1]], rest \in Rests(forms)}
  <2>1. Field(number, type, payload) = UNION {Ways(forms) : forms \in Forms \X Forms}
    BY DEF Field
  <2>2. ASSUME NEW forms, field \in Ways(forms)
        PROVE  \E tag \in Encodings(value)[forms[1]], rest \in Rests(forms) : field.bytes = tag \o rest
    <3> HIDE DEF value, Rests
    <3> QED BY <2>2
  <2> HIDE DEF Ways, Rests, value
  <2> QED BY <2>1, <2>2
<1>2. PICK tag \in Encodings(value)[forms[1]], rest \in Rests(forms) : field.bytes = tag \o rest
  BY <1>1
<1>3. forms[1] \in Forms /\ forms[2] \in Forms
  OBVIOUS
<1>4. IsEncoding(tag, value)
  <2>1. value \in Nat /\ value < TwoTo[IntBits]
    BY TagIs
  <2> HIDE DEF value
  <2> QED BY <1>2, <1>3, <2>1, EncodingsAre
<1> HIDE DEF value
<1>5. CASE type # Delimited
  BY <1>2, <1>4, <1>5 DEF IsField, value
<1>6. CASE type = Delimited
  <2>1. PICK len \in Encodings(Len(payload))[forms[2]] : rest = len \o payload
    BY <1>2, <1>6
  <2>2. IsEncoding(len, Len(payload))
    <3>1. Len(payload) \in Nat /\ Len(payload) < TwoTo[IntBits]
      BY DEF Written
    <3> QED BY <1>3, <2>1, <3>1, EncodingsAre
  <2> QED BY <1>2, <1>4, <1>6, <2>1, <2>2 DEF IsField, value
<1> QED BY <1>5, <1>6

LEMMA FieldBytes ==
  ASSUME NEW part, NEW number, NEW type, NEW payload, Written(number, type, payload),
         IsField(part, number, type, payload)
  PROVE  part \in Seq(Byte) /\ Len(part) \in Nat \ {0}
<1>1. PICK tag, len :
        /\ IsEncoding(tag, number * TwoTo[TypeBits] + type)
        /\ IF type = Delimited THEN IsEncoding(len, Len(payload)) /\ part = tag \o (len \o payload)
                               ELSE part = tag \o <<0>>
  BY DEF IsField
<1>2. tag \in Seq(Byte) /\ Len(tag) \in Nat \ {0}
  BY <1>1, ReadVarint
<1>3. PICK rest \in Seq(Byte) : part = tag \o rest
  <2>1. CASE type = Delimited
    <3>1. len \in Seq(Byte) /\ payload \in Seq(Byte)
      BY <1>1, <2>1, ReadVarint DEF Written
    <3>2. len \o payload \in Seq(Byte)
      BY <3>1
    <3> QED BY <1>1, <2>1, <3>2
  <2>2. CASE type # Delimited
    <3>1. 0 \in Byte
      BY ShiftIs DEF Byte
    <3>2. <<0>> \in Seq(Byte)
      BY <3>1
    <3> QED BY <1>1, <2>2, <3>2
  <2> QED BY <2>1, <2>2
<1>4. part \in Seq(Byte) /\ Len(part) = Len(tag) + Len(rest) /\ Len(rest) \in Nat
  BY <1>2, <1>3
<1> QED BY <1>2, <1>4

(* A field is read as it was written, and not at all when it is of another *)
(* type or is cut off (one turn of either loop, wire.rs:74-82).            *)
LEMMA ReadField ==
  ASSUME NEW bytes \in Seq(Byte), NEW offset \in Nat, NEW part,
         NEW number, NEW type, NEW payload, Written(number, type, payload),
         IsField(part, number, type, payload), StartsAt(bytes, offset, part)
  PROVE  ScannedField(bytes, offset) =
           IF type = Delimited /\ offset + Len(part) <= Len(bytes)
           THEN {[next |-> offset + Len(part), bytes |-> payload, number |-> number]} ELSE {}
<1> DEFINE value == number * TwoTo[TypeBits] + type
           Tags == {t \in read_varint(bytes, offset) : t.value % TwoTo[TypeBits] = Delimited}
           Bodies(at) == {[next |-> body.next, bytes |-> body.bytes, number |-> number]
                          : body \in read_length_delimited(bytes, at)}
<1>1. PICK tag, len :
        /\ IsEncoding(tag, value)
        /\ IF type = Delimited THEN IsEncoding(len, Len(payload)) /\ part = tag \o (len \o payload)
                               ELSE part = tag \o <<0>>
  BY DEF IsField
<1>2. value % TwoTo[TypeBits] = type /\ value \div TwoTo[TypeBits] = number
  BY TagIs
<1> HIDE DEF value
<1>3. tag \in Seq(Byte) /\ Len(tag) \in Nat \ {0} /\ Len(bytes) \in Nat /\ payload \in Seq(Byte)
  BY <1>1, ReadVarint DEF Written
<1>a. <<0>> \in Seq(Byte)
  BY ShiftIs DEF Byte
<1>4. /\ StartsAt(bytes, offset, tag)
      /\ type = Delimited => StartsAt(bytes, offset + Len(tag), len \o payload)
      /\ offset + Len(part) >= offset + Len(tag)
  <2>1. CASE type = Delimited
    <3>1. len \in Seq(Byte) /\ len \o payload \in Seq(Byte)
      BY <1>1, <1>3, <2>1, ReadVarint
    <3>2. Len(part) = Len(tag) + Len(len \o payload) /\ Len(len \o payload) \in Nat
      BY <1>1, <1>3, <2>1, <3>1
    <3>3. StartsAt(bytes, offset, tag \o (len \o payload))
      BY <1>1, <2>1
    <3>4. StartsAt(bytes, offset, tag) /\ StartsAt(bytes, offset + Len(tag), len \o payload)
      <4> DEFINE rest == len \o payload
      <4>1. rest \in Seq(Byte) /\ StartsAt(bytes, offset, tag \o rest)
        BY <3>1, <3>3
      <4> HIDE DEF rest
      <4>2. StartsAt(bytes, offset, tag) /\ StartsAt(bytes, offset + Len(tag), rest)
        BY <1>3, <4>1, StartsAtBoth
      <4> QED BY <4>2 DEF rest
    <3> QED BY <1>3, <3>2, <3>4
  <2>2. CASE type # Delimited
    <3>0. part = tag \o <<0>>
      BY <1>1, <2>2
    <3>b. Len(tag \o <<0>>) = Len(tag) + 1
      BY <1>3, <1>a
    <3>1. StartsAt(bytes, offset, tag \o <<0>>) /\ Len(part) = Len(tag) + 1
      BY <3>0, <3>b
    <3>2. StartsAt(bytes, offset, tag)
      BY <1>3, <1>a, <3>1, StartsAtBoth
    <3> QED BY <1>3, <2>2, <3>1, <3>2
  <2> QED BY <2>1, <2>2
<1> DEFINE at == offset + Len(tag)
<1>5. read_varint(bytes, offset) = IF at <= Len(bytes) THEN {[next |-> at, value |-> value]} ELSE {}
  BY <1>1, <1>4, ReadVarint
<1>6. at \in Nat
  BY <1>3
<1>7. CASE ~ (at <= Len(bytes)) \/ type # Delimited
  <2>1. Tags = {}
    <3> HIDE DEF at
    <3> QED BY <1>2, <1>5, <1>7
  <2>2. ScannedField(bytes, offset) = {}
    BY <2>1 DEF ScannedField
  <2>3. ~ (type = Delimited /\ offset + Len(part) <= Len(bytes))
    <3>1. Len(part) \in Nat
      BY FieldBytes
    <3> QED BY <1>3, <1>4, <1>6, <1>7, <3>1
  <2> QED BY <2>2, <2>3
<1>8. CASE at <= Len(bytes) /\ type = Delimited
  <2> DEFINE r == [next |-> at, value |-> value]
  <2>1. Tags = {r}
    <3> HIDE DEF at
    <3> QED BY <1>2, <1>5, <1>8
  <2>2. ScannedField(bytes, offset) =
          {[next |-> body.next, bytes |-> body.bytes, number |-> r.value \div TwoTo[TypeBits]]
           : body \in read_length_delimited(bytes, r.next)}
    <3> HIDE DEF r
    <3>1. ScannedField(bytes, offset) =
            UNION {{[next |-> body.next, bytes |-> body.bytes, number |-> t.value \div TwoTo[TypeBits]]
                    : body \in read_length_delimited(bytes, t.next)} : t \in Tags}
      BY Zenon DEF ScannedField
    <3> HIDE DEF Tags
    <3> QED BY <2>1, <3>1, Zenon
  <2>3. r.value \div TwoTo[TypeBits] = number /\ r.next = at
    BY <1>2
  <2> HIDE DEF r
  <2>4. ScannedField(bytes, offset) = Bodies(at)
    BY <2>2, <2>3
  <2> DEFINE rest == len \o payload
  <2>5. rest \in Seq(Byte) /\ part = tag \o rest
    BY <1>1, <1>3, <1>8, ReadVarint
  <2>6. read_length_delimited(bytes, at) =
          IF at + Len(rest) <= Len(bytes) THEN {[next |-> at + Len(rest), bytes |-> payload]} ELSE {}
    <3>1. StartsAt(bytes, at, len \o payload) /\ IsEncoding(len, Len(payload))
      BY <1>1, <1>4, <1>8
    <3> HIDE DEF at
    <3> QED BY <1>3, <1>6, <3>1, ReadBody
  <2> HIDE DEF rest
  <2>7. offset + Len(part) = at + Len(rest)
    <3>1. Len(part) = Len(tag) + Len(rest) /\ Len(rest) \in Nat
      BY <1>3, <2>5
    <3> QED BY <1>3, <3>1
  <2> DEFINE end == at + Len(rest)
  <2>8. CASE end <= Len(bytes)
    <3>1. read_length_delimited(bytes, at) = {[next |-> end, bytes |-> payload]}
      BY <2>6, <2>8
    <3> HIDE DEF end, at
    <3>2. Bodies(at) = {[next |-> end, bytes |-> payload, number |-> number]}
      BY <3>1
    <3> QED BY <1>8, <2>4, <2>7, <2>8, <3>2 DEF end
  <2>9. CASE ~ (end <= Len(bytes))
    <3>1. read_length_delimited(bytes, at) = {}
      BY <2>6, <2>9
    <3> HIDE DEF end, at
    <3>2. Bodies(at) = {}
      BY <3>1
    <3> QED BY <1>8, <2>4, <2>7, <2>9, <3>2 DEF end
  <2> QED BY <2>8, <2>9
<1> QED BY <1>7, <1>8

(* What a turn of the loop reads, and where it stands.                     *)
Found(bytes)  == [next : 0 .. Len(bytes), bytes : Seq(Byte), number : Nat]
Places(bytes) == [offset : 0 .. Len(bytes), fields : Seq(Found(bytes))]

OnePlace(bytes, field_at, at) ==
  IF at.offset = Len(bytes) THEN {at}
  ELSE {[offset |-> field.next, fields |-> Append(at.fields, field)]
        : field \in field_at[at.offset]}

Turned(bytes, field_at, places) == UNION {OnePlace(bytes, field_at, at) : at \in places}

IsReader(bytes, field_at) == \A o \in 0 .. Len(bytes) : field_at[o] \subseteq Found(bytes)

IsTurns(turn, bytes, field_at) ==
  /\ \A k \in 0 .. Len(bytes) : turn[k] \in SUBSET Places(bytes)
  /\ turn[0] = {[offset |-> 0, fields |-> << >>]}
  /\ \A k \in 0 .. Len(bytes) - 1 : turn[k + 1] = Turned(bytes, field_at, turn[k])

LEMMA TurnedIs ==
  ASSUME NEW bytes \in Seq(Byte), NEW field_at, IsReader(bytes, field_at),
         NEW places \in SUBSET Places(bytes)
  PROVE  Turned(bytes, field_at, places) \in SUBSET Places(bytes)
<1>1. ASSUME NEW at \in Places(bytes) PROVE OnePlace(bytes, field_at, at) \subseteq Places(bytes)
  <2>1. CASE at.offset = Len(bytes)
    BY <2>1 DEF OnePlace
  <2>2. CASE at.offset # Len(bytes)
    <3>1. ASSUME NEW field \in field_at[at.offset]
          PROVE  [offset |-> field.next, fields |-> Append(at.fields, field)] \in Places(bytes)
      <4>1. at.offset \in 0 .. Len(bytes) /\ at.fields \in Seq(Found(bytes))
        BY DEF Places
      <4>2. field \in Found(bytes)
        BY <4>1 DEF IsReader
      <4>3. field.next \in 0 .. Len(bytes)
        BY <4>2 DEF Found
      <4>4. Append(at.fields, field) \in Seq(Found(bytes))
        BY <4>1, <4>2
      <4> QED BY <4>3, <4>4 DEF Places
    <3> QED BY <2>2, <3>1 DEF OnePlace
  <2> QED BY <2>1, <2>2
<1> QED BY <1>1 DEF Turned

(* The loop of scan_block_items and of scan_item_kind, turn by turn.       *)
LEMMA TurnsAre ==
  ASSUME NEW bytes \in Seq(Byte), NEW field_at, IsReader(bytes, field_at)
  PROVE  \E turn : /\ IsTurns(turn, bytes, field_at)
                   /\ FieldsOf(bytes, field_at) = {at.fields : at \in turn[Len(bytes)]}
<1> DEFINE n == Len(bytes)
           first == {[offset |-> 0, fields |-> << >>]}
           V == SUBSET Places(bytes)
           step == [k \in 0 .. n - 1 |-> [p \in V |-> Turned(bytes, field_at, p)]]
           form(f, k) == IF k = 0 THEN first ELSE Turned(bytes, field_at, f[k - 1])
           total == CHOOSE f : f = [k \in 0 .. n |-> form(f, k)]
<1>0. n \in Nat /\ 0 \in 0 .. n
  OBVIOUS
<1>1. first \in V
  <2>1. << >> \in Seq(Found(bytes))
    OBVIOUS
  <2> QED BY <1>0, <2>1 DEF Places
<1>2. FieldsOf(bytes, field_at) = {at.fields : at \in total[n]}
  BY Zenon DEF FieldsOf, Turned, OnePlace
<1>3. step \in [0 .. n - 1 -> [V -> V]]
  BY TurnedIs
<1> HIDE DEF V, first
<1>4. PICK h : IsUpto(h, n, V, first, step)
  <2> HIDE DEF step, n
  <2> QED BY <1>0, <1>1, <1>3, BoundedRecursion
<1>5. /\ h \in [0 .. n -> V] /\ h[0] = first
      /\ \A k \in 0 .. n - 1 : h[k + 1] = step[k][h[k]]
  BY <1>4 DEF IsUpto
<1> HIDE DEF n
<1>6. h = [k \in 0 .. n |-> form(h, k)]
  <2>1. ASSUME NEW k \in 0 .. n, k # 0 PROVE h[k] = Turned(bytes, field_at, h[k - 1])
    <3>1. k - 1 \in 0 .. n - 1 /\ k - 1 \in 0 .. n /\ k = (k - 1) + 1
      BY <1>0, <2>1
    <3>2. h[k - 1] \in V /\ h[(k - 1) + 1] = step[k - 1][h[k - 1]]
      BY <1>5, <3>1
    <3> QED BY <3>1, <3>2
  <2> QED BY <1>5, <2>1
<1> HIDE DEF form, step
<1>7. total = [k \in 0 .. n |-> form(total, k)]
  BY <1>6, Zenon
<1> HIDE DEF total
<1>8. total[0] = first
  BY <1>0, <1>7 DEF form
<1>9. ASSUME NEW k \in 0 .. n - 1 PROVE total[k + 1] = Turned(bytes, field_at, total[k])
  <2>1. k + 1 \in 0 .. n /\ k + 1 # 0 /\ (k + 1) - 1 = k
    BY <1>0
  <2> QED BY <1>7, <2>1 DEF form
<1>10. \A k \in 0 .. n : total[k] \in V
  <2> DEFINE S == {k \in 0 .. n : total[k] \in V}
  <2>1. 0 \in S
    BY <1>0, <1>1, <1>8
  <2>2. ASSUME NEW k \in 0 .. n - 1, k \in S PROVE k + 1 \in S
    <3>1. k + 1 \in 0 .. n /\ total[k] \in V
      BY <1>0, <2>2
    <3> QED BY <1>9, <3>1, TurnedIs DEF V
  <2> HIDE DEF S
  <2>3. \A k \in 0 .. n : k \in S
    BY <1>0, <2>1, <2>2, BoundedInduction
  <2> QED BY <2>3 DEF S
<1>11. IsTurns(total, bytes, field_at)
  BY <1>8, <1>9, <1>10 DEF IsTurns, n, V, first
<1> QED BY <1>2, <1>11 DEF n

(* A field read from any bytes is one of them, and there is one at most.   *)
LEMMA ScannedFieldIs ==
  ASSUME NEW bytes \in Seq(Byte), NEW offset \in Nat
  PROVE  /\ ScannedField(bytes, offset) \subseteq Found(bytes)
         /\ \A f, g \in ScannedField(bytes, offset) : f = g
<1>0. MaxGroups \in Nat /\ Continues \in Nat /\ Continues > 0 /\ Len(bytes) \in Nat
      /\ TwoTo[IntBits] \in Nat \ {0} /\ TwoTo[TypeBits] \in Nat \ {0}
  BY ShiftIs
<1>1. ASSUME NEW at \in Nat
      PROVE  /\ \A t \in read_varint(bytes, at) : t.next \in Nat /\ t.value \in Nat
             /\ \A t, u \in read_varint(bytes, at) : t = u
  <2>1. ASSUME NEW n \in Groups(bytes, at)
        PROVE  at + n \in Nat /\ Combined(bytes, at, n) % TwoTo[IntBits] \in Nat
    <3>1. n \in 1 .. MaxGroups /\ n \in Nat /\ at + n <= Len(bytes)
      BY <1>0 DEF Groups
    <3>2. PICK sum : IsSum(sum, bytes, at, n) /\ Combined(bytes, at, n) = sum[n]
      BY <3>1, CombinedIs
    <3>3. n \in 0 .. n
      BY <3>1
    <3>4. Combined(bytes, at, n) \in Nat
      BY <3>2, <3>3 DEF IsSum
    <3>5. PICK a \in Nat, b \in Nat \ {0} : a = Combined(bytes, at, n) /\ b = TwoTo[IntBits]
      BY <1>0, <3>4
    <3>6. a % b \in Nat
      OBVIOUS
    <3> QED BY <3>1, <3>5, <3>6
  <2>2. \A t \in read_varint(bytes, at) : t.next \in Nat /\ t.value \in Nat
    BY <2>1 DEF read_varint
  <2>3. \A m, n \in Groups(bytes, at) : m = n
    BY GroupsAreOne
  <2>4. \A t, u \in read_varint(bytes, at) : t = u
    BY <2>3 DEF read_varint
  <2> QED BY <2>2, <2>4
<1>2. ASSUME NEW at \in Nat
      PROVE  /\ \A b \in read_length_delimited(bytes, at) :
                  b.next \in 0 .. Len(bytes) /\ b.bytes \in Seq(Byte)
             /\ \A b, c \in read_length_delimited(bytes, at) : b = c
  <2>1. ASSUME NEW l \in read_varint(bytes, at), l.next + l.value <= Len(bytes)
        PROVE  /\ l.next + l.value \in 0 .. Len(bytes)
               /\ SubSeq(bytes, l.next + 1, l.next + l.value) \in Seq(Byte)
    <3>1. PICK a \in Nat, v \in Nat : a = l.next /\ v = l.value
      BY <1>1
    <3>2. \A i \in a + 1 .. a + v : i \in 1 .. Len(bytes)
      BY <1>0, <2>1, <3>1
    <3>3. SubSeq(bytes, a + 1, a + v) \in Seq(Byte)
      BY <3>2
    <3> QED BY <1>0, <2>1, <3>1, <3>3
  <2>2. \A b \in read_length_delimited(bytes, at) :
          b.next \in 0 .. Len(bytes) /\ b.bytes \in Seq(Byte)
    <3> TAKE b \in read_length_delimited(bytes, at)
    <3>1. PICK l \in read_varint(bytes, at) :
            /\ l.next + l.value <= Len(bytes)
            /\ b = [next  |-> l.next + l.value,
                    bytes |-> SubSeq(bytes, l.next + 1, l.next + l.value)]
      BY DEF read_length_delimited
    <3>2. /\ b.next = l.next + l.value
          /\ b.bytes = SubSeq(bytes, l.next + 1, l.next + l.value)
      BY <3>1
    <3> QED BY <2>1, <3>1, <3>2
  <2>3. \A b, c \in read_length_delimited(bytes, at) : b = c
    BY <1>1 DEF read_length_delimited
  <2> QED BY <2>2, <2>3
<1> DEFINE Tags == {t \in read_varint(bytes, offset) : t.value % TwoTo[TypeBits] = Delimited}
           From(t) == {[next |-> body.next, bytes |-> body.bytes, number |-> t.value \div TwoTo[TypeBits]]
                       : body \in read_length_delimited(bytes, t.next)}
<1>3. ScannedField(bytes, offset) = UNION {From(t) : t \in Tags}
  BY DEF ScannedField
<1>4. /\ \A t \in Tags : t.next \in Nat /\ t.value \in Nat
      /\ \A t, u \in Tags : t = u
  BY <1>1
<1> HIDE DEF Tags
<1>5. ASSUME NEW t \in Tags PROVE From(t) \subseteq Found(bytes) /\ \A f, g \in From(t) : f = g
  <2>1. PICK a \in Nat, v \in Nat, w \in Nat \ {0} : a = t.next /\ v = t.value /\ w = TwoTo[TypeBits]
    BY <1>0, <1>4
  <2>2. v \div w \in Nat
    OBVIOUS
  <2>3. PICK q \in Nat : q = t.value \div TwoTo[TypeBits]
    BY <2>1, <2>2
  <2>4. From(t) = {[next |-> body.next, bytes |-> body.bytes, number |-> q]
                   : body \in read_length_delimited(bytes, a)}
    BY <2>1, <2>3
  <2> HIDE DEF From
  <2>5. From(t) \subseteq Found(bytes)
    BY <1>2, <2>4 DEF Found
  <2>6. \A f, g \in From(t) : f = g
    BY <1>2, <2>4
  <2> QED BY <2>5, <2>6
<1> HIDE DEF From
<1> QED BY <1>3, <1>4, <1>5

(* A message has one reading at most, and a stricter reader has no other.  *)
LEMMA OneReading ==
  ASSUME NEW bytes \in Seq(Byte)
  PROVE  /\ ScannedFields(bytes) \subseteq Seq(Found(bytes))
         /\ DecodedFields(bytes) \subseteq ScannedFields(bytes)
         /\ \A f, g \in ScannedFields(bytes) : f = g
<1> DEFINE scanned == [o \in 0 .. Len(bytes) |-> ScannedField(bytes, o)]
           decoded == [o \in 0 .. Len(bytes) |-> DecodedField(bytes, o)]
           n == Len(bytes)
<1>0. n \in Nat
  OBVIOUS
<1>1. ASSUME NEW o \in 0 .. n
      PROVE  /\ scanned[o] \subseteq Found(bytes) /\ decoded[o] \subseteq scanned[o]
             /\ \A f, g \in scanned[o] : f = g
  <2>1. scanned[o] = ScannedField(bytes, o) /\ decoded[o] = DecodedField(bytes, o) /\ o \in Nat
    OBVIOUS
  <2>2. decoded[o] \subseteq scanned[o]
    BY <2>1 DEF DecodedField
  <2> QED BY <2>1, <2>2, ScannedFieldIs
<1>a. ScannedFields(bytes) = FieldsOf(bytes, scanned) /\ DecodedFields(bytes) = FieldsOf(bytes, decoded)
  BY DEF ScannedFields, DecodedFields
<1> HIDE DEF scanned, decoded
<1>2. IsReader(bytes, scanned) /\ IsReader(bytes, decoded)
  BY <1>1 DEF IsReader
<1>3. PICK s : IsTurns(s, bytes, scanned) /\ FieldsOf(bytes, scanned) = {at.fields : at \in s[n]}
  BY <1>2, TurnsAre
<1>4. PICK d : IsTurns(d, bytes, decoded) /\ FieldsOf(bytes, decoded) = {at.fields : at \in d[n]}
  BY <1>2, TurnsAre
<1> DEFINE S == {k \in 0 .. n : d[k] \subseteq s[k] /\ \A a, b \in s[k] : a = b}
<1>5. 0 \in S
  BY <1>0, <1>3, <1>4 DEF IsTurns
<1>6. ASSUME NEW k \in 0 .. n - 1, k \in S PROVE k + 1 \in S
  <2>1. /\ s[k + 1] = Turned(bytes, scanned, s[k]) /\ d[k + 1] = Turned(bytes, decoded, d[k])
        /\ k \in 0 .. n /\ k + 1 \in 0 .. n
    BY <1>0, <1>3, <1>4 DEF IsTurns
  <2>2. s[k] \subseteq Places(bytes)
    BY <1>3, <2>1 DEF IsTurns
  <2>3. ASSUME NEW at \in s[k]
        PROVE  /\ OnePlace(bytes, decoded, at) \subseteq OnePlace(bytes, scanned, at)
               /\ \A a, b \in OnePlace(bytes, scanned, at) : a = b
    <3>1. at.offset \in 0 .. n
      BY <2>2, <2>3 DEF Places
    <3>2. decoded[at.offset] \subseteq scanned[at.offset] /\ \A f, g \in scanned[at.offset] : f = g
      BY <1>1, <3>1
    <3> QED BY <3>2 DEF OnePlace
  <2>4. d[k + 1] \subseteq s[k + 1]
    BY <1>6, <2>1, <2>3 DEF Turned
  <2>5. \A a, b \in s[k + 1] : a = b
    BY <1>6, <2>1, <2>3 DEF Turned
  <2> QED BY <2>1, <2>4, <2>5
<1> HIDE DEF S
<1>7. \A k \in 0 .. n : k \in S
  BY <1>0, <1>5, <1>6, BoundedInduction
<1>8. d[n] \subseteq s[n] /\ \A a, b \in s[n] : a = b
  BY <1>0, <1>7 DEF S
<1>9. \A at \in s[n] : at.fields \in Seq(Found(bytes))
  BY <1>0, <1>3 DEF IsTurns, Places
<1> QED BY <1>a, <1>3, <1>4, <1>8, <1>9

(* The fields of some numbers, one field after another.                    *)
IsAmong(among, fields, numbers, T) ==
  /\ \A n \in 0 .. Len(fields) : among[n] \in Seq(T)
  /\ among[0] = << >>
  /\ \A n \in 0 .. Len(fields) - 1 :
       among[n + 1] = IF fields[n + 1].number \in numbers
                      THEN Append(among[n], fields[n + 1]) ELSE among[n]

LEMMA NumberedIs ==
  ASSUME NEW T, NEW fields \in Seq(T), NEW numbers
  PROVE  \E among : /\ IsAmong(among, fields, numbers, T)
                    /\ Numbered(fields, numbers) = among[Len(fields)]
<1> DEFINE n == Len(fields)
           V == Seq(T)
           one(k, p) == IF fields[k].number \in numbers THEN Append(p, fields[k]) ELSE p
           step == [k \in 0 .. n - 1 |-> [p \in V |-> one(k + 1, p)]]
           form(f, k) == IF k = 0 THEN << >> ELSE one(k, f[k - 1])
           total == CHOOSE f : f = [k \in 0 .. n |-> form(f, k)]
<1>0. n \in Nat /\ 0 \in 0 .. n /\ << >> \in V
  OBVIOUS
<1>1. Numbered(fields, numbers) = total[n]
  BY Zenon DEF Numbered
<1>2. ASSUME NEW k \in 0 .. n - 1, NEW p \in V PROVE one(k + 1, p) \in V
  <2>1. k + 1 \in 1 .. n
    BY <1>0
  <2>2. fields[k + 1] \in T
    BY <2>1
  <2>3. Append(p, fields[k + 1]) \in V
    BY <2>2
  <2> QED BY <2>3
<1> HIDE DEF one
<1>3. step \in [0 .. n - 1 -> [V -> V]]
  BY <1>2
<1> HIDE DEF V
<1>4. PICK h : IsUpto(h, n, V, << >>, step)
  <2> HIDE DEF step, n
  <2> QED BY <1>0, <1>3, BoundedRecursion
<1>5. /\ h \in [0 .. n -> V] /\ h[0] = << >>
      /\ \A k \in 0 .. n - 1 : h[k + 1] = step[k][h[k]]
  BY <1>4 DEF IsUpto
<1> HIDE DEF n
<1>6. h = [k \in 0 .. n |-> form(h, k)]
  <2>1. ASSUME NEW k \in 0 .. n, k # 0 PROVE h[k] = one(k, h[k - 1])
    <3>1. k - 1 \in 0 .. n - 1 /\ k - 1 \in 0 .. n /\ k = (k - 1) + 1
      BY <1>0, <2>1
    <3>2. h[k - 1] \in V /\ h[(k - 1) + 1] = step[k - 1][h[k - 1]]
      BY <1>5, <3>1
    <3> QED BY <3>1, <3>2
  <2> QED BY <1>5, <2>1
<1> HIDE DEF form, step
<1>7. total = [k \in 0 .. n |-> form(total, k)]
  BY <1>6, Zenon
<1> HIDE DEF total
<1>8. total[0] = << >>
  BY <1>0, <1>7 DEF form
<1>9. ASSUME NEW k \in 0 .. n - 1 PROVE total[k + 1] = one(k + 1, total[k])
  <2>1. k + 1 \in 0 .. n /\ k + 1 # 0 /\ (k + 1) - 1 = k
    BY <1>0
  <2> QED BY <1>7, <2>1 DEF form
<1>10. \A k \in 0 .. n : total[k] \in V
  <2> DEFINE S == {k \in 0 .. n : total[k] \in V}
  <2>1. 0 \in S
    BY <1>0, <1>8
  <2>2. ASSUME NEW k \in 0 .. n - 1, k \in S PROVE k + 1 \in S
    <3>1. k + 1 \in 0 .. n /\ total[k] \in V
      BY <1>0, <2>2
    <3> QED BY <1>2, <1>9, <3>1
  <2> HIDE DEF S
  <2>3. \A k \in 0 .. n : k \in S
    BY <1>0, <2>1, <2>2, BoundedInduction
  <2> QED BY <2>3 DEF S
<1>11. IsAmong(total, fields, numbers, T)
  BY <1>8, <1>9, <1>10 DEF IsAmong, n, V, one
<1> QED BY <1>1, <1>11 DEF n

(* Two lists picked out of two messages are of the same places in them.    *)
Together(a, b, f, g, numbers, n) ==
  /\ Len(a) = Len(b)
  /\ \A i \in 1 .. Len(a) : \E k \in 1 .. n : f[k].number \in numbers /\ a[i] = f[k] /\ b[i] = g[k]
  /\ \A k \in 1 .. n : f[k].number \in numbers => \E i \in 1 .. Len(a) : a[i] = f[k] /\ b[i] = g[k]

LEMMA NumberedTogether ==
  ASSUME NEW T, NEW U, NEW f \in Seq(T), NEW g \in Seq(U), NEW numbers, Len(f) = Len(g),
         \A k \in 1 .. Len(f) : f[k].number = g[k].number
  PROVE  /\ Numbered(f, numbers) \in Seq(T) /\ Numbered(g, numbers) \in Seq(U)
         /\ Together(Numbered(f, numbers), Numbered(g, numbers), f, g, numbers, Len(f))
<1> DEFINE n == Len(f)
<1>0. n \in Nat
  OBVIOUS
<1>1. PICK x : IsAmong(x, f, numbers, T) /\ Numbered(f, numbers) = x[Len(f)]
  BY NumberedIs
<1>2. PICK y : IsAmong(y, g, numbers, U) /\ Numbered(g, numbers) = y[Len(g)]
  BY NumberedIs
<1> DEFINE S == {k \in 0 .. n : Together(x[k], y[k], f, g, numbers, k)}
<1>3. 0 \in S
  BY <1>0, <1>1, <1>2 DEF IsAmong, Together
<1>4. ASSUME NEW k \in 0 .. n - 1, k \in S PROVE k + 1 \in S
  <2>1. k \in Nat /\ k \in 0 .. n /\ k + 1 \in 0 .. n /\ k + 1 \in 1 .. n
    BY <1>0
  <2>2. x[k] \in Seq(T) /\ y[k] \in Seq(U) /\ f[k + 1].number = g[k + 1].number
    BY <1>1, <1>2, <2>1 DEF IsAmong
  <2>3. Together(x[k], y[k], f, g, numbers, k)
    BY <1>4
  <2> DEFINE a == x[k]
             b == y[k]
  <2>4. a \in Seq(T) /\ b \in Seq(U) /\ Together(a, b, f, g, numbers, k)
    BY <2>2, <2>3
  <2>5. CASE f[k + 1].number \in numbers
    <3>1. x[k + 1] = Append(a, f[k + 1]) /\ y[k + 1] = Append(b, g[k + 1])
      BY <1>1, <1>2, <2>2, <2>5 DEF IsAmong
    <3> HIDE DEF a, b
    <3> DEFINE p == f[k + 1]
               q == g[k + 1]
               l == Len(a)
    <3>2. /\ p \in T /\ q \in U /\ l \in Nat /\ l = Len(b)
          /\ Len(Append(a, p)) = l + 1 /\ Len(Append(b, q)) = l + 1
          /\ Append(a, p)[l + 1] = p /\ Append(b, q)[l + 1] = q
          /\ \A i \in 1 .. l : Append(a, p)[i] = a[i] /\ Append(b, q)[i] = b[i]
      BY <2>1, <2>4 DEF Together
    <3>3. /\ \A i \in 1 .. l : \E j \in 1 .. k : f[j].number \in numbers /\ a[i] = f[j] /\ b[i] = g[j]
          /\ \A j \in 1 .. k : f[j].number \in numbers => \E i \in 1 .. l : a[i] = f[j] /\ b[i] = g[j]
      BY <2>4 DEF Together
    <3>a. \A i \in 1 .. l + 1 : i = l + 1 \/ i \in 1 .. l
      BY <3>2
    <3>b. \A j \in 1 .. k + 1 : j = k + 1 \/ j \in 1 .. k
      BY <2>1
    <3>c. /\ \A j \in 1 .. k : j \in 1 .. k + 1
          /\ \A i \in 1 .. l : i \in 1 .. l + 1
          /\ l + 1 \in 1 .. l + 1 /\ k + 1 \in 1 .. k + 1
      BY <2>1, <3>2
    <3>d. x[k + 1] = Append(a, p) /\ y[k + 1] = Append(b, q) /\ p = f[k + 1] /\ q = g[k + 1]
      BY <3>1
    <3> HIDE DEF l, p, q
    <3> DEFINE A == Append(a, p)
               B == Append(b, q)
    <3>e. /\ Len(A) = l + 1 /\ Len(B) = l + 1 /\ A[l + 1] = p /\ B[l + 1] = q
          /\ \A i \in 1 .. l : A[i] = a[i] /\ B[i] = b[i]
      BY <3>2
    <3> HIDE DEF A, B
    <3>4. \A i \in 1 .. l + 1 :
            \E j \in 1 .. k + 1 : f[j].number \in numbers /\ A[i] = f[j] /\ B[i] = g[j]
      <4> TAKE i \in 1 .. l + 1
      <4>1. CASE i = l + 1
        <5>1. f[k + 1].number \in numbers /\ A[i] = f[k + 1] /\ B[i] = g[k + 1]
          BY <2>5, <3>e, <3>d, <4>1
        <5> QED BY <5>1, <3>c
      <4>2. CASE i \in 1 .. l
        <5>1. PICK j \in 1 .. k : f[j].number \in numbers /\ a[i] = f[j] /\ b[i] = g[j]
          BY <3>3, <4>2
        <5>2. A[i] = f[j] /\ B[i] = g[j]
          BY <3>e, <4>2, <5>1
        <5> QED BY <3>c, <5>1, <5>2
      <4> QED BY <3>a, <4>1, <4>2
    <3>5. \A j \in 1 .. k + 1 :
            f[j].number \in numbers => \E i \in 1 .. l + 1 : A[i] = f[j] /\ B[i] = g[j]
      <4> SUFFICES ASSUME NEW j \in 1 .. k + 1, f[j].number \in numbers
                   PROVE  \E i \in 1 .. l + 1 : A[i] = f[j] /\ B[i] = g[j]
        OBVIOUS
      <4>1. CASE j = k + 1
        <5>1. A[l + 1] = f[j] /\ B[l + 1] = g[j]
          BY <3>e, <3>d, <4>1
        <5> QED BY <5>1, <3>c
      <4>2. CASE j \in 1 .. k
        <5>1. PICK i \in 1 .. l : a[i] = f[j] /\ b[i] = g[j]
          BY <3>3, <4>2
        <5>2. A[i] = f[j] /\ B[i] = g[j]
          BY <3>e, <5>1
        <5> QED BY <3>c, <5>1, <5>2
      <4> QED BY <3>b, <4>1, <4>2
    <3>6. Together(A, B, f, g, numbers, k + 1)
      BY <3>e, <3>4, <3>5 DEF Together
    <3> QED BY <2>1, <3>d, <3>6 DEF A, B
  <2>6. CASE f[k + 1].number \notin numbers
    <3>1. x[k + 1] = a /\ y[k + 1] = b
      BY <1>1, <1>2, <2>2, <2>6 DEF IsAmong
    <3> HIDE DEF a, b
    <3>2. \A j \in 1 .. k + 1 : j = k + 1 \/ j \in 1 .. k
      BY <2>1
    <3>3. \A j \in 1 .. k : j \in 1 .. k + 1
      BY <2>1
    <3>4. Together(a, b, f, g, numbers, k + 1)
      BY <2>4, <2>6, <3>2, <3>3 DEF Together
    <3> QED BY <2>1, <3>1, <3>4
  <2> QED BY <2>5, <2>6
<1> HIDE DEF S
<1>5. \A k \in 0 .. n : k \in S
  BY <1>0, <1>3, <1>4, BoundedInduction
<1>6. Together(x[n], y[n], f, g, numbers, n)
  BY <1>0, <1>5 DEF S
<1>7. x[n] \in Seq(T) /\ y[n] \in Seq(U)
  BY <1>0, <1>1, <1>2 DEF IsAmong
<1> QED BY <1>1, <1>2, <1>6, <1>7

(* An item of a kind has one field, and its number is the kind             *)
(* (scan_item_kind, wire.rs:94-117).                                       *)
LEMMA KindIsOfOneField ==
  ASSUME NEW bytes \in Seq(Byte), scan_item_kind(bytes) # {}
  PROVE  \E field \in Found(bytes) :
           ScannedFields(bytes) = {<<field>>} /\ scan_item_kind(bytes) = {field.number}
<1>1. PICK fields \in ScannedFields(bytes) : Len(fields) = 1
  BY DEF scan_item_kind
<1>2. fields \in Seq(Found(bytes))
  BY OneReading
<1>3. PICK field \in Found(bytes) : field = fields[1]
  <2>1. 1 \in DOMAIN fields
    BY <1>1, <1>2
  <2>2. fields[1] \in Found(bytes)
    BY <1>2, <2>1
  <2> QED BY <2>2
<1>4. fields = <<field>>
  <2>1. fields = [i \in 1 .. 1 |-> fields[i]] /\ <<field>> = [i \in 1 .. 1 |-> field]
    BY <1>1, <1>2
  <2> QED BY <1>3, <2>1
<1>5. ScannedFields(bytes) = {<<field>>}
  BY <1>1, <1>4, OneReading
<1>6. <<field>>[1] = field /\ Len(<<field>>) = 1
  OBVIOUS
<1>7. {f \in ScannedFields(bytes) : Len(f) = 1} = {<<field>>}
  BY <1>5, <1>6
<1>8. scan_item_kind(bytes) = {<<field>>[1].number}
  BY <1>7, Zenon DEF scan_item_kind
<1> QED BY <1>5, <1>6, <1>8

(* What the decoder makes of an item of one field.                         *)
LEMMA DecodedKindOfOne ==
  ASSUME NEW bytes, NEW field \in Found(bytes)
  PROVE  DecodedKind(<<field>>) = IF field.number \in KnownFields THEN field.number ELSE 0
<1> DEFINE f == <<field>>
<1>1. f \in Seq(Found(bytes)) /\ Len(f) = 1 /\ f[1] = field
  OBVIOUS
<1> HIDE DEF f
<1>2. PICK among : /\ IsAmong(among, f, KnownFields, Found(bytes))
                   /\ Numbered(f, KnownFields) = among[Len(f)]
  BY <1>1, NumberedIs
<1>3. 0 \in 0 .. Len(f) - 1 /\ 0 + 1 = 1
  BY <1>1
<1>4. among[0] = << >> /\ among[1] = IF f[1].number \in KnownFields THEN Append(among[0], f[1]) ELSE among[0]
  BY <1>2, <1>3 DEF IsAmong
<1>5. CASE field.number \in KnownFields
  <2>1. Numbered(f, KnownFields) = <<field>>
    BY <1>1, <1>2, <1>4, <1>5
  <2>2. <<field>> # << >> /\ <<field>>[Len(<<field>>)] = field
    OBVIOUS
  <2> QED BY <1>5, <2>1, <2>2 DEF DecodedKind, f
<1>6. CASE field.number \notin KnownFields
  <2>1. Numbered(f, KnownFields) = << >>
    BY <1>1, <1>2, <1>4, <1>6
  <2> QED BY <1>6, <2>1 DEF DecodedKind, f
<1> QED BY <1>5, <1>6

LEMMA SameItems ==
  ASSUME NEW bytes \in Seq(Byte), NEW items \in scan_block_items(bytes), NEW kinds \in Decoded(bytes)
  PROVE  kinds = [k \in DOMAIN items |-> IF items[k].kind \in KnownFields THEN items[k].kind ELSE 0]
<1> DEFINE Scan(found) == [i \in DOMAIN found |->
                             [kind  |-> CHOOSE kind \in scan_item_kind(found[i].bytes) : TRUE,
                              bytes |-> found[i].bytes]]
           Decode(found) == [i \in DOMAIN found |->
                               DecodedKind(CHOOSE fields \in DecodedFields(found[i].bytes) : TRUE)]
<1>1. PICK f \in ScannedFields(bytes) :
        /\ \A i \in DOMAIN Numbered(f, {1}) : scan_item_kind(Numbered(f, {1})[i].bytes) # {}
        /\ items = Scan(Numbered(f, {1}))
  <2>1. scan_block_items(bytes) =
          {Scan(found) : found \in {n \in {Numbered(fields, {1}) : fields \in ScannedFields(bytes)} :
                                     \A i \in DOMAIN n : scan_item_kind(n[i].bytes) # {}}}
    BY Zenon DEF scan_block_items
  <2> HIDE DEF Scan
  <2> QED BY <2>1
<1>2. PICK g \in DecodedFields(bytes) :
        /\ \A i \in DOMAIN Numbered(g, {1}) : DecodedFields(Numbered(g, {1})[i].bytes) # {}
        /\ kinds = Decode(Numbered(g, {1}))
  <2>1. Decoded(bytes) =
          {Decode(found) : found \in {n \in {Numbered(fields, {1}) : fields \in DecodedFields(bytes)} :
                                       \A i \in DOMAIN n : DecodedFields(n[i].bytes) # {}}}
    BY Zenon DEF Decoded
  <2> HIDE DEF Decode
  <2> QED BY <2>1
<1>3. g = f /\ f \in Seq(Found(bytes))
  BY OneReading
<1> DEFINE found == Numbered(f, {1})
<1>4. found \in Seq(Found(bytes))
  BY <1>3, NumberedTogether
<1>5. /\ items = Scan(found) /\ kinds = Decode(found)
      /\ \A i \in DOMAIN found : /\ scan_item_kind(found[i].bytes) # {}
                                 /\ DecodedFields(found[i].bytes) # {}
  BY <1>1, <1>2, <1>3
<1> HIDE DEF found
<1>6. ASSUME NEW i \in DOMAIN found
      PROVE  kinds[i] = IF items[i].kind \in KnownFields THEN items[i].kind ELSE 0
  <2> DEFINE part == found[i].bytes
  <2>1. part \in Seq(Byte)
    <3>1. found[i] \in Found(bytes)
      BY <1>4
    <3> QED BY <3>1 DEF Found
  <2>2. scan_item_kind(part) # {} /\ DecodedFields(part) # {}
    BY <1>5
  <2>3. /\ kinds[i] = DecodedKind(CHOOSE fields \in DecodedFields(part) : TRUE)
        /\ items[i].kind = CHOOSE kind \in scan_item_kind(part) : TRUE
    BY <1>5
  <2> HIDE DEF part
  <2>4. PICK field \in Found(part) :
          ScannedFields(part) = {<<field>>} /\ scan_item_kind(part) = {field.number}
    BY <2>1, <2>2, KindIsOfOneField
  <2>5. items[i].kind = field.number
    BY <2>3, <2>4
  <2>6. \A fields \in DecodedFields(part) : fields = <<field>>
    BY <2>1, <2>4, OneReading
  <2>7. (CHOOSE fields \in DecodedFields(part) : TRUE) = <<field>>
    BY <2>2, <2>6
  <2>8. kinds[i] = DecodedKind(<<field>>)
    BY <2>3, <2>7
  <2> QED BY <2>5, <2>8, DecodedKindOfOne
<1>7. DOMAIN items = DOMAIN found /\ kinds = [i \in DOMAIN found |-> kinds[i]]
  BY <1>5
<1> HIDE DEF Scan, Decode
<1> QED BY <1>6, <1>7

(* A message as it was written: what each field carries, where it ends.    *)
IsLaid(bytes, fields, payload, ends) ==
  /\ ends[0] = 0 /\ ends[Len(fields)] = Len(bytes)
  /\ \A k \in 0 .. Len(fields) : ends[k] \in Nat
  /\ \A k \in 0 .. Len(fields) - 1 :
       /\ Written(fields[k + 1].number, fields[k + 1].type, payload[k + 1])
       /\ \E part : /\ IsField(part, fields[k + 1].number, fields[k + 1].type, payload[k + 1])
                    /\ ends[k + 1] = ends[k] + Len(part)
                    /\ StartsAt(bytes, ends[k], part)

AllDelimited(fields, k) == \A j \in 1 .. k : fields[j].type = Delimited

ReadSoFar(fields, payload, ends, k) ==
  [j \in 1 .. k |-> [next |-> ends[j], bytes |-> payload[j], number |-> fields[j].number]]

(* A field takes a byte or more.                                           *)
LEMMA EndsGrow ==
  ASSUME NEW bytes \in Seq(Byte), NEW fields, NEW payload, NEW ends, Len(fields) \in Nat,
         IsLaid(bytes, fields, payload, ends)
  PROVE  \A a, b \in 0 .. Len(fields) : a < b => ends[a] + (b - a) <= ends[b]
<1> DEFINE n == Len(fields)
<1>1. ASSUME NEW k \in 0 .. n - 1 PROVE ends[k] \in Nat /\ ends[k + 1] \in Nat /\ ends[k] + 1 <= ends[k + 1]
  <2>1. k \in 0 .. n /\ k + 1 \in 0 .. n
    OBVIOUS
  <2>2. PICK part : /\ IsField(part, fields[k + 1].number, fields[k + 1].type, payload[k + 1])
                    /\ ends[k + 1] = ends[k] + Len(part)
    BY DEF IsLaid
  <2>3. Len(part) \in Nat \ {0}
    BY <2>2, FieldBytes DEF IsLaid
  <2>4. ends[k] \in Nat /\ ends[k + 1] \in Nat
    BY <2>1 DEF IsLaid
  <2> QED BY <2>2, <2>3, <2>4
<1> SUFFICES ASSUME NEW a \in 0 .. n, NEW b \in 0 .. n, a < b PROVE ends[a] + (b - a) <= ends[b]
  OBVIOUS
<1> DEFINE S == {d \in 0 .. n - a : ends[a] + d <= ends[a + d]}
<1>2. ends[a] \in Nat /\ a \in Nat /\ n \in Nat /\ n - a \in Nat
  BY DEF IsLaid
<1>3. 0 \in S
  BY <1>2
<1>4. ASSUME NEW d \in 0 .. (n - a) - 1, d \in S PROVE d + 1 \in S
  <2>1. a + d \in 0 .. n - 1 /\ (a + d) + 1 = a + (d + 1) /\ d + 1 \in 0 .. n - a /\ d \in Nat
    BY <1>2
  <2>2. ends[a + d] \in Nat /\ ends[(a + d) + 1] \in Nat /\ ends[a + d] + 1 <= ends[(a + d) + 1]
    BY <1>1, <2>1
  <2>3. ends[a] + d <= ends[a + d]
    BY <1>4
  <2>4. PICK x \in Nat, y \in Nat, z \in Nat :
          x = ends[a] /\ y = ends[a + d] /\ z = ends[a + (d + 1)]
    BY <1>2, <2>1, <2>2
  <2>5. x + d <= y /\ y + 1 <= z
    BY <2>1, <2>2, <2>3, <2>4
  <2>6. x + (d + 1) <= z
    BY <2>1, <2>5
  <2> QED BY <2>1, <2>4, <2>6
<1> HIDE DEF S
<1>5. \A d \in 0 .. n - a : d \in S
  BY <1>2, <1>3, <1>4, BoundedInduction
<1>6. b - a \in 0 .. n - a /\ a + (b - a) = b
  BY <1>2
<1> QED BY <1>5, <1>6 DEF S

(* The first bytes of a sequence start where the whole of it does.         *)
LEMMA CutStarts ==
  ASSUME NEW bytes \in Seq(Byte), NEW cut \in 0 .. Len(bytes)
  PROVE  /\ SubSeq(bytes, 1, cut) \in Seq(Byte) /\ Len(SubSeq(bytes, 1, cut)) = cut
         /\ \A offset \in Nat : \A part :
              Len(part) \in Nat /\ StartsAt(bytes, offset, part)
                => StartsAt(SubSeq(bytes, 1, cut), offset, part)
<1> DEFINE b == SubSeq(bytes, 1, cut)
<1>1. /\ b \in Seq(Byte) /\ Len(b) = cut /\ cut \in Nat /\ cut <= Len(bytes) /\ Len(bytes) \in Nat
      /\ \A i \in 1 .. cut : b[i] = bytes[i]
  OBVIOUS
<1> HIDE DEF b
<1>2. ASSUME NEW offset \in Nat, NEW part, Len(part) \in Nat, StartsAt(bytes, offset, part)
      PROVE  StartsAt(b, offset, part)
  <2> SUFFICES ASSUME NEW i \in 1 .. Len(part), offset + i <= Len(b)
               PROVE  b[offset + i] = part[i]
    BY DEF StartsAt
  <2>1. offset + i \in 1 .. cut /\ offset + i <= Len(bytes)
    BY <1>1
  <2>2. bytes[offset + i] = part[i]
    BY <1>2, <2>1 DEF StartsAt
  <2> QED BY <1>1, <2>1, <2>2
<1> QED BY <1>1, <1>2 DEF b

(* Where a field begins, the scan of a cut file reads it as it was written *)
(* or fails.                                                               *)
LEMMA ReadLaid ==
  ASSUME NEW bytes \in Seq(Byte), NEW fields, NEW payload, NEW ends, Len(fields) \in Nat,
         IsLaid(bytes, fields, payload, ends), NEW cut \in 0 .. Len(bytes),
         NEW k \in 0 .. Len(fields) - 1
  PROVE  ScannedField(SubSeq(bytes, 1, cut), ends[k]) =
           IF fields[k + 1].type = Delimited /\ ends[k + 1] <= cut
           THEN {[next |-> ends[k + 1], bytes |-> payload[k + 1], number |-> fields[k + 1].number]}
           ELSE {}
<1> DEFINE number == fields[k + 1].number
           type   == fields[k + 1].type
           body   == payload[k + 1]
           b      == SubSeq(bytes, 1, cut)
<1>1. Written(number, type, body)
  BY DEF IsLaid
<1>2. PICK part : /\ IsField(part, number, type, body) /\ ends[k + 1] = ends[k] + Len(part)
                  /\ StartsAt(bytes, ends[k], part)
  BY DEF IsLaid
<1>3. ends[k] \in Nat
  BY DEF IsLaid
<1> HIDE DEF number, type, body
<1>4. Len(part) \in Nat
  BY <1>1, <1>2, FieldBytes
<1>5. b \in Seq(Byte) /\ Len(b) = cut /\ StartsAt(b, ends[k], part)
  BY <1>2, <1>3, <1>4, CutStarts
<1> HIDE DEF b
<1>6. ScannedField(b, ends[k]) =
        IF type = Delimited /\ ends[k] + Len(part) <= Len(b)
        THEN {[next |-> ends[k] + Len(part), bytes |-> body, number |-> number]} ELSE {}
  BY <1>1, <1>2, <1>3, <1>5, ReadField
<1> QED BY <1>2, <1>5, <1>6 DEF b, number, type, body

(* m of the fields have ended by the cut.                                  *)
IsBefore(fields, ends, cut, m) ==
  /\ m \in 0 .. Len(fields) /\ ends[m] <= cut
  /\ \A j \in 1 .. Len(fields) : ends[j] <= cut <=> j <= m

(* The scan of the first bytes of a message: it reads the fields before    *)
(* the cut, as they were written, if the cut is where the last of them     *)
(* ends and all are of the type that is read (wire.rs:70-84, 94-115).      *)
LEMMA ScanLaid ==
  ASSUME NEW bytes \in Seq(Byte), NEW fields, NEW payload, NEW ends, Len(fields) \in Nat,
         IsLaid(bytes, fields, payload, ends), NEW cut \in 0 .. Len(bytes),
         NEW m, IsBefore(fields, ends, cut, m)
  PROVE  ScannedFields(SubSeq(bytes, 1, cut)) =
           IF ends[m] = cut /\ AllDelimited(fields, m)
           THEN {ReadSoFar(fields, payload, ends, m)} ELSE {}
<1> DEFINE b == SubSeq(bytes, 1, cut)
           n == Len(fields)
           scanned == [o \in 0 .. Len(b) |-> ScannedField(b, o)]
           Place(k) == [offset |-> ends[k], fields |-> ReadSoFar(fields, payload, ends, k)]
           Read(k)  == IF AllDelimited(fields, k) THEN {Place(k)} ELSE {}
           Whole    == IF ends[m] = cut THEN Read(m) ELSE {}
<1>0. /\ n \in Nat /\ m \in Nat /\ m <= n /\ m \in 0 .. n /\ cut \in Nat
      /\ ends[m] \in Nat /\ ends[m] <= cut /\ ends[0] = 0
      /\ \A k \in 0 .. n : ends[k] \in Nat
      /\ \A a, c \in 0 .. n : a < c => ends[a] + (c - a) <= ends[c]
  <2>1. m \in 0 .. n /\ ends[m] <= cut /\ n \in Nat /\ m \in Nat /\ m <= n /\ cut \in Nat
    BY DEF IsBefore
  <2>2. ends[0] = 0 /\ \A k \in 0 .. n : ends[k] \in Nat
    BY DEF IsLaid
  <2>3. \A a, c \in 0 .. n : a < c => ends[a] + (c - a) <= ends[c]
    BY EndsGrow
  <2> QED BY <2>1, <2>2, <2>3
<1>1. b \in Seq(Byte) /\ Len(b) = cut
  BY CutStarts
<1>2. ScannedFields(b) = FieldsOf(b, scanned)
  BY DEF ScannedFields
<1>3. ASSUME NEW k \in 0 .. n - 1, ends[k] <= cut
      PROVE  scanned[ends[k]] =
               IF fields[k + 1].type = Delimited /\ ends[k + 1] <= cut
               THEN {[next |-> ends[k + 1], bytes |-> payload[k + 1], number |-> fields[k + 1].number]}
               ELSE {}
  <2>1. ends[k] \in 0 .. Len(b)
    BY <1>0, <1>1, <1>3
  <2>2. scanned[ends[k]] = ScannedField(b, ends[k])
    BY <2>1
  <2> QED BY <2>2, ReadLaid
<1>4. IsReader(b, scanned)
  <2>1. ASSUME NEW o \in 0 .. Len(b) PROVE scanned[o] \subseteq Found(b)
    <3>1. scanned[o] = ScannedField(b, o) /\ o \in Nat
      OBVIOUS
    <3> HIDE DEF scanned, b
    <3> QED BY <1>1, <3>1, ScannedFieldIs
  <2> HIDE DEF scanned
  <2> QED BY <2>1 DEF IsReader
<1> HIDE DEF scanned, b
<1>5. PICK turn : /\ IsTurns(turn, b, scanned)
                  /\ FieldsOf(b, scanned) = {at.fields : at \in turn[Len(b)]}
  BY <1>1, <1>4, TurnsAre
<1> DEFINE S == {k \in 0 .. cut : turn[k] = IF k <= m THEN Read(k) ELSE Whole}
<1>6. 0 \in S
  <2>1. ReadSoFar(fields, payload, ends, 0) = << >> /\ AllDelimited(fields, 0)
    BY DEF ReadSoFar, AllDelimited
  <2>2. turn[0] = {[offset |-> 0, fields |-> << >>]}
    BY <1>5 DEF IsTurns
  <2> QED BY <1>0, <2>1, <2>2
(* A turn from where a field ends.                                         *)
<1>7. /\ Turned(b, scanned, {}) = {}
      /\ \A at : Turned(b, scanned, {at}) = OnePlace(b, scanned, at)
  BY DEF Turned
<1>8. ASSUME NEW k \in 0 .. m, ends[k] = cut PROVE OnePlace(b, scanned, Place(k)) = {Place(k)}
  BY <1>1, <1>8 DEF OnePlace
<1>9. ASSUME NEW k \in 0 .. m - 1
      PROVE  OnePlace(b, scanned, Place(k)) = IF fields[k + 1].type = Delimited THEN {Place(k + 1)} ELSE {}
  <2>1. k \in Nat /\ k \in 0 .. n /\ k + 1 \in 0 .. n /\ k + 1 \in 1 .. n /\ k \in 0 .. n - 1 /\ k + 1 <= m
    BY <1>0
  <2>2. ends[k + 1] <= cut /\ ends[k] + 1 <= ends[k + 1] /\ ends[k] \in Nat /\ ends[k + 1] \in Nat
    <3>1. ends[k + 1] <= cut
      BY <2>1 DEF IsBefore
    <3>2. k < k + 1 /\ (k + 1) - k = 1
      BY <2>1
    <3>3. ends[k] + ((k + 1) - k) <= ends[k + 1]
      BY <1>0, <2>1, <3>2
    <3> QED BY <1>0, <2>1, <3>1, <3>2, <3>3
  <2>3. ends[k] # Len(b) /\ ends[k] <= cut
    BY <1>0, <1>1, <2>2
  <2> DEFINE field == [next |-> ends[k + 1], bytes |-> payload[k + 1], number |-> fields[k + 1].number]
  <2>4. scanned[ends[k]] = IF fields[k + 1].type = Delimited THEN {field} ELSE {}
    BY <1>3, <2>1, <2>2, <2>3
  <2>5. Append(ReadSoFar(fields, payload, ends, k), field) = ReadSoFar(fields, payload, ends, k + 1)
    <3> DEFINE F == ReadSoFar(fields, payload, ends, k)
               L == ReadSoFar(fields, payload, ends, k + 1)
    <3>1. F = [j \in 1 .. k |-> L[j]] /\ L[k + 1] = field
      BY <2>1 DEF ReadSoFar
    <3>2. Len(F) = k
      BY <2>1 DEF ReadSoFar
    <3>3. L = [j \in 1 .. k + 1 |-> L[j]]
      BY <2>1 DEF ReadSoFar
    <3>a. DOMAIN F = 1 .. k
      BY <3>1
    <3>b. Append(F, field) = [j \in 1 .. Len(F) + 1 |-> IF j = Len(F) + 1 THEN field ELSE F[j]]
      BY DEF ReadSoFar
    <3> HIDE DEF F, L, field
    <3>4. \A j \in 1 .. k + 1 : (IF j = k + 1 THEN field ELSE F[j]) = L[j]
      BY <2>1, <3>1
    <3>5. Append(F, field) = [j \in 1 .. k + 1 |-> L[j]]
      BY <3>2, <3>4, <3>b
    <3> QED BY <3>3, <3>5 DEF F, L, field
  <2>6. Place(k).offset = ends[k] /\ Place(k).fields = ReadSoFar(fields, payload, ends, k)
    OBVIOUS
  <2>7. field.next = ends[k + 1]
    OBVIOUS
  <2>8. OnePlace(b, scanned, Place(k)) =
          {[offset |-> f.next, fields |-> Append(ReadSoFar(fields, payload, ends, k), f)]
           : f \in scanned[ends[k]]}
    BY <2>3, <2>6 DEF OnePlace
  <2> HIDE DEF field
  <2>9. CASE fields[k + 1].type = Delimited
    <3>1. scanned[ends[k]] = {field}
      BY <2>4, <2>9
    <3>2. OnePlace(b, scanned, Place(k)) =
            {[offset |-> field.next, fields |-> Append(ReadSoFar(fields, payload, ends, k), field)]}
      BY <2>8, <3>1, Zenon
    <3> QED BY <2>5, <2>7, <2>9, <3>2
  <2>10. CASE fields[k + 1].type # Delimited
    <3>1. scanned[ends[k]] = {}
      BY <2>4, <2>10
    <3> QED BY <2>8, <2>10, <3>1
  <2> QED BY <2>9, <2>10
<1>10. ASSUME ends[m] # cut PROVE OnePlace(b, scanned, Place(m)) = {}
  <2>1. m < n
    <3> SUFFICES ASSUME m = n PROVE FALSE
      BY <1>0
    <3>1. ends[n] = Len(bytes) /\ Len(bytes) \in Nat /\ cut <= Len(bytes)
      BY DEF IsLaid
    <3> QED BY <1>0, <1>10, <3>1
  <2>2. m \in 0 .. n - 1 /\ m + 1 \in 1 .. n /\ ~ (m + 1 <= m)
    BY <1>0, <2>1
  <2>3. ~ (ends[m + 1] <= cut)
    BY <2>2 DEF IsBefore
  <2>4. scanned[ends[m]] = {}
    BY <1>0, <1>3, <2>2, <2>3
  <2> QED BY <1>1, <1>10, <2>4 DEF OnePlace
<1>11. ASSUME NEW k \in 0 .. cut - 1, k \in S PROVE k + 1 \in S
  <2>1. k \in Nat /\ k \in 0 .. cut /\ k + 1 \in 0 .. cut /\ k \in 0 .. Len(b) - 1
    BY <1>0, <1>1
  <2>2. turn[k + 1] = Turned(b, scanned, turn[k])
    BY <1>5, <2>1 DEF IsTurns
  <2>3. turn[k] = IF k <= m THEN Read(k) ELSE Whole
    BY <1>11
  <2> HIDE DEF Place
  <2>4. CASE k < m
    <3>1. k \in 0 .. m - 1 /\ k <= m /\ k + 1 <= m
      BY <1>0, <2>1, <2>4
    <3>2. AllDelimited(fields, k + 1) <=> AllDelimited(fields, k) /\ fields[k + 1].type = Delimited
      <4>1. \A j \in 1 .. k + 1 : j = k + 1 \/ j \in 1 .. k
        BY <2>1
      <4>2. k + 1 \in 1 .. k + 1 /\ \A j \in 1 .. k : j \in 1 .. k + 1
        BY <2>1
      <4> QED BY <4>1, <4>2 DEF AllDelimited
    <3>3. turn[k + 1] = Read(k + 1)
      BY <1>7, <1>9, <2>2, <2>3, <3>1, <3>2
    <3> QED BY <2>1, <3>1, <3>3
  <2>5. CASE k = m
    <3>1. k <= m /\ ~ (k + 1 <= m) /\ m \in 0 .. m
      BY <1>0, <2>1, <2>5
    <3>2. turn[k + 1] = Whole
      BY <1>7, <1>8, <1>10, <2>2, <2>3, <2>5, <3>1
    <3> QED BY <2>1, <3>1, <3>2
  <2>6. CASE k > m
    <3>1. ~ (k <= m) /\ ~ (k + 1 <= m) /\ m \in 0 .. m
      BY <1>0, <2>1, <2>6
    <3>2. turn[k + 1] = Whole
      BY <1>7, <1>8, <2>2, <2>3, <3>1
    <3> QED BY <2>1, <3>1, <3>2
  <2> QED BY <1>0, <2>1, <2>4, <2>5, <2>6
<1> HIDE DEF S
<1>12. \A k \in 0 .. cut : k \in S
  BY <1>0, <1>6, <1>11, BoundedInduction
<1>13. turn[cut] = Whole
  <2>1. cut \in 0 .. cut /\ m <= cut /\ (cut <= m => ends[m] = cut /\ cut = m)
    <3>1. CASE m = 0
      BY <1>0, <3>1
    <3>2. CASE m # 0
      <4>1. 0 \in 0 .. n /\ 0 < m /\ m - 0 = m
        BY <1>0, <3>2
      <4>2. ends[0] + (m - 0) <= ends[m]
        BY <1>0, <4>1
      <4> QED BY <1>0, <4>1, <4>2
    <3> QED BY <3>1, <3>2
  <2>2. turn[cut] = IF cut <= m THEN Read(cut) ELSE Whole
    BY <1>12, <2>1 DEF S
  <2> QED BY <2>1, <2>2
<1>14. ScannedFields(b) = {at.fields : at \in Whole}
  BY <1>1, <1>2, <1>5, <1>13
<1>15. Place(m).fields = ReadSoFar(fields, payload, ends, m)
  OBVIOUS
<1>16. ScannedFields(b) = IF ends[m] = cut /\ AllDelimited(fields, m)
                          THEN {ReadSoFar(fields, payload, ends, m)} ELSE {}
  <2> HIDE DEF Place
  <2>1. CASE ends[m] = cut /\ AllDelimited(fields, m)
    <3>1. Whole = {Place(m)}
      BY <2>1
    <3> HIDE DEF Whole
    <3>2. ScannedFields(b) = {Place(m).fields}
      BY <1>14, <3>1, Zenon
    <3> QED BY <1>15, <2>1, <3>2
  <2>2. CASE ~ (ends[m] = cut /\ AllDelimited(fields, m))
    <3>1. Whole = {}
      BY <2>2
    <3> QED BY <1>14, <2>2, <3>1
  <2> QED BY <2>1, <2>2
<1> QED BY <1>16 DEF b

(* A field written after the others.                                       *)
OneMore(payload2, ends2, payload, ends, n, body, end) ==
  /\ \A k \in 1 .. n : payload2[k] = payload[k]
  /\ \A k \in 0 .. n : ends2[k] = ends[k]
  /\ payload2[n + 1] = body /\ ends2[n + 1] = end

LEMMA LaidMore ==
  ASSUME NEW T, NEW bytes \in Seq(Byte), NEW fields \in Seq(T), NEW payload, NEW ends,
         IsLaid(bytes, fields, payload, ends),
         NEW f \in T, NEW body, NEW part, Written(f.number, f.type, body),
         IsField(part, f.number, f.type, body),
         NEW payload2, NEW ends2,
         OneMore(payload2, ends2, payload, ends, Len(fields), body, Len(bytes \o part))
  PROVE  IsLaid(bytes \o part, Append(fields, f), payload2, ends2)
<1> DEFINE n == Len(fields)
           more == Append(fields, f)
           all == bytes \o part
<1>0. part \in Seq(Byte) /\ Len(part) \in Nat
  BY FieldBytes
<1>b. /\ \A k \in 1 .. n : payload2[k] = payload[k]
      /\ \A k \in 0 .. n : ends2[k] = ends[k]
      /\ payload2[n + 1] = body /\ ends2[n + 1] = Len(all)
  BY DEF OneMore
<1>1. /\ all \in Seq(Byte) /\ Len(all) = Len(bytes) + Len(part) /\ Len(bytes) \in Nat
      /\ \A i \in 1 .. Len(bytes) : all[i] = bytes[i]
      /\ \A i \in 1 .. Len(part) : all[Len(bytes) + i] = part[i]
  BY <1>0
<1>2. /\ n \in Nat /\ Len(more) = n + 1 /\ more[n + 1] = f
      /\ \A k \in 0 .. n - 1 : more[k + 1] = fields[k + 1]
  OBVIOUS
<1>3. /\ ends[0] = 0 /\ ends[n] = Len(bytes) /\ \A k \in 0 .. n : ends[k] \in Nat
  BY DEF IsLaid
<1> DEFINE Laid(k) ==
             /\ Written(more[k + 1].number, more[k + 1].type, payload2[k + 1])
             /\ \E p : /\ IsField(p, more[k + 1].number, more[k + 1].type, payload2[k + 1])
                       /\ ends2[k + 1] = ends2[k] + Len(p)
                       /\ StartsAt(all, ends2[k], p)
<1>a. ends2[n + 1] = Len(all)
  BY <1>b
<1> HIDE DEF all, more
<1>4. ASSUME NEW k \in 0 .. n - 1 PROVE Laid(k)
  <2>1. k \in 0 .. n /\ k + 1 \in 0 .. n /\ k + 1 \in 1 .. n /\ n \in 0 .. n /\ k \in Nat
    BY <1>2
  <2>2. Written(fields[k + 1].number, fields[k + 1].type, payload[k + 1])
    BY DEF IsLaid
  <2>3. PICK p : /\ IsField(p, fields[k + 1].number, fields[k + 1].type, payload[k + 1])
                 /\ ends[k + 1] = ends[k] + Len(p)
                 /\ StartsAt(bytes, ends[k], p)
    BY DEF IsLaid
  <2>4. Len(p) \in Nat
    BY <2>2, <2>3, FieldBytes
  <2>5. ends[k + 1] <= Len(bytes)
    <3>1. CASE k + 1 = n
      BY <1>1, <1>3, <3>1
    <3>2. CASE k + 1 # n
      <4>1. k + 1 < n /\ n - (k + 1) \in Nat
        BY <1>2, <2>1, <3>2
      <4>2. ends[k + 1] + (n - (k + 1)) <= ends[n]
        BY <1>2, <2>1, <4>1, EndsGrow
      <4>3. ends[k + 1] \in Nat /\ ends[n] \in Nat
        BY <1>3, <2>1
      <4> QED BY <1>3, <4>1, <4>2, <4>3
    <3> QED BY <3>1, <3>2
  <2>6. StartsAt(all, ends[k], p)
    <3> SUFFICES ASSUME NEW i \in 1 .. Len(p), ends[k] + i <= Len(all) PROVE all[ends[k] + i] = p[i]
      BY DEF StartsAt
    <3>1. ends[k] \in Nat
      BY <1>3, <2>1
    <3>2. ends[k] + i <= Len(bytes) /\ ends[k] + i \in 1 .. Len(bytes)
      BY <1>1, <2>3, <2>4, <2>5, <3>1
    <3>3. bytes[ends[k] + i] = p[i]
      BY <2>3, <3>2 DEF StartsAt
    <3> QED BY <1>1, <3>2, <3>3
  <2>7. ends2[k] = ends[k] /\ ends2[k + 1] = ends[k + 1] /\ payload2[k + 1] = payload[k + 1]
    BY <1>b, <2>1
  <2> QED BY <1>2, <2>2, <2>3, <2>6, <2>7
<1>5. Laid(n)
  <2>1. n \in 0 .. n
    BY <1>2
  <2>2. ends2[n] = Len(bytes) /\ ends2[n + 1] = Len(bytes) + Len(part)
    BY <1>1, <1>3, <1>a, <1>b, <2>1
  <2>3. StartsAt(all, Len(bytes), part)
    BY <1>1 DEF StartsAt
  <2> QED BY <1>2, <1>b, <2>2, <2>3
<1>6. \A k \in 0 .. (n + 1) - 1 : Laid(k)
  <2>1. \A k \in 0 .. (n + 1) - 1 : k = n \/ k \in 0 .. n - 1
    BY <1>2
  <2> QED BY <1>4, <1>5, <2>1
<1>7. \A k \in 0 .. n + 1 : ends2[k] \in Nat
  <2>1. \A k \in 0 .. n + 1 : k = n + 1 \/ k \in 0 .. n
    BY <1>2
  <2>2. ends2[n + 1] \in Nat
    BY <1>0, <1>1, <1>a
  <2> QED BY <1>3, <1>b, <2>1, <2>2
<1>8. ends2[0] = 0
  <2>1. 0 \in 0 .. n
    BY <1>2
  <2> QED BY <1>3, <1>b, <2>1
<1>9. IsLaid(all, more, payload2, ends2)
  <2> HIDE DEF Laid, n
  <2>1. \A k \in 0 .. Len(more) - 1 : Laid(k)
    BY <1>2, <1>6
  <2> USE DEF Laid
  <2> QED BY <1>2, <1>7, <1>8, <1>a, <2>1 DEF IsLaid
<1> QED BY <1>9 DEF all, more

(* The bytes of an item are its fields, whatever each carries.             *)
ItemLaid(bytes, fields) == \E payload, ends : IsLaid(bytes, fields, payload, ends)

LEMMA ItemLaidMore ==
  ASSUME NEW T, NEW bytes \in Seq(Byte), NEW fields \in Seq(T), ItemLaid(bytes, fields),
         NEW f \in T, NEW body, NEW part, Written(f.number, f.type, body),
         IsField(part, f.number, f.type, body)
  PROVE  ItemLaid(bytes \o part, Append(fields, f))
<1>1. PICK payload, ends : IsLaid(bytes, fields, payload, ends)
  BY DEF ItemLaid
<1> DEFINE n == Len(fields)
           payload2 == [k \in 1 .. n + 1 |-> IF k = n + 1 THEN body ELSE payload[k]]
           ends2 == [k \in 0 .. n + 1 |-> IF k = n + 1 THEN Len(bytes \o part) ELSE ends[k]]
<1>2. n \in Nat
  OBVIOUS
<1>3. /\ \A k \in 1 .. n : payload2[k] = payload[k]
      /\ payload2[n + 1] = body
  BY <1>2
<1>4. /\ \A k \in 0 .. n : ends2[k] = ends[k]
      /\ ends2[n + 1] = Len(bytes \o part)
  BY <1>2
<1>a. OneMore(payload2, ends2, payload, ends, Len(fields), body, Len(bytes \o part))
  BY <1>3, <1>4 DEF OneMore
<1> HIDE DEF payload2, ends2, n
<1>5. IsLaid(bytes \o part, Append(fields, f), payload2, ends2)
  BY <1>1, <1>a, LaidMore
<1> QED BY <1>5 DEF ItemLaid

(* An item is of a kind when it has one field, of the type that is read    *)
(* (scan_item_kind, wire.rs:94-117).                                       *)
LEMMA KindOfLaid ==
  ASSUME NEW T, NEW bytes \in Seq(Byte), NEW fields \in Seq(T), ItemLaid(bytes, fields)
  PROVE  scan_item_kind(bytes) =
           IF Len(fields) = 1 /\ fields[1].type = Delimited THEN {fields[1].number} ELSE {}
<1>1. PICK payload, ends : IsLaid(bytes, fields, payload, ends)
  BY DEF ItemLaid
<1> DEFINE n == Len(fields)
           cut == Len(bytes)
           R == ReadSoFar(fields, payload, ends, n)
<1>2. n \in Nat /\ n \in 0 .. n /\ cut \in Nat /\ cut \in 0 .. cut
  OBVIOUS
<1>3. ends[n] = cut /\ \A k \in 0 .. n : ends[k] \in Nat
  BY <1>1 DEF IsLaid
<1>4. ASSUME NEW j \in 1 .. n PROVE ends[j] <= cut
  <2>1. CASE j = n
    BY <1>2, <1>3, <2>1
  <2>2. CASE j # n
    <3>1. j \in 0 .. n /\ j < n /\ n - j \in Nat
      BY <1>2, <2>2
    <3>2. ends[j] + (n - j) <= ends[n]
      BY <1>1, <1>2, <3>1, EndsGrow
    <3> QED BY <1>2, <1>3, <3>1, <3>2
  <2> QED BY <2>1, <2>2
<1>5. IsBefore(fields, ends, cut, n)
  BY <1>2, <1>3, <1>4 DEF IsBefore
<1>6. SubSeq(bytes, 1, cut) = bytes
  OBVIOUS
<1>7. ScannedFields(bytes) = IF AllDelimited(fields, n) THEN {R} ELSE {}
  <2> HIDE DEF R
  <2>1. ScannedFields(SubSeq(bytes, 1, cut)) =
          IF ends[n] = cut /\ AllDelimited(fields, n) THEN {ReadSoFar(fields, payload, ends, n)} ELSE {}
    BY <1>1, <1>2, <1>5, ScanLaid
  <2> QED BY <1>3, <1>6, <2>1 DEF R
<1>8. Len(R) = n /\ (n = 1 => R[1].number = fields[1].number)
  BY <1>2 DEF ReadSoFar
<1> HIDE DEF R
<1>9. CASE AllDelimited(fields, n) /\ n = 1
  <2>1. {f \in ScannedFields(bytes) : Len(f) = 1} = {R}
    BY <1>7, <1>8, <1>9
  <2>2. scan_item_kind(bytes) = {R[1].number}
    BY <2>1, Zenon DEF scan_item_kind
  <2>3. fields[1].type = Delimited
    BY <1>9 DEF AllDelimited
  <2> QED BY <1>8, <1>9, <2>2, <2>3
<1>10. CASE ~ (AllDelimited(fields, n) /\ n = 1)
  <2>1. {f \in ScannedFields(bytes) : Len(f) = 1} = {}
    BY <1>7, <1>8, <1>10
  <2>2. scan_item_kind(bytes) = {}
    BY <2>1 DEF scan_item_kind
  <2>3. ~ (n = 1 /\ fields[1].type = Delimited)
    BY <1>10 DEF AllDelimited
  <2> QED BY <2>2, <2>3
<1> QED BY <1>9, <1>10

(* What the writer has made: the fields of the block one after the other,  *)
(* each item what its own fields were.                                     *)
Inner     == [number : Nat, type : {0, Delimited}]
Outer     == [ends : Nat, number : Nat, type : {0, Delimited}, item : Seq(Byte), inside : Seq(Inner)]
EndsOf(w)  == [k \in 0 .. Len(w) |-> IF k = 0 THEN 0 ELSE w[k].ends]
ItemsOf(w) == [k \in 1 .. Len(w) |-> w[k].item]

WireInv ==
  /\ block_bytes \in Seq(Byte) /\ item \in Seq(Byte) /\ Len(block_bytes) + Len(item) <= MaxBytes
  /\ inside \in Seq(Inner) /\ written \in Seq(Outer)
  /\ ItemLaid(item, inside)
  /\ \A k \in 1 .. Len(written) : ItemLaid(written[k].item, written[k].inside)
  /\ IsLaid(block_bytes, written, ItemsOf(written), EndsOf(written))

(* What the writer is given fits.                                          *)
LEMMA WireConstantsAre ==
  /\ MaxBytes \in Nat /\ MaxBytes < TwoTo[IntBits] /\ TwoTo[IntBits] \in Nat
  /\ Delimited = 2
  /\ \A number \in FieldNumbers \cup RareNumbers : number \in Nat
  /\ \A payload \in FieldPayloads : payload \in Seq(Byte) /\ Len(payload) < TwoTo[IntBits]
BY WireConstants, ShiftIs DEF Delimited

LEMMA NothingLaid ==
  /\ ItemLaid(<< >>, << >>)
  /\ \A payload, ends : ends[0] = 0 => IsLaid(<< >>, << >>, payload, ends)
<1>1. Len(<< >>) = 0 /\ [k \in 0 .. 0 |-> 0][0] = 0
  OBVIOUS
<1>2. ASSUME NEW payload, NEW ends, ends[0] = 0 PROVE IsLaid(<< >>, << >>, payload, ends)
  BY <1>1, <1>2 DEF IsLaid
<1>3. ItemLaid(<< >>, << >>)
  <2>1. \E ends : ends[0] = 0
    BY <1>1
  <2> QED BY <1>2, <2>1 DEF ItemLaid
<1> QED BY <1>2, <1>3

LEMMA WireInvInit == WireInit => WireInv
<1> SUFFICES ASSUME WireInit PROVE WireInv
  OBVIOUS
<1>1. /\ block_bytes = << >> /\ item = << >> /\ inside = << >> /\ written = << >>
      /\ Len(<< >>) = 0
  BY DEF WireInit
<1>2. << >> \in Seq(Byte) /\ << >> \in Seq(Inner) /\ << >> \in Seq(Outer)
  OBVIOUS
<1>3. EndsOf(<< >>)[0] = 0
  BY <1>1 DEF EndsOf
<1>4. IsLaid(<< >>, << >>, ItemsOf(<< >>), EndsOf(<< >>))
  BY <1>3, NothingLaid
<1> QED BY <1>1, <1>2, <1>4, NothingLaid, WireConstantsAre DEF WireInv

LEMMA WireInvStep == WireInv /\ [WireNext]_wire => WireInv'
<1> SUFFICES ASSUME WireInv, [WireNext]_wire PROVE WireInv'
  OBVIOUS
<1>0. /\ block_bytes \in Seq(Byte) /\ item \in Seq(Byte) /\ Len(block_bytes) + Len(item) <= MaxBytes
      /\ inside \in Seq(Inner) /\ written \in Seq(Outer)
      /\ ItemLaid(item, inside)
      /\ \A k \in 1 .. Len(written) : ItemLaid(written[k].item, written[k].inside)
      /\ IsLaid(block_bytes, written, ItemsOf(written), EndsOf(written))
  BY DEF WireInv
<1>1. Len(block_bytes) \in Nat /\ Len(item) \in Nat
  BY <1>0
<1>2. ASSUME NEW number \in FieldNumbers \cup RareNumbers, NEW type \in {0, Delimited},
             NEW payload \in FieldPayloads, WriteInner(number, type, payload)
      PROVE  WireInv'
  <2>1. PICK field \in Field(number, type, payload) :
          /\ Fits(field) /\ item' = item \o field.bytes
          /\ inside' = Append(inside, [number |-> number, type |-> type])
          /\ UNCHANGED <<block_bytes, written>>
    BY <1>2 DEF WriteInner
  <2>2. Written(number, type, payload)
    BY WireConstantsAre DEF Written
  <2>3. IsField(field.bytes, number, type, payload)
    BY <2>2, FieldIs
  <2> DEFINE f == [number |-> number, type |-> type]
             part == field.bytes
  <2>4. f \in Inner /\ f.number = number /\ f.type = type
    BY WireConstantsAre DEF Inner
  <2>5. part \in Seq(Byte) /\ Len(part) \in Nat
    BY <2>2, <2>3, FieldBytes
  <2>6. item' = item \o part /\ inside' = Append(inside, f)
    BY <2>1
  <2>7. Len(block_bytes) + Len(item) + Len(part) <= MaxBytes
    BY <2>1 DEF Fits
  <2> HIDE DEF f, part
  <2>8. item' \in Seq(Byte) /\ Len(item') = Len(item) + Len(part) /\ inside' \in Seq(Inner)
    BY <1>0, <2>4, <2>5, <2>6
  <2>9. ItemLaid(item \o part, Append(inside, f))
    <3>1. Written(f.number, f.type, payload) /\ IsField(part, f.number, f.type, payload)
      BY <2>2, <2>3, <2>4 DEF part
    <3> QED BY <1>0, <2>4, <3>1, ItemLaidMore
  <2>10. Len(block_bytes') + Len(item') <= MaxBytes
    BY <1>1, <2>1, <2>5, <2>7, <2>8
  <2> QED BY <1>0, <2>1, <2>6, <2>8, <2>9, <2>10 DEF WireInv
<1>3. ASSUME NEW number \in {1} \cup RareNumbers, NEW type \in {0, Delimited}, WriteField(number, type)
      PROVE  WireInv'
  <2>1. PICK field \in Field(number, type, item) :
          /\ Len(block_bytes) + Len(field.bytes) <= MaxBytes
          /\ block_bytes' = block_bytes \o field.bytes
          /\ written' = Append(written, [ends |-> Len(block_bytes'), number |-> number, type |-> type,
                                         item |-> item, inside |-> inside])
          /\ item' = << >> /\ inside' = << >>
    BY <1>3 DEF WriteField
  <2>2. Written(number, type, item)
    <3>1. Len(item) < TwoTo[IntBits]
      BY <1>0, <1>1, WireConstantsAre
    <3> QED BY <1>0, <3>1 DEF Written
  <2>3. IsField(field.bytes, number, type, item)
    BY <2>2, FieldIs
  <2> DEFINE part == field.bytes
             all == block_bytes \o part
             f == [ends |-> Len(all), number |-> number, type |-> type,
                   item |-> item, inside |-> inside]
             more == Append(written, f)
             n == Len(written)
  <2>4. part \in Seq(Byte) /\ Len(part) \in Nat
    BY <2>2, <2>3, FieldBytes
  <2>5. all \in Seq(Byte) /\ Len(all) = Len(block_bytes) + Len(part) /\ Len(all) \in Nat
    BY <1>0, <2>4
  <2>6. /\ f \in Outer /\ f.number = number /\ f.type = type /\ f.ends = Len(all)
        /\ f.item = item /\ f.inside = inside
    <3>1. number \in Nat
      BY WireConstantsAre
    <3> HIDE DEF all
    <3> QED BY <1>0, <2>5, <3>1 DEF Outer
  <2>7. written' = more /\ block_bytes' = all
    BY <2>1
  <2>a. item' = << >> /\ inside' = << >> /\ Len(block_bytes) + Len(part) <= MaxBytes
    BY <2>1
  <2>b. IsField(part, f.number, f.type, f.item) /\ Written(f.number, f.type, f.item)
    BY <2>2, <2>3
  <2> HIDE DEF f, part
  <2>8. /\ more \in Seq(Outer) /\ Len(more) = n + 1 /\ n \in Nat /\ more[n + 1] = f
        /\ \A k \in 1 .. n : more[k] = written[k]
    BY <1>0, <2>6
  <2>9. IsLaid(all, more, ItemsOf(more), EndsOf(more))
    <3>1. OneMore(ItemsOf(more), EndsOf(more), ItemsOf(written), EndsOf(written), n, f.item, Len(all))
      <4> HIDE DEF more, all
      <4>1. \A k \in 1 .. n : ItemsOf(more)[k] = ItemsOf(written)[k]
        BY <2>8 DEF ItemsOf
      <4>2. \A k \in 0 .. n : EndsOf(more)[k] = EndsOf(written)[k]
        BY <2>8 DEF EndsOf
      <4>3. ItemsOf(more)[n + 1] = f.item /\ EndsOf(more)[n + 1] = Len(all)
        <5>1. n + 1 \in 1 .. Len(more) /\ n + 1 \in 0 .. Len(more) /\ n + 1 # 0
          BY <2>8
        <5> QED BY <2>6, <2>8, <5>1 DEF ItemsOf, EndsOf
      <4> QED BY <4>1, <4>2, <4>3 DEF OneMore
    <3> DEFINE pays == ItemsOf(written)
               ends == EndsOf(written)
               pays2 == ItemsOf(more)
               ends2 == EndsOf(more)
               body == f.item
    <3>2. /\ OneMore(pays2, ends2, pays, ends, Len(written), body, Len(block_bytes \o part))
          /\ IsLaid(block_bytes, written, pays, ends)
          /\ IsField(part, f.number, f.type, body) /\ Written(f.number, f.type, body)
      BY <1>0, <2>b, <3>1
    <3> HIDE DEF pays, ends, pays2, ends2, body
    <3>3. IsLaid(block_bytes \o part, Append(written, f), pays2, ends2)
      BY <1>0, <2>6, <3>2, LaidMore
    <3> QED BY <3>3 DEF pays2, ends2
  <2>10. \A k \in 1 .. n + 1 : ItemLaid(more[k].item, more[k].inside)
    <3>1. \A k \in 1 .. n + 1 : k = n + 1 \/ k \in 1 .. n
      BY <2>8
    <3>2. ItemLaid(f.item, f.inside)
      BY <1>0, <2>6
    <3> HIDE DEF more
    <3>3. \A k \in 1 .. n : ItemLaid(more[k].item, more[k].inside)
      BY <1>0, <2>8
    <3> QED BY <2>8, <3>1, <3>2, <3>3
  <2>11. ItemLaid(<< >>, << >>) /\ << >> \in Seq(Byte) /\ << >> \in Seq(Inner) /\ Len(<< >>) = 0
    BY NothingLaid
  <2> HIDE DEF more, all, n
  <2>12. /\ block_bytes' \in Seq(Byte) /\ Len(block_bytes') + Len(item') <= MaxBytes
    BY <1>1, <2>4, <2>5, <2>7, <2>a, <2>11
  <2>13. \A k \in 1 .. Len(written') : ItemLaid(written'[k].item, written'[k].inside)
    BY <2>7, <2>8, <2>10
  <2>14. IsLaid(block_bytes', written', ItemsOf(written'), EndsOf(written'))
    BY <2>7, <2>9
  <2>15. ItemLaid(item', inside') /\ item' \in Seq(Byte) /\ inside' \in Seq(Inner) /\ written' \in Seq(Outer)
    BY <2>7, <2>8, <2>a, <2>11
  <2> QED BY <2>12, <2>13, <2>14, <2>15 DEF WireInv
<1>4. CASE UNCHANGED wire
  BY <1>0, <1>4 DEF wire, WireInv
<1> QED BY <1>2, <1>3, <1>4 DEF WireNext

(* The fields that have ended by a cut are the first ones, and so many.    *)
CountBefore(fields, ends, cut) == Cardinality({k \in 1 .. Len(fields) : ends[k] <= cut})

LEMMA BeforeTheCut ==
  ASSUME NEW bytes \in Seq(Byte), NEW fields, NEW payload, NEW ends, Len(fields) \in Nat,
         IsLaid(bytes, fields, payload, ends), NEW cut \in 0 .. Len(bytes)
  PROVE  \E m \in Nat : /\ m = CountBefore(fields, ends, cut)
                        /\ IsBefore(fields, ends, cut, m)
                        /\ ends[m] = cut <=> (cut = 0 \/ \E k \in 1 .. m : ends[k] = cut)
<1> DEFINE n == Len(fields)
           Past == {k \in Nat : k >= n \/ \E j \in 1 .. n : j = k + 1 /\ cut < ends[j]}
<1>1. /\ n \in Nat /\ ends[0] = 0 /\ cut \in Nat
      /\ \A k \in 0 .. n : ends[k] \in Nat
      /\ \A a, b \in 0 .. n : a < b => ends[a] + (b - a) <= ends[b]
  <2>1. n \in Nat /\ cut \in Nat
    OBVIOUS
  <2>2. ends[0] = 0 /\ \A k \in 0 .. n : ends[k] \in Nat
    BY DEF IsLaid
  <2>3. \A a, b \in 0 .. n : a < b => ends[a] + (b - a) <= ends[b]
    BY <2>1, EndsGrow
  <2> QED BY <2>1, <2>2, <2>3
<1>2. n \in Past /\ Past \subseteq Nat
  BY <1>1
<1>3. PICK m \in Past : \A k \in Past : ~ (k < m)
  <2> HIDE DEF Past
  <2> QED BY <1>2, LeastNumber
<1>4. m \in Nat /\ m <= n /\ m \in 0 .. n
  BY <1>1, <1>2, <1>3
<1>5. \A a, b \in 0 .. n : a <= b => ends[a] <= ends[b]
  <2> TAKE a, b \in 0 .. n
  <2>1. CASE a = b
    BY <1>1, <2>1
  <2>2. CASE a < b
    <3>1. ends[a] + (b - a) <= ends[b] /\ ends[a] \in Nat /\ ends[b] \in Nat /\ b - a \in Nat
      BY <1>1, <2>2
    <3> QED BY <3>1
  <2>3. a \in Nat /\ b \in Nat
    BY <1>1
  <2> QED BY <2>1, <2>2, <2>3
<1>6. ASSUME NEW j \in 1 .. n, j <= m PROVE ends[j] <= cut
  <2>1. j - 1 \in Nat /\ j - 1 < m /\ (j - 1) + 1 = j
    BY <1>4, <1>6
  <2>2. j - 1 \notin Past
    BY <1>3, <2>1
  <2>3. ~ (cut < ends[j])
    BY <2>1, <2>2
  <2>4. j \in 0 .. n
    BY <1>1
  <2>5. ends[j] \in Nat
    BY <1>1, <2>4
  <2> QED BY <1>1, <2>3, <2>5
<1>7. ASSUME NEW j \in 1 .. n, ~ (j <= m) PROVE ~ (ends[j] <= cut)
  <2>1. m < n /\ m + 1 <= j /\ m + 1 \in 0 .. n /\ j \in 0 .. n
    BY <1>1, <1>4, <1>7
  <2>2. cut < ends[m + 1]
    BY <1>1, <1>3, <1>4, <2>1
  <2>3. ends[m + 1] <= ends[j] /\ ends[m + 1] \in Nat /\ ends[j] \in Nat
    BY <1>1, <1>5, <2>1
  <2> QED BY <1>1, <2>2, <2>3
<1>8. ends[m] <= cut
  <2>1. CASE m = 0
    BY <1>1, <2>1
  <2>2. CASE m # 0
    <3>1. m \in 1 .. n /\ m <= m
      BY <1>4, <2>2
    <3> QED BY <1>6, <3>1
  <2> QED BY <2>1, <2>2
<1>9. IsBefore(fields, ends, cut, m)
  BY <1>4, <1>6, <1>7, <1>8 DEF IsBefore
<1>10. {k \in 1 .. n : ends[k] <= cut} = 1 .. m
  <2>1. \A k : k \in 1 .. m <=> k \in 1 .. n /\ k <= m
    BY <1>4
  <2> QED BY <1>6, <1>7, <2>1
<1>11. Cardinality(1 .. m) = m
  <2>1. Cardinality(1 .. m) = IF 1 > m THEN 0 ELSE m - 1 + 1
    BY <1>4, FS_Interval
  <2> QED BY <1>4, <2>1
<1>12. ends[m] = cut <=> (cut = 0 \/ \E k \in 1 .. m : ends[k] = cut)
  <2>1. ASSUME ends[m] = cut PROVE cut = 0 \/ \E k \in 1 .. m : ends[k] = cut
    <3>1. CASE m = 0
      BY <1>1, <2>1, <3>1
    <3>2. CASE m # 0
      <4>1. m \in 1 .. m
        BY <1>4, <3>2
      <4> QED BY <2>1, <4>1
    <3> QED BY <3>1, <3>2
  <2>2. ends[m] \in Nat
    BY <1>1, <1>4
  <2>3. ASSUME cut = 0 PROVE ends[m] = cut
    BY <1>1, <1>8, <2>2, <2>3
  <2>4. ASSUME NEW k \in 1 .. m, ends[k] = cut PROVE ends[m] = cut
    <3>1. k \in 0 .. n /\ k <= m
      BY <1>4
    <3>2. ends[k] <= ends[m]
      BY <1>4, <1>5, <3>1
    <3> QED BY <1>1, <1>8, <2>2, <2>4, <3>2
  <2> QED BY <2>1, <2>3, <2>4
<1>13. m = CountBefore(fields, ends, cut)
  BY <1>10, <1>11 DEF CountBefore
<1> HIDE DEF Past
<1> QED BY <1>4, <1>9, <1>12, <1>13

(* What is found before a cut is what was written before it.               *)
LEMMA ScanOfCut ==
  ASSUME WireInv, NEW cut \in 0 .. Len(block_bytes)
  PROVE  LET scan   == scan_block_items(SubSeq(block_bytes, 1, cut))
             before == SubSeq(written, 1, Cardinality({k \in DOMAIN written : written[k].ends <= cut}))
             items  == Numbered(before, {1})
             Sound(w) == /\ w.type = Delimited
                         /\ w.number = 1 => Len(w.inside) = 1 /\ w.inside[1].type = Delimited
         IN  IF /\ cut = 0 \/ \E k \in DOMAIN before : before[k].ends = cut
                /\ \A k \in DOMAIN before : Sound(before[k])
             THEN scan = {[k \in DOMAIN items |-> [kind  |-> items[k].inside[1].number,
                                                   bytes |-> items[k].item]]}
             ELSE scan = {}
<1> DEFINE ends == EndsOf(written)
           pays == ItemsOf(written)
           n    == Len(written)
           b    == SubSeq(block_bytes, 1, cut)
           m    == Cardinality({k \in 1 .. n : ends[k] <= cut})
           before == SubSeq(written, 1, Cardinality({k \in DOMAIN written : written[k].ends <= cut}))
           R     == ReadSoFar(written, pays, ends, m)
           items == Numbered(before, {1})
           found == Numbered(R, {1})
           Sound(w) == /\ w.type = Delimited
                       /\ w.number = 1 => Len(w.inside) = 1 /\ w.inside[1].type = Delimited
           Kind(w)  == Len(w.inside) = 1 /\ w.inside[1].type = Delimited
           Scan(f)  == [i \in DOMAIN f |-> [kind  |-> CHOOSE kind \in scan_item_kind(f[i].bytes) : TRUE,
                                            bytes |-> f[i].bytes]]
           AllKinds(f) == \A i \in DOMAIN f : scan_item_kind(f[i].bytes) # {}
           Shown(s) == [k \in DOMAIN s |-> [kind  |-> s[k].inside[1].number, bytes |-> s[k].item]]
           Whole == cut = 0 \/ \E k \in DOMAIN before : before[k].ends = cut
<1>0. /\ block_bytes \in Seq(Byte) /\ written \in Seq(Outer) /\ n \in Nat /\ DOMAIN written = 1 .. n
      /\ \A k \in 1 .. n : ItemLaid(written[k].item, written[k].inside)
      /\ IsLaid(block_bytes, written, pays, ends)
  BY DEF WireInv
<1>1. \A k \in 1 .. n : ends[k] = written[k].ends /\ pays[k] = written[k].item
  BY <1>0 DEF EndsOf, ItemsOf
<1>2. {k \in DOMAIN written : written[k].ends <= cut} = {k \in 1 .. n : ends[k] <= cut}
  BY <1>0, <1>1
<1>3. before = SubSeq(written, 1, m)
  BY <1>2
<1>4. /\ m \in Nat /\ IsBefore(written, ends, cut, m)
      /\ ends[m] = cut <=> (cut = 0 \/ \E k \in 1 .. m : ends[k] = cut)
  <2>1. \E c \in Nat : /\ c = CountBefore(written, ends, cut)
                       /\ IsBefore(written, ends, cut, c)
                       /\ ends[c] = cut <=> (cut = 0 \/ \E k \in 1 .. c : ends[k] = cut)
    <3> HIDE DEF ends, pays
    <3> QED BY <1>0, BeforeTheCut
  <2>2. m = CountBefore(written, ends, cut)
    BY DEF CountBefore
  <2> HIDE DEF m
  <2> QED BY <2>1, <2>2
<1> HIDE DEF m
<1>5. m \in 0 .. n /\ m <= n
  BY <1>4, <1>0 DEF IsBefore
<1>6. /\ before \in Seq(Outer) /\ Len(before) = m /\ DOMAIN before = 1 .. m
      /\ \A k \in 1 .. m : before[k] = written[k] /\ k \in 1 .. n
  <2> HIDE DEF before, n
  <2>1. \A k \in 1 .. m : k \in 1 .. n
    BY <1>0, <1>5
  <2>2. SubSeq(written, 1, m) = [k \in 1 .. m |-> written[k]]
    BY <1>0, <1>4, <1>5 DEF n
  <2>3. \A k \in 1 .. m : written[k] \in Outer
    BY <1>0, <2>1 DEF n
  <2> QED BY <1>3, <1>4, <2>1, <2>2, <2>3
<1>7. scan_block_items(b) = {Scan(f) : f \in {g \in {Numbered(fields, {1}) : fields \in ScannedFields(b)} :
                                               AllKinds(g)}}
  BY Zenon DEF scan_block_items
<1> HIDE DEF ends, pays, before
<1>8. ScannedFields(b) = IF ends[m] = cut /\ AllDelimited(written, m) THEN {R} ELSE {}
  BY <1>0, <1>4, ScanLaid
<1>9. ends[m] = cut <=> Whole
  BY <1>1, <1>4, <1>6
<1>10. /\ DOMAIN R = 1 .. m /\ Len(R) = m /\ R \in Seq({R[k] : k \in 1 .. m})
       /\ \A k \in 1 .. m : R[k].number = written[k].number /\ R[k].bytes = written[k].item
  <2>1. R = [j \in 1 .. m |-> [next |-> ends[j], bytes |-> pays[j], number |-> written[j].number]]
    BY DEF ReadSoFar
  <2>2. R = [j \in 1 .. m |-> R[j]] /\ DOMAIN R = 1 .. m
    BY <2>1
  <2>3. \A k \in 1 .. m : R[k].number = written[k].number /\ R[k].bytes = pays[k]
    BY <2>1
  <2> HIDE DEF R
  <2>4. Len(R) = m /\ R \in Seq({R[k] : k \in 1 .. m})
    BY <1>4, <2>2
  <2> QED BY <1>1, <1>6, <2>2, <2>3, <2>4
<1> HIDE DEF R, b
<1>11. Together(found, items, R, before, {1}, m) /\ items \in Seq(Outer)
       /\ found \in Seq({R[k] : k \in 1 .. m})
  <2>1. \A k \in 1 .. Len(R) : R[k].number = before[k].number
    BY <1>6, <1>10
  <2> QED BY <1>6, <1>10, <2>1, NumberedTogether
<1> HIDE DEF found, items
<1>12. DOMAIN found = 1 .. Len(found) /\ DOMAIN items = 1 .. Len(found) /\ Len(items) = Len(found)
  BY <1>11 DEF Together
<1>13. ASSUME NEW k \in 1 .. m
       PROVE  scan_item_kind(R[k].bytes) = IF Kind(written[k]) THEN {written[k].inside[1].number} ELSE {}
  <2>1. written[k] \in Outer /\ ItemLaid(written[k].item, written[k].inside)
    BY <1>0, <1>6
  <2>2. written[k].item \in Seq(Byte) /\ written[k].inside \in Seq(Inner)
    BY <2>1 DEF Outer
  <2>3. scan_item_kind(written[k].item) = IF Kind(written[k]) THEN {written[k].inside[1].number} ELSE {}
    BY <2>1, <2>2, KindOfLaid
  <2>4. R[k].bytes = written[k].item
    BY <1>10
  <2> QED BY <2>3, <2>4
<1>14. AllKinds(found) <=> \A k \in 1 .. m : written[k].number = 1 => Kind(written[k])
  <2>1. ASSUME AllKinds(found), NEW k \in 1 .. m, written[k].number = 1 PROVE Kind(written[k])
    <3>1. R[k].number \in {1}
      BY <1>10, <2>1
    <3>2. PICK i \in 1 .. Len(found) : found[i] = R[k]
      BY <1>11, <3>1 DEF Together
    <3>3. scan_item_kind(R[k].bytes) # {}
      BY <1>12, <2>1, <3>2
    <3> QED BY <1>13, <3>3
  <2>2. ASSUME \A k \in 1 .. m : written[k].number = 1 => Kind(written[k]), NEW i \in DOMAIN found
        PROVE  scan_item_kind(found[i].bytes) # {}
    <3>1. PICK k \in 1 .. m : R[k].number \in {1} /\ found[i] = R[k]
      BY <1>11, <1>12 DEF Together
    <3>2. Kind(written[k])
      BY <1>10, <2>2, <3>1
    <3> HIDE DEF Kind
    <3> QED BY <1>13, <3>1, <3>2
  <2> HIDE DEF Kind
  <2> QED BY <2>1, <2>2
<1>15. ASSUME AllKinds(found) PROVE Scan(found) = Shown(items)
  <2>1. ASSUME NEW i \in 1 .. Len(found)
        PROVE  /\ (CHOOSE kind \in scan_item_kind(found[i].bytes) : TRUE) = items[i].inside[1].number
               /\ found[i].bytes = items[i].item
    <3>1. PICK k \in 1 .. m : R[k].number \in {1} /\ found[i] = R[k] /\ items[i] = before[k]
      BY <1>11 DEF Together
    <3>2. items[i] = written[k] /\ found[i].bytes = items[i].item
      BY <1>6, <1>10, <3>1
    <3>3. scan_item_kind(R[k].bytes) # {}
      BY <1>12, <1>15, <3>1
    <3>4. scan_item_kind(R[k].bytes) = {written[k].inside[1].number}
      BY <1>13, <3>3
    <3> QED BY <3>1, <3>2, <3>4
  <2> QED BY <1>12, <2>1
<1>16. (\A k \in DOMAIN before : Sound(before[k]))
         <=> AllDelimited(written, m) /\ \A k \in 1 .. m : written[k].number = 1 => Kind(written[k])
  BY <1>6 DEF AllDelimited
<1> HIDE DEF Kind, Sound, Scan, AllKinds, Shown, Whole
<1>17. CASE Whole /\ \A k \in DOMAIN before : Sound(before[k])
  <2>1. ScannedFields(b) = {R}
    BY <1>8, <1>9, <1>16, <1>17
  <2>2. {Numbered(fields, {1}) : fields \in ScannedFields(b)} = {found}
    BY <2>1, Zenon DEF found
  <2>3. AllKinds(found)
    BY <1>14, <1>16, <1>17
  <2>4. {g \in {Numbered(fields, {1}) : fields \in ScannedFields(b)} : AllKinds(g)} = {found}
    BY <2>2, <2>3
  <2>5. scan_block_items(b) = {Scan(found)}
    BY <1>7, <2>4, Zenon
  <2>6. scan_block_items(b) = {Shown(items)}
    BY <1>15, <2>3, <2>5
  <2> QED BY <1>17, <2>6 DEF b, items, before, Shown, Sound, Whole
<1>18. CASE ~ (Whole /\ \A k \in DOMAIN before : Sound(before[k]))
  <2>1. {g \in {Numbered(fields, {1}) : fields \in ScannedFields(b)} : AllKinds(g)} = {}
    <3>1. CASE ScannedFields(b) = {}
      BY <3>1
    <3>2. CASE ScannedFields(b) # {}
      <4>1. ScannedFields(b) = {R} /\ ~ AllKinds(found)
        BY <1>8, <1>9, <1>14, <1>16, <1>18, <3>2
      <4>2. {Numbered(fields, {1}) : fields \in ScannedFields(b)} = {found}
        BY <4>1, Zenon DEF found
      <4> QED BY <4>1, <4>2
    <3> QED BY <3>1, <3>2
  <2>2. scan_block_items(b) = {}
    BY <1>7, <2>1
  <2> QED BY <1>18, <2>2 DEF b, items, before, Shown, Sound, Whole
<1> QED BY <1>17, <1>18

LEMMA WireInvHolds == WireSpec => []WireInv
<1> QED BY WireInvInit, WireInvStep, PTL DEF WireSpec

(* Wherever a file is cut off, the scan fails or finds the items written   *)
(* before the cut, for every width of a varint, every way of padding one   *)
(* and files of any fields (scan_block_items, scan_item_kind,              *)
(* wire.rs:70-117).                                                        *)
THEOREM ScanIsWhatWasWrittenForever == WireSpec => []ScanIsWhatWasWritten
<1>1. WireInv => ScanIsWhatWasWritten
  BY ScanOfCut DEF ScanIsWhatWasWritten
<1> QED BY <1>1, WireInvHolds, PTL

(* The scan and the typed decoder, where both accept a file, show the same *)
(* items of the same kinds (material.rs:216, block/mod.rs:257).            *)
THEOREM ScanAgreesForever == WireSpec => []ScanAgreesWithDecoder
<1>1. WireInv => ScanAgreesWithDecoder
  <2> SUFFICES ASSUME WireInv, NEW cut \in 0 .. Len(block_bytes)
               PROVE  \A items \in scan_block_items(SubSeq(block_bytes, 1, cut)),
                         kinds \in Decoded(SubSeq(block_bytes, 1, cut)) :
                        kinds = [k \in DOMAIN items |->
                                   IF items[k].kind \in KnownFields THEN items[k].kind ELSE 0]
    BY DEF ScanAgreesWithDecoder
  <2>1. SubSeq(block_bytes, 1, cut) \in Seq(Byte)
    BY CutStarts DEF WireInv
  <2> QED BY <2>1, SameItems
<1> QED BY <1>1, WireInvHolds, PTL
----------------------------------------------------------------------------
(* What is proved of a parser holds of it beside the others: none of them  *)
(* touches another's state (parse_block, mod.rs:254, and day_from_seconds, *)
(* transaction.rs:124, are functions of their bytes).                      *)
LEMMA EachParserIsItsOwn == ParsersSpec => Spec /\ WireSpec /\ RowsSpec /\ CalendarSpec
<1>1. ParsersInit => Init /\ WireInit /\ RowsInit /\ CalendarInit
  BY DEF ParsersInit
<1>2. [ParsersNext]_<<vars, wire, rows, calendar>> => /\ [Next]_vars /\ [WireNext]_wire
                                                        /\ [RowsNext]_rows /\ [CalendarNext]_calendar
  BY DEF ParsersNext, PairItems, ScanBytes, MakeRows, TurnCalendar
<1> QED BY <1>1, <1>2, PTL DEF ParsersSpec, Spec, WireSpec, RowsSpec, CalendarSpec

(* So the parsers side by side pair every result with its own body, find   *)
(* the items that were written, file every second under its own day, and   *)
(* make one row of a transaction in both eras (block/mod.rs:254-299,       *)
(* wire.rs:70-117, transaction.rs:124-136, record/mod.rs:155).             *)
THEOREM ParsersSafe ==
  ASSUME OrphanPlaces = {"following"}
  PROVE  ParsersSpec => [](/\ TypeOK /\ RowsHaveTheirOwnBody
                           /\ ScanIsWhatWasWritten /\ ScanAgreesWithDecoder
                           /\ RowsAgree /\ SecondsFallOnTheirDay)
BY EachParserIsItsOwn, PairedForever, PairingTypes, ScanIsWhatWasWrittenForever, ScanAgreesForever,
   RowsAgreeForever, RowsOnTheirDay, PTL
=============================================================================
