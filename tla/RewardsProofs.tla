---------------------------- MODULE RewardsProofs ----------------------------
(***************************************************************************)
(* What holds of the reward accounting for every calendar, price and size. *)
(*                                                                         *)
(* tvl_sol and tvl_usdc are zero when the global state is created and no   *)
(* handler writes them, so distribute never gets past `if tvl_usd > 0`: it *)
(* only moves the time of the last distribution on (DistributeOnlyStamps). *)
(* From there on everything that is computed from the reward per share is  *)
(* zero, and the vault changes by deposits, withdrawals and stray tokens.  *)
(*                                                                         *)
(* The first sections are about the calendar alone: that the conversion of *)
(* a time gives its date, how many days two dates are apart, and that the  *)
(* code's comparison of dates finds a reset between two times (RedeemTime). *)
(***************************************************************************)
EXTENDS Rewards, Sums, TLAPS

-----------------------------------------------------------------------------
(* The calendar.  Its days are counted from 1970, so every year of a time  *)
(* is at least 1970.                                                       *)

Years == {y \in Nat : 1970 <= y}

YearLength(y) == 365 + (IF IsLeap(y) THEN 1 ELSE 0)

LEMMA NextYear ==
  ASSUME NEW y \in Years
  PROVE  YearStart(y + 1) = YearStart(y) + YearLength(y)
<1>1. y \div 4 - (y - 1) \div 4 = IF y % 4 = 0 THEN 1 ELSE 0
  BY DEF Years
<1>2. y \div 100 - (y - 1) \div 100 = IF y % 100 = 0 THEN 1 ELSE 0
  BY DEF Years
<1>3. y \div 400 - (y - 1) \div 400 = IF y % 400 = 0 THEN 1 ELSE 0
  BY DEF Years
<1>4. (y % 100 = 0 => y % 4 = 0) /\ (y % 400 = 0 => y % 100 = 0)
  BY DEF Years
<1>5. (y + 1) - 1 = y
  BY DEF Years
<1> DEFINE a == y \div 4
           b == (y - 1) \div 4
           c == y \div 100
           d == (y - 1) \div 100
           e == y \div 400
           f == (y - 1) \div 400
<1>6. /\ a \in Nat /\ b \in Nat /\ c \in Nat /\ d \in Nat /\ e \in Nat /\ f \in Nat
      /\ y \in Nat /\ 1970 <= y
  BY DEF Years
<1>7. /\ YearStart(y + 1) = 365 * ((y + 1) - 1970) + ((a - c + e) - 477)
      /\ YearStart(y) = 365 * (y - 1970) + ((b - d + f) - 477)
  BY <1>5 DEF YearStart
<1>8. (a - c + e) - (b - d + f) = IF IsLeap(y) THEN 1 ELSE 0
  BY <1>1, <1>2, <1>3, <1>4, <1>6 DEF IsLeap
<1> HIDE DEF a, b, c, d, e, f
<1>9. QED
  BY <1>6, <1>7, <1>8 DEF YearLength

(* A calendar without leap years is too short, one of leap years too long. *)
LEMMA YearBounds ==
  ASSUME NEW y \in Years
  PROVE  /\ YearStart(y) \in Nat
         /\ 365 * (y - 1970) <= YearStart(y)
         /\ YearStart(y) <= 366 * (y - 1970)
<1> DEFINE n == y - 1
           a == n \div 4
           b == n \div 100
           c == n \div 400
<1>1. n \in Nat /\ 1969 <= n /\ y = n + 1
  BY DEF Years
<1> HIDE DEF n
<1>2. /\ a \in Nat /\ 4 * a <= n /\ n < 4 * a + 4
      /\ b \in Nat /\ 100 * b <= n /\ n < 100 * b + 100
      /\ c \in Nat /\ 400 * c <= n /\ n < 400 * c + 400
  BY <1>1
<1>3. YearStart(y) = 365 * (y - 1970) + ((a - b + c) - 477)
  BY DEF YearStart, n
<1> HIDE DEF a, b, c
<1>4. 492 <= a /\ 19 <= b /\ 4 <= c
  BY <1>1, <1>2
<1>5. (a - b + c) - 477 >= 0
  <2>1. CASE b = 19
    BY <1>2, <1>4, <2>1
  <2>2. CASE b # 19
    BY <1>1, <1>2, <1>4, <2>2
  <2>3. QED
    BY <2>1, <2>2
<1>6. (a - b + c) - 477 <= n - 1969
  BY <1>1, <1>2, <1>4
<1>7. QED
  BY <1>1, <1>2, <1>3, <1>5, <1>6

LEMMA YearOrder ==
  ASSUME NEW y \in Years, NEW z \in Years, y < z
  PROVE  /\ YearStart(y + 1) <= YearStart(z)
         /\ y + 1 < z => YearStart(y + 1) + 300 <= YearStart(z)
<1> DEFINE n == z - 1
           a == y \div 4
           b == y \div 100
           c == y \div 400
           d == n \div 4
           e == n \div 100
           f == n \div 400
<1>1. n \in Nat /\ y \in Nat /\ y <= n /\ z = n + 1 /\ 1970 <= y /\ (y + 1) - 1 = y
  BY DEF Years
<1> HIDE DEF n
<1>2. /\ a \in Nat /\ 4 * a <= y /\ y < 4 * a + 4
      /\ b \in Nat /\ 100 * b <= y /\ y < 100 * b + 100
      /\ c \in Nat /\ 400 * c <= y /\ y < 400 * c + 400
  BY <1>1
<1>3. /\ d \in Nat /\ 4 * d <= n /\ n < 4 * d + 4
      /\ e \in Nat /\ 100 * e <= n /\ n < 100 * e + 100
      /\ f \in Nat /\ 400 * f <= n /\ n < 400 * f + 400
  BY <1>1
<1>4. /\ YearStart(y + 1) = 365 * ((y + 1) - 1970) + ((a - b + c) - 477)
      /\ YearStart(z) = 365 * (z - 1970) + ((d - e + f) - 477)
  BY <1>1 DEF YearStart, n
<1>5. y = n => a = d /\ b = e /\ c = f
  OBVIOUS
<1> HIDE DEF a, b, c, d, e, f
<1>6. CASE y = n
  BY <1>1, <1>2, <1>3, <1>4, <1>5, <1>6
<1>7. CASE y < n
  BY <1>1, <1>2, <1>3, <1>4, <1>7
<1>8. QED
  BY <1>1, <1>6, <1>7

(* Every day lies in a year, and YearOf finds it.                          *)
LEMMA YearOfDay ==
  ASSUME NEW days \in Nat
  PROVE  /\ YearOf(days) \in Years
         /\ YearStart(YearOf(days)) <= days
         /\ days < YearStart(YearOf(days) + 1)
<1> DEFINE In(y) == YearStart(y) <= days /\ days < YearStart(y + 1)
           S == {i \in Nat : days < YearStart(1971 + i)}
<1>1. days \in S
  <2>1. 1971 + days \in Years
    BY DEF Years
  <2>2. 365 * ((1971 + days) - 1970) <= YearStart(1971 + days)
        /\ YearStart(1971 + days) \in Nat
    BY <2>1, YearBounds
  <2> DEFINE s == YearStart(1971 + days)
  <2> HIDE DEF s
  <2>3. days < s
    BY <2>2 DEF s
  <2>4. QED
    BY <2>3 DEF s
<1>2. PICK n \in S : \A i \in S : n <= i
  <2> HIDE DEF S
  <2>1. S \subseteq Nat
    BY DEF S
  <2>2. QED
    BY <1>1, <2>1, LeastNumber
<1> DEFINE y == 1970 + n
<1>3. n \in Nat /\ y \in Years /\ y + 1 \in Years /\ y + 1 = 1971 + n
  BY DEF Years
<1>4. In(y)
  <2>1. days < YearStart(y + 1)
    BY <1>2, <1>3
  <2>2. CASE n = 0
    <3>1. YearStart(1970) = 0
      BY DEF YearStart
    <3>2. QED
      BY <2>1, <2>2, <3>1
  <2>3. CASE n # 0
    <3>1. n - 1 \in Nat /\ ~(n <= n - 1) /\ 1971 + (n - 1) = y
      BY <1>3, <2>3
    <3>2. ~(days < YearStart(1971 + (n - 1)))
      BY <1>2, <3>1
    <3>3. YearStart(y) \in Nat
      BY <1>3, YearBounds
    <3>4. ~(days < YearStart(y))
      BY <3>1, <3>2
    <3> DEFINE s == YearStart(y)
    <3> HIDE DEF s, y
    <3>5. s <= days
      BY <3>3, <3>4 DEF s
    <3>6. QED
      BY <2>1, <3>5 DEF s
  <2>4. QED
    BY <2>2, <2>3
<1>5. y \in (1970 + days \div 366) .. (1970 + days \div 365)
  <2>1. /\ 365 * (y - 1970) <= YearStart(y) /\ YearStart(y) \in Nat
        /\ YearStart(y + 1) <= 366 * ((y + 1) - 1970) /\ YearStart(y + 1) \in Nat
    BY <1>3, YearBounds
  <2> DEFINE s == YearStart(y)
             t == YearStart(y + 1)
  <2>2. s <= days /\ days < t
    BY <1>4
  <2> HIDE DEF s, t
  <2>3. 365 * n <= s /\ t <= 366 * (n + 1) /\ s \in Nat /\ t \in Nat
    BY <1>3, <2>1 DEF s, t
  <2>4. 365 * n <= days /\ days < 366 * (n + 1)
    BY <1>3, <2>2, <2>3
  <2>5. days \div 366 <= n /\ n <= days \div 365
    BY <1>3, <2>4
  <2>6. days \div 366 \in Nat /\ days \div 365 \in Nat
    OBVIOUS
  <2>7. QED
    BY <1>3, <2>5, <2>6
<1>6. \E z \in (1970 + days \div 366) .. (1970 + days \div 365) : In(z)
  BY <1>4, <1>5
<1>7. /\ YearOf(days) \in (1970 + days \div 366) .. (1970 + days \div 365)
      /\ In(YearOf(days))
  BY <1>6 DEF YearOf
<1>8. YearOf(days) \in Years
  <2>1. days \div 366 \in Nat /\ days \div 365 \in Nat
    OBVIOUS
  <2>2. QED
    BY <1>7, <2>1 DEF Years
<1>9. QED
  BY <1>7, <1>8
-----------------------------------------------------------------------------
(* The months of a year follow each other without a gap.                   *)
LEMMA MonthTable ==
  ASSUME NEW y \in Years, NEW m \in 1 .. 12
  PROVE  /\ DaysInMonth(y, m) \in 28 .. 31
         /\ MonthStart(y, m) \in Nat
         /\ m = 1 => MonthStart(y, m) = 0
         /\ m = 12 => MonthStart(y, m) + DaysInMonth(y, m) = YearLength(y)
         /\ m < 12 => MonthStart(y, m) + DaysInMonth(y, m) = MonthStart(y, m + 1)
<1>1. m = 1 \/ m = 2 \/ m = 3 \/ m = 4 \/ m = 5 \/ m = 6 \/ m = 7 \/ m = 8 \/ m = 9
      \/ m = 10 \/ m = 11 \/ m = 12
  OBVIOUS
<1> QED
  BY <1>1 DEF DaysInMonth, MonthStart, YearLength

LEMMA MonthOrder ==
  ASSUME NEW y \in Years, NEW m \in 1 .. 12, NEW n \in 1 .. 12, m < n
  PROVE  /\ MonthStart(y, m) + DaysInMonth(y, m) <= MonthStart(y, n)
         /\ m + 1 < n => MonthStart(y, m) + DaysInMonth(y, m) + 28 <= MonthStart(y, n)
<1>1. m = 1 \/ m = 2 \/ m = 3 \/ m = 4 \/ m = 5 \/ m = 6 \/ m = 7 \/ m = 8 \/ m = 9
      \/ m = 10 \/ m = 11 \/ m = 12
  OBVIOUS
<1>2. n = 1 \/ n = 2 \/ n = 3 \/ n = 4 \/ n = 5 \/ n = 6 \/ n = 7 \/ n = 8 \/ n = 9
      \/ n = 10 \/ n = 11 \/ n = 12
  OBVIOUS
<1> QED
  BY <1>1, <1>2 DEF DaysInMonth, MonthStart

(* Every day of a year lies in a month, and MonthOf finds it.              *)
LEMMA MonthOfRest ==
  ASSUME NEW y \in Years, NEW rest \in Nat, rest < YearLength(y)
  PROVE  /\ MonthOf(y, rest) \in 1 .. 12
         /\ MonthStart(y, MonthOf(y, rest)) <= rest
         /\ rest < MonthStart(y, MonthOf(y, rest)) + DaysInMonth(y, MonthOf(y, rest))
<1> DEFINE In(m) == MonthStart(y, m) <= rest /\ rest < MonthStart(y, m) + DaysInMonth(y, m)
           S == {m \in 1 .. 12 : rest < MonthStart(y, m) + DaysInMonth(y, m)}
<1>1. 12 \in S
  BY MonthTable
<1>2. PICK m \in S : \A i \in S : m <= i
  <2>1. S \subseteq Nat
    OBVIOUS
  <2> HIDE DEF S
  <2>2. QED
    BY <1>1, <2>1, LeastNumber
<1>3. In(m)
  <2>1. m \in 1 .. 12 /\ rest < MonthStart(y, m) + DaysInMonth(y, m)
    BY <1>2
  <2>2. CASE m = 1
    BY <2>1, <2>2, MonthTable
  <2>3. CASE m # 1
    <3>1. m - 1 \in 1 .. 12 /\ m - 1 < 12 /\ (m - 1) + 1 = m /\ ~(m <= m - 1)
      BY <2>1, <2>3
    <3>2. m - 1 \notin S
      BY <1>2, <3>1
    <3>3. ~(rest < MonthStart(y, m - 1) + DaysInMonth(y, m - 1))
      BY <3>1, <3>2
    <3>4. MonthStart(y, m - 1) + DaysInMonth(y, m - 1) = MonthStart(y, m)
      BY <3>1, MonthTable
    <3>5. MonthStart(y, m) \in Nat
      BY <2>1, MonthTable
    <3>6. MonthStart(y, m) <= rest
      BY <3>3, <3>4, <3>5
    <3>7. QED
      BY <2>1, <3>6
  <2>4. QED
    BY <2>2, <2>3
<1>4. \E i \in 1 .. 12 : In(i)
  BY <1>2, <1>3
<1>5. MonthOf(y, rest) \in 1 .. 12 /\ In(MonthOf(y, rest))
  BY <1>4 DEF MonthOf
<1>6. QED
  BY <1>5
-----------------------------------------------------------------------------
(* A date of this calendar, and its day.                                   *)
IsDate(u) ==
  /\ u.year \in Years /\ u.month \in 1 .. 12 /\ u.hr \in 0 .. 23
  /\ u.days_in_month = DaysInMonth(u.year, u.month)
  /\ u.day \in 1 .. u.days_in_month

DayOf(u) == YearStart(u.year) + MonthStart(u.year, u.month) + u.day - 1

LEMMA DayAndHour ==
  ASSUME NEW t \in Nat, NEW q, NEW r, q = t \div 24, r = t % 24
  PROVE  q \in Nat /\ r \in 0 .. 23 /\ t = 24 * q + r
<1>1. q \in Nat /\ r \in 0 .. 23
  OBVIOUS
<1>2. r = t - 24 * q
  OBVIOUS
<1> QED
  BY <1>1, <1>2

(* The conversion gives the date of a time: its day and its hour.          *)
LEMMA Converted ==
  ASSUME NEW t \in Nat
  PROVE  /\ IsDate(ConvertUnixToUtc(t))
         /\ DayOf(ConvertUnixToUtc(t)) = t \div 24
         /\ ConvertUnixToUtc(t).hr = t % 24
<1> DEFINE days == t \div 24
           year == YearOf(days)
           rest == days - YearStart(year)
           month == MonthOf(year, rest)
           u == ConvertUnixToUtc(t)
<1>1. /\ u.year = year /\ u.month = month /\ u.hr = t % 24
      /\ u.day = rest - MonthStart(year, month) + 1
      /\ u.days_in_month = DaysInMonth(year, month)
  BY DEF ConvertUnixToUtc
<1>2. days \in Nat /\ t % 24 \in 0 .. 23
  BY DayAndHour
<1> HIDE DEF days, u
<1>3. /\ year \in Years /\ YearStart(year) <= days /\ days < YearStart(year + 1)
      /\ YearStart(year) \in Nat /\ YearStart(year + 1) = YearStart(year) + YearLength(year)
  BY <1>2, YearOfDay, YearBounds, NextYear
<1> HIDE DEF year
<1>4. rest \in Nat /\ rest < YearLength(year) /\ days = YearStart(year) + rest
  <2>1. YearLength(year) \in Nat
    BY DEF YearLength
  <2> DEFINE s == YearStart(year)
             e == YearLength(year)
             f == YearStart(year + 1)
  <2> HIDE DEF s, e, f
  <2>2. s \in Nat /\ e \in Nat /\ s <= days /\ days < f /\ f = s + e
    BY <1>3, <2>1 DEF s, e, f
  <2>3. days - s \in Nat /\ days - s < e /\ days = s + (days - s)
    BY <1>2, <2>2
  <2> QED
    BY <2>3 DEF s, e
<1> HIDE DEF rest
<1>5. /\ month \in 1 .. 12
      /\ MonthStart(year, month) <= rest
      /\ rest < MonthStart(year, month) + DaysInMonth(year, month)
  BY <1>3, <1>4, MonthOfRest
<1> HIDE DEF month
<1>6. MonthStart(year, month) \in Nat /\ DaysInMonth(year, month) \in 28 .. 31
  BY <1>3, <1>5, MonthTable
<1>7. /\ u.day \in 1 .. u.days_in_month
      /\ YearStart(year) + MonthStart(year, month) + u.day - 1 = days
  BY <1>1, <1>2, <1>3, <1>4, <1>5, <1>6
<1>8. QED
  BY <1>1, <1>2, <1>3, <1>5, <1>7 DEF IsDate, DayOf, u, days

(* A reset lies between two times when two days do, or the end of a day    *)
(* with the reset hour on the right side of either time, or the reset hour *)
(* within the day.                                                         *)
LEMMA ResetByDays ==
  ASSUME NEW last \in Nat, NEW current \in Nat, last <= current, NEW reset \in 0 .. 24
  PROVE  ResetBetween(last, current, reset) <=>
           \/ last \div 24 + 2 <= current \div 24
           \/ /\ current \div 24 = last \div 24 + 1
              /\ last % 24 < reset \/ current % 24 >= reset
           \/ /\ current \div 24 = last \div 24
              /\ last % 24 < reset /\ current % 24 >= reset
<1> DEFINE d == last \div 24
           h == last % 24
           e == current \div 24
           i == current % 24
<1>1. d \in Nat /\ h \in 0 .. 23 /\ last = 24 * d + h
  BY DayAndHour
<1>2. e \in Nat /\ i \in 0 .. 23 /\ current = 24 * e + i
  BY DayAndHour
<1>3. ResetBetween(last, current, reset) <=>
        \E day \in d .. e : last < 24 * day + reset /\ 24 * day + reset <= current
  BY DEF ResetBetween
<1> HIDE DEF d, h, e, i
<1>4. d <= e
  BY <1>1, <1>2
<1>5. ASSUME NEW day \in d .. e, last < 24 * day + reset, 24 * day + reset <= current
      PROVE  \/ d + 2 <= e
             \/ e = d + 1 /\ (h < reset \/ i >= reset)
             \/ e = d /\ h < reset /\ i >= reset
  BY <1>1, <1>2, <1>5
<1>6. ASSUME \/ d + 2 <= e
             \/ e = d + 1 /\ (h < reset \/ i >= reset)
             \/ e = d /\ h < reset /\ i >= reset
      PROVE  \E day \in d .. e : last < 24 * day + reset /\ 24 * day + reset <= current
  <2>1. CASE d + 2 <= e
    <3>1. d + 1 \in d .. e
      BY <1>1, <1>2, <2>1
    <3>2. last < 24 * (d + 1) + reset /\ 24 * (d + 1) + reset <= current
      BY <1>1, <1>2, <2>1
    <3> QED
      BY <3>1, <3>2
  <2>2. CASE e = d + 1 /\ h < reset
    <3>1. d \in d .. e /\ last < 24 * d + reset /\ 24 * d + reset <= current
      BY <1>1, <1>2, <2>2
    <3> QED
      BY <3>1
  <2>3. CASE e = d + 1 /\ i >= reset
    <3>1. e \in d .. e /\ last < 24 * e + reset /\ 24 * e + reset <= current
      BY <1>1, <1>2, <2>3
    <3> QED
      BY <3>1
  <2>4. CASE e = d /\ h < reset /\ i >= reset
    <3>1. d \in d .. e /\ last < 24 * d + reset /\ 24 * d + reset <= current
      BY <1>1, <1>2, <2>4
    <3> QED
      BY <3>1
  <2> QED
    BY <1>6, <2>1, <2>2, <2>3, <2>4
<1> QED
  BY <1>3, <1>5, <1>6 DEF d, h, e, i

(* Where a date lies in its year.                                          *)
LEMMA DayInYear ==
  ASSUME NEW u, IsDate(u)
  PROVE  /\ DayOf(u) \in Nat /\ YearStart(u.year) \in Nat /\ YearStart(u.year + 1) \in Nat
         /\ YearStart(u.year) <= DayOf(u)
         /\ DayOf(u) + 1 <= YearStart(u.year + 1)
         /\ YearStart(u.year) = DayOf(u) <=> u.month = 1 /\ u.day = 1
         /\ DayOf(u) + 1 = YearStart(u.year + 1) <=> u.month = 12 /\ u.day = u.days_in_month
<1> DEFINE y == u.year
           m == u.month
           s == YearStart(y)
           b == MonthStart(y, m)
           n == DaysInMonth(y, m)
<1>1. y \in Years /\ m \in 1 .. 12 /\ u.day \in 1 .. n /\ u.days_in_month = n
  BY DEF IsDate
<1>2. s \in Nat /\ YearStart(y + 1) = s + YearLength(y) /\ YearLength(y) \in Nat
  BY <1>1, YearBounds, NextYear DEF YearLength
<1>3. b \in Nat /\ n \in 28 .. 31
  BY <1>1, MonthTable
<1>4. (m = 1 => b = 0) /\ (m # 1 => 28 <= b)
  <2>1. CASE m = 1
    BY <1>1, <2>1, MonthTable
  <2>2. CASE m # 1
    <3>1. 1 \in 1 .. 12 /\ 1 < m
      BY <1>1, <2>2
    <3>2. MonthStart(y, 1) + DaysInMonth(y, 1) <= b
      BY <1>1, <3>1, MonthOrder
    <3>3. MonthStart(y, 1) \in Nat /\ DaysInMonth(y, 1) \in 28 .. 31
      BY <1>1, <3>1, MonthTable
    <3> HIDE DEF b
    <3> QED
      BY <1>3, <2>2, <3>2, <3>3
  <2> QED
    BY <2>1, <2>2
<1>5. (m = 12 => b + n = YearLength(y)) /\ (m # 12 => b + n + 28 <= YearLength(y))
  <2>1. CASE m = 12
    BY <1>1, <2>1, MonthTable
  <2>2. CASE m # 12
    <3>1. 12 \in 1 .. 12 /\ m < 12
      BY <1>1, <2>2
    <3>2. b + n <= MonthStart(y, 12)
      BY <1>1, <3>1, MonthOrder
    <3>3. MonthStart(y, 12) \in Nat /\ DaysInMonth(y, 12) \in 28 .. 31
          /\ MonthStart(y, 12) + DaysInMonth(y, 12) = YearLength(y)
      BY <1>1, <3>1, MonthTable
    <3> HIDE DEF b, n
    <3> QED
      BY <1>2, <1>3, <2>2, <3>2, <3>3
  <2> QED
    BY <2>1, <2>2
<1>6. DayOf(u) = s + b + u.day - 1
  BY DEF DayOf
<1> DEFINE l == YearLength(y)
           e == YearStart(y + 1)
           d == u.day
<1>7. /\ s \in Nat /\ l \in Nat /\ e = s + l /\ b \in Nat /\ n \in 28 .. 31
      /\ d \in 1 .. n /\ m \in 1 .. 12
      /\ (m = 1 => b = 0) /\ (m # 1 => 28 <= b)
      /\ (m = 12 => b + n = l) /\ (m # 12 => b + n + 28 <= l)
  BY <1>1, <1>2, <1>3, <1>4, <1>5
<1> HIDE DEF s, b, n, l, e, d, m
<1>8. /\ s + b + d - 1 \in Nat /\ e \in Nat
      /\ s <= s + b + d - 1 /\ s + b + d <= e
      /\ s = s + b + d - 1 <=> m = 1 /\ d = 1
      /\ s + b + d = e <=> m = 12 /\ d = n
  <2>1. s + b + d - 1 \in Nat /\ e \in Nat /\ s <= s + b + d - 1
    BY <1>7
  <2>2. s + b + d <= e
    BY <1>7
  <2>3. s = s + b + d - 1 <=> m = 1 /\ d = 1
    BY <1>7
  <2>4. s + b + d = e <=> m = 12 /\ d = n
    BY <1>7
  <2> QED
    BY <2>1, <2>2, <2>3, <2>4
<1>9. DayOf(u) = s + b + d - 1 /\ DayOf(u) + 1 = s + b + d
  BY <1>6, <1>7 DEF d
<1> DEFINE x == DayOf(u)
<1> HIDE DEF x
<1>10. /\ x \in Nat /\ s \in Nat /\ e \in Nat /\ s <= x /\ x + 1 <= e
       /\ s = x <=> m = 1 /\ d = 1
       /\ x + 1 = e <=> m = 12 /\ d = n
  BY <1>7, <1>8, <1>9 DEF x
<1> QED
  BY <1>1, <1>10, Zenon DEF x, s, n, e, d, m, y
-----------------------------------------------------------------------------
(* Two dates by their parts and by their days.                             *)
LEMMA DaysApart ==
  ASSUME NEW l, NEW c, IsDate(l), IsDate(c), DayOf(l) <= DayOf(c)
  PROVE  /\ l.year <= c.year
         /\ l.year = c.year => l.month <= c.month
         /\ l.year = c.year /\ l.month = c.month => DayOf(c) - DayOf(l) = c.day - l.day
         /\ l.year = c.year /\ l.month < c.month =>
              /\ DayOf(l) < DayOf(c)
              /\ DayOf(c) = DayOf(l) + 1 <=>
                   c.month - l.month = 1 /\ c.day = 1 /\ l.day = l.days_in_month
         /\ l.year < c.year =>
              /\ DayOf(l) < DayOf(c)
              /\ DayOf(c) = DayOf(l) + 1 <=>
                   /\ c.year = l.year + 1 /\ c.month = 1 /\ l.month = 12
                   /\ c.day = 1 /\ l.day = l.days_in_month
<1>1. /\ l.year \in Years /\ l.month \in 1 .. 12 /\ l.days_in_month \in 28 .. 31
      /\ l.day \in 1 .. l.days_in_month
      /\ l.days_in_month = DaysInMonth(l.year, l.month)
      /\ MonthStart(l.year, l.month) \in Nat
      /\ YearStart(l.year) \in Nat
      /\ DayOf(l) = YearStart(l.year) + MonthStart(l.year, l.month) + l.day - 1
  BY YearBounds, MonthTable DEF IsDate, DayOf
<1>2. /\ c.year \in Years /\ c.month \in 1 .. 12 /\ c.days_in_month \in 28 .. 31
      /\ c.day \in 1 .. c.days_in_month
      /\ c.days_in_month = DaysInMonth(c.year, c.month)
      /\ MonthStart(c.year, c.month) \in Nat
      /\ YearStart(c.year) \in Nat
      /\ DayOf(c) = YearStart(c.year) + MonthStart(c.year, c.month) + c.day - 1
  BY YearBounds, MonthTable DEF IsDate, DayOf
<1>3. l.year \in Nat /\ c.year \in Nat
  BY <1>1, <1>2 DEF Years
<1> DEFINE dl == DayOf(l)
           dc == DayOf(c)
<1>4. dl <= dc /\ dl \in Nat /\ dc \in Nat
  BY DayInYear
<1>5. l.year <= c.year
  <2>1. SUFFICES ASSUME c.year < l.year PROVE FALSE
    BY <1>3
  <2>2. YearStart(c.year + 1) <= YearStart(l.year)
    BY <1>1, <1>2, <2>1, YearOrder
  <2>3. /\ dc + 1 <= YearStart(c.year + 1) /\ YearStart(l.year) <= dl
        /\ YearStart(c.year + 1) \in Nat
    BY DayInYear
  <2> HIDE DEF dl, dc
  <2> QED
    BY <1>1, <1>4, <2>2, <2>3
<1>6. ASSUME l.year = c.year, c.month < l.month PROVE FALSE
  <2>1. MonthStart(c.year, c.month) + DaysInMonth(c.year, c.month)
          <= MonthStart(l.year, l.month)
    BY <1>1, <1>2, <1>6, MonthOrder
  <2>2. YearStart(l.year) = YearStart(c.year)
    BY <1>6
  <2> QED
    BY <1>1, <1>2, <1>4, <2>1, <2>2
<1>7. ASSUME l.year = c.year, l.month = c.month
      PROVE  DayOf(c) - DayOf(l) = c.day - l.day
  <2>1. /\ YearStart(l.year) = YearStart(c.year)
        /\ MonthStart(l.year, l.month) = MonthStart(c.year, c.month)
    BY <1>7
  <2> QED
    BY <1>1, <1>2, <2>1
<1>8. ASSUME l.year = c.year, l.month < c.month
      PROVE  /\ DayOf(l) < DayOf(c)
             /\ DayOf(c) = DayOf(l) + 1 <=>
                  c.month - l.month = 1 /\ c.day = 1 /\ l.day = l.days_in_month
  <2>1. YearStart(l.year) = YearStart(c.year)
    BY <1>8
  <2>2. /\ MonthStart(l.year, l.month) + l.days_in_month <= MonthStart(c.year, c.month)
        /\ l.month + 1 < c.month =>
             MonthStart(l.year, l.month) + l.days_in_month + 28 <= MonthStart(c.year, c.month)
    BY <1>1, <1>2, <1>8, MonthOrder
  <2>3. c.month = l.month + 1 =>
          MonthStart(l.year, l.month) + l.days_in_month = MonthStart(c.year, c.month)
    BY <1>1, <1>2, <1>8, MonthTable
  <2>4. c.month - l.month = 1 <=> c.month = l.month + 1
    BY <1>1, <1>2
  <2>5. CASE c.month = l.month + 1
    BY <1>1, <1>2, <2>1, <2>3, <2>4, <2>5
  <2>6. CASE l.month + 1 < c.month
    BY <1>1, <1>2, <2>1, <2>2, <2>4, <2>6
  <2> QED
    BY <1>1, <1>2, <1>8, <2>5, <2>6
<1>9. ASSUME l.year < c.year
      PROVE  /\ DayOf(l) < DayOf(c)
             /\ DayOf(c) = DayOf(l) + 1 <=>
                  /\ c.year = l.year + 1 /\ c.month = 1 /\ l.month = 12
                  /\ c.day = 1 /\ l.day = l.days_in_month
  <2>1. /\ dl + 1 <= YearStart(l.year + 1) /\ YearStart(l.year + 1) \in Nat
        /\ dl + 1 = YearStart(l.year + 1) <=> l.month = 12 /\ l.day = l.days_in_month
    BY DayInYear
  <2>2. /\ YearStart(c.year) <= dc
        /\ YearStart(c.year) = dc <=> c.month = 1 /\ c.day = 1
    BY DayInYear
  <2>3. /\ YearStart(l.year + 1) <= YearStart(c.year)
        /\ l.year + 1 < c.year => YearStart(l.year + 1) + 300 <= YearStart(c.year)
    BY <1>1, <1>2, <1>9, YearOrder
  <2> DEFINE e == YearStart(l.year + 1)
             s == YearStart(c.year)
  <2>4. c.year = l.year + 1 => s = e
    OBVIOUS
  <2>5. e \in Nat /\ s \in Nat /\ dl \in Nat /\ dc \in Nat
    BY <1>2, <1>4, <2>1
  <2> HIDE DEF e, s, dl, dc
  <2>6. dl + 1 <= e /\ e <= s /\ s <= dc
    BY <2>1, <2>2, <2>3 DEF e, s
  <2>7. CASE c.year = l.year + 1
    <3>1. dl < dc /\ (dc = dl + 1 <=> dl + 1 = e /\ s = dc)
      BY <2>4, <2>5, <2>6, <2>7
    <3> QED
      BY <2>1, <2>2, <2>7, <3>1 DEF e, s, dl, dc
  <2>8. CASE c.year # l.year + 1
    <3>1. e + 300 <= s
      BY <1>3, <1>9, <2>3, <2>8 DEF e, s
    <3>2. dl < dc /\ dc # dl + 1
      BY <2>5, <2>6, <3>1
    <3> QED
      BY <2>8, <3>2 DEF dl, dc
  <2> QED
    BY <2>7, <2>8
<1> QED
  BY <1>1, <1>2, <1>5, <1>6, <1>7, <1>8, <1>9

(* The code's comparison of two dates is what the calendar says of their   *)
(* hours, but for the one gap.                                             *)
LEMMA RedeemTime ==
  ASSUME NEW last \in Nat, NEW current \in Nat, last <= current, NEW reset \in 0 .. 24,
         ~ NewYearGap(last, current)
  PROVE  ValidateRedeemTime(last, current, reset) <=> ResetBetween(last, current, reset)
<1> DEFINE l == ConvertUnixToUtc(last)
           c == ConvertUnixToUtc(current)
           dl == DayOf(l)
           dc == DayOf(c)
           crossed == l.hr < reset \/ c.hr >= reset
           overMonthEnd == c.day = 1 /\ l.day = l.days_in_month
<1>1. /\ IsDate(l) /\ dl = last \div 24 /\ l.hr = last % 24
      /\ IsDate(c) /\ dc = current \div 24 /\ c.hr = current % 24
  BY Converted
<1>2. ResetBetween(last, current, reset) <=>
        \/ dl + 2 <= dc
        \/ dc = dl + 1 /\ crossed
        \/ dc = dl /\ l.hr < reset /\ c.hr >= reset
  BY <1>1, ResetByDays
<1>3. dl \in Nat /\ dc \in Nat /\ dl <= dc
  <2>1. last \div 24 \in Nat /\ current \div 24 \in Nat /\ last \div 24 <= current \div 24
    OBVIOUS
  <2> QED
    BY <1>1, <2>1
<1>4. /\ ValidateRedeemTime(last, current, reset) <=>
           CASE l.year < c.year -> c.month = 1 /\ l.month = 12 /\ overMonthEnd => crossed
             [] l.year = c.year /\ l.month < c.month ->
                  c.month - l.month = 1 /\ overMonthEnd => crossed
             [] l.year = c.year /\ l.month = c.month /\ l.day < c.day ->
                  c.day - l.day = 1 => crossed
             [] OTHER -> l.day = c.day /\ l.hr < reset /\ c.hr >= reset
      /\ NewYearGap(last, current) <=>
           c.year - l.year > 1 /\ <<l.month, l.day, c.month, c.day>> = <<12, 31, 1, 1>>
  BY DEF ValidateRedeemTime, NewYearGap
<1> HIDE DEF l, c
<1>5. /\ l.year \in Nat /\ c.year \in Nat /\ l.month \in 1 .. 12 /\ c.month \in 1 .. 12
      /\ l.day \in Nat /\ c.day \in Nat
      /\ l.month = 12 => l.days_in_month = 31
  BY <1>1, MonthTable DEF IsDate, Years, DaysInMonth
<1>6. /\ l.year <= c.year
      /\ l.year = c.year => l.month <= c.month
      /\ l.year = c.year /\ l.month = c.month => dc - dl = c.day - l.day
      /\ l.year = c.year /\ l.month < c.month =>
           /\ dl < dc
           /\ dc = dl + 1 <=> c.month - l.month = 1 /\ overMonthEnd
      /\ l.year < c.year =>
           /\ dl < dc
           /\ dc = dl + 1 <=>
                c.year = l.year + 1 /\ c.month = 1 /\ l.month = 12 /\ overMonthEnd
  BY <1>1, <1>3, DaysApart
<1> HIDE DEF dl, dc, crossed
<1>7. CASE l.year < c.year
  <2>1. c.month = 1 /\ l.month = 12 /\ overMonthEnd => c.year = l.year + 1
    BY <1>4, <1>5, <1>7
  <2>2. ValidateRedeemTime(last, current, reset) <=> (dc = dl + 1 => crossed)
    BY <1>3, <1>4, <1>5, <1>6, <1>7, <2>1
  <2> QED
    BY <1>2, <1>3, <1>6, <1>7, <2>2
<1>8. CASE l.year = c.year /\ l.month < c.month
  <2>1. ValidateRedeemTime(last, current, reset) <=> (dc = dl + 1 => crossed)
    BY <1>4, <1>5, <1>6, <1>8
  <2> QED
    BY <1>2, <1>3, <1>6, <1>8, <2>1
<1>9. CASE l.year = c.year /\ l.month = c.month /\ l.day < c.day
  <2>1. dc - dl = c.day - l.day
    BY <1>6, <1>9
  <2>2. ValidateRedeemTime(last, current, reset) <=> (dc = dl + 1 => crossed)
    BY <1>3, <1>4, <1>5, <1>9, <2>1
  <2>3. dl < dc
    BY <1>3, <1>5, <1>9, <2>1
  <2> QED
    BY <1>2, <1>3, <2>2, <2>3
<1>10. CASE l.year = c.year /\ l.month = c.month /\ ~ (l.day < c.day)
  <2>1. dc = dl /\ l.day = c.day
    BY <1>3, <1>5, <1>6, <1>10
  <2>2. ValidateRedeemTime(last, current, reset) <=> l.hr < reset /\ c.hr >= reset
    BY <1>4, <1>5, <1>10, <2>1
  <2> QED
    BY <1>2, <1>3, <2>1, <2>2
<1> QED
  BY <1>5, <1>6, <1>7, <1>8, <1>9, <1>10

-----------------------------------------------------------------------------

(* Nothing was distributed, owed or paid.                                  *)
NothingDistributed ==
  /\ global_state.tvl_sol = 0 /\ global_state.tvl_usdc = 0
  /\ global_state.distributed_amount = 0
  /\ global_state.rps = [m \in Mints |-> 0]
  /\ \A k \in SubOffers :
       sub_offer[k].rps = 0 /\ \A p \in Parties : sub_offer[k].reward_debt[p] = 0
  /\ staked = 0

(* The last distribution is not in the future.                             *)
DistributedInPast == global_state.last_distributed_time <= now

IInv == TypeOK /\ NothingDistributed /\ VaultHoldsRemainder /\ DistributedInPast

Stamped == [global_state EXCEPT !.last_distributed_time = now]

USE RewardsAssumption

(* A value of zero stays zero under the two operations that rewards are    *)
(* computed with.                                                          *)
LEMMA ZeroTimes == ASSUME NEW n \in Nat PROVE 0 * n = 0 /\ n * 0 = 0
OBVIOUS

LEMMA ZeroDivided == ASSUME NEW d \in Nat \ {0} PROVE 0 \div d = 0
OBVIOUS

(* distribute changes nothing but the time of the last distribution.       *)
LEMMA DistributeOnlyStamps ==
  ASSUME IInv, NEW g \in Distributions PROVE g = Stamped
<1>1. PICK p \in Prices, q \in Prices : g = Distributed(p, q) BY DEF Distributions
<1>2. p * global_state.tvl_sol = 0 BY ZeroTimes DEF IInv, NothingDistributed
<1>3. q * global_state.tvl_usdc * DIFF_SOL_USDC_DECIMALS = 0
  BY ZeroTimes DEF IInv, NothingDistributed
<1> DEFINE delta == Least(global_state.reward_rate * (now - global_state.last_distributed_time),
                          global_state.funded_amount - global_state.distributed_amount)
           usd == p * global_state.tvl_sol + q * global_state.tvl_usdc * DIFF_SOL_USDC_DECIMALS
<1>4. ~ (delta > 0 /\ usd > 0)
  <2>1. usd = 0 BY <1>2, <1>3
  <2> QED BY <2>1
<1> QED BY <1>1, <1>4, Zenon DEF Distributed, Stamped

(* The reward of either party is zero, before and after update_rps.        *)
LEMMA NoPartyReward ==
  ASSUME IInv, NEW k \in SubOffers, NEW p \in Parties, NEW s \in SubOfferAccount,
         s.rps = 0, s.reward_debt[p] = 0
  PROVE  VirtualRewards(s, k) = 0 /\ PartyReward(s, k, p) = 0
<1>1. VirtualRewards(s, k) = 0
  BY ZeroTimes DEF VirtualRewards
<1> DEFINE full == ((VirtualRewards(s, k) - s.reward_debt[p]) \div SHARE_PRECISION)
                     \div DecimalsAmp[OfferMint[k]]
           reward == IF s.total_point = 0 THEN 0
                     ELSE (full * s.collection_point) \div s.total_point
           lender == (reward * global_state.lender_rewards_percentage) \div Denominator
<1>2. full = 0
  <2>1. (VirtualRewards(s, k) - s.reward_debt[p]) \div SHARE_PRECISION = 0
    BY <1>1, ZeroDivided
  <2>2. DecimalsAmp[OfferMint[k]] \in Nat \ {0}
    OBVIOUS
  <2> QED BY <2>1, <2>2, ZeroDivided
<1>3. reward = 0
  <2>1. s.total_point \in Nat /\ s.collection_point \in Nat BY DEF SubOfferAccount
  <2> QED BY <1>2, <2>1, ZeroTimes, ZeroDivided
<1>4. lender = 0
  <2>1. global_state.lender_rewards_percentage \in Nat
    BY DEF IInv, TypeOK, GlobalStateAccount
  <2> HIDE DEF reward
  <2> QED BY <1>3, <2>1, ZeroTimes, ZeroDivided
<1> HIDE DEF full, reward, lender
<1>5. PartyReward(s, k, p) = IF p = "lender" THEN lender ELSE reward - lender
  BY DEF PartyReward, full, reward, lender
<1> QED BY <1>1, <1>3, <1>4, <1>5

-----------------------------------------------------------------------------
(* Invariance, one step per action.                                        *)

LEMMA StampedIsTyped ==
  ASSUME IInv
  PROVE  /\ Stamped \in GlobalStateAccount
         /\ \A m \in Mints : Stamped.rps[m] = 0
         /\ Stamped.tvl_sol = 0 /\ Stamped.tvl_usdc = 0
         /\ Stamped.rps = global_state.rps
         /\ Stamped.distributed_amount = 0
         /\ Stamped.funded_amount = global_state.funded_amount
         /\ Stamped.last_distributed_time = now
BY DEF IInv, TypeOK, NothingDistributed, Stamped, GlobalStateAccount

(* update_rps leaves the reward per share of a loan at zero.               *)
LEMMA WithRpsIsZero ==
  ASSUME IInv, NEW k \in SubOffers
  PROVE  /\ WithRps(sub_offer[k], k, Stamped) \in SubOfferAccount
         /\ WithRps(sub_offer[k], k, Stamped).rps = 0
         /\ WithRps(sub_offer[k], k, Stamped).reward_debt = sub_offer[k].reward_debt
<1>1. sub_offer[k] \in SubOfferAccount BY DEF IInv, TypeOK
<1>2. OfferMint[k] \in Mints OBVIOUS
<1>3. Stamped.rps[OfferMint[k]] = 0 BY <1>2, StampedIsTyped
<1> QED BY <1>1, <1>3 DEF WithRps, SubOfferAccount

(* A handler that only distributes and rewrites one sub-offer, whose       *)
(* reward fields stay zero, preserves the invariant.                       *)
LEMMA LoanStep ==
  ASSUME IInv, NEW k \in SubOffers, NEW s \in SubOfferAccount,
         s.rps = 0, \A p \in Parties : s.reward_debt[p] = 0,
         global_state' = Stamped, sub_offer' = [sub_offer EXCEPT ![k] = s],
         UNCHANGED <<now, reward_vault, staked, stray>>
  PROVE  IInv'
<1>1. TypeOK' BY StampedIsTyped DEF IInv, TypeOK
<1>2. NothingDistributed' BY StampedIsTyped DEF IInv, TypeOK, NothingDistributed
<1>3. VaultHoldsRemainder'
  BY StampedIsTyped DEF IInv, NothingDistributed, VaultHoldsRemainder
<1>4. DistributedInPast'
  <2>1. now \in Nat BY DEF IInv, TypeOK
  <2>2. global_state'.last_distributed_time = now BY StampedIsTyped
  <2> QED BY <2>1, <2>2 DEF DistributedInPast
<1> QED BY <1>1, <1>2, <1>3, <1>4 DEF IInv

LEMMA InitIInv == Init => IInv
<1> SUFFICES ASSUME Init PROVE IInv
  OBVIOUS
<1> USE DEF Init, NewSubOffer
<1>1. StartInstant \in Nat OBVIOUS
<1>2. global_state \in GlobalStateAccount BY <1>1 DEF GlobalStateAccount
<1>3. NewSubOffer \in SubOfferAccount BY DEF SubOfferAccount
<1>4. TypeOK BY <1>2, <1>3 DEF TypeOK
<1>5. NothingDistributed BY DEF NothingDistributed
<1>6. VaultHoldsRemainder BY DEF VaultHoldsRemainder
<1>7. DistributedInPast BY <1>1 DEF DistributedInPast
<1> QED BY <1>4, <1>5, <1>6, <1>7 DEF IInv

LEMMA AcceptOfferIInv ==
  ASSUME IInv, NEW k \in SubOffers, NEW points \in Points, AcceptOffer(k, points)
  PROVE  IInv'
<1> DEFINE w == WithRps(sub_offer[k], k, Stamped)
           s == [w EXCEPT !.state = "Accepted", !.total_point = points.total,
                          !.collection_point = points.collection,
                          !.reward_debt = [p \in Parties |-> VirtualRewards(w, k)]]
<1>1. w \in SubOfferAccount /\ w.rps = 0 BY WithRpsIsZero
<1>2. global_state' = Stamped /\ sub_offer' = [sub_offer EXCEPT ![k] = s]
  BY DistributeOnlyStamps DEF AcceptOffer
<1>3. VirtualRewards(w, k) = 0 BY <1>1, ZeroTimes DEF VirtualRewards
<1>4. points.total \in Nat /\ points.collection \in Nat OBVIOUS
<1>5. s \in SubOfferAccount /\ s.rps = 0 /\ \A p \in Parties : s.reward_debt[p] = 0
  <2> HIDE DEF w
  <2> QED BY <1>1, <1>3, <1>4 DEF SubOfferAccount
<1>6. UNCHANGED <<now, reward_vault, staked, stray>> BY DEF AcceptOffer
<1> HIDE DEF w, s
<1> QED BY <1>2, <1>5, <1>6, LoanStep

(* The sub-offer alone is rewritten: the time of the last distribution     *)
(* stays that of the handler before.                                       *)
LEMMA CloseLoanIInv ==
  ASSUME IInv, NEW k \in SubOffers, CloseLoan(k) PROVE IInv'
<1> DEFINE w == WithRps(sub_offer[k], k, Stamped)
           s == [w EXCEPT !.state = "NFTClaimed"]
<1>1. w \in SubOfferAccount /\ w.rps = 0 /\ w.reward_debt = sub_offer[k].reward_debt
  BY WithRpsIsZero
<1>2. sub_offer' = [sub_offer EXCEPT ![k] = s]
  BY DistributeOnlyStamps DEF CloseLoan
<1>3. s \in SubOfferAccount /\ s.rps = 0 /\ \A p \in Parties : s.reward_debt[p] = 0
  <2> HIDE DEF w
  <2> QED BY <1>1 DEF SubOfferAccount, IInv, NothingDistributed
<1>4. UNCHANGED <<now, global_state, reward_vault, staked, stray>> BY DEF CloseLoan
<1> HIDE DEF w, s
<1>5. TypeOK' BY <1>2, <1>3, <1>4 DEF IInv, TypeOK
<1>6. NothingDistributed' BY <1>2, <1>3, <1>4 DEF IInv, TypeOK, NothingDistributed
<1>7. VaultHoldsRemainder' /\ DistributedInPast'
  BY <1>4 DEF IInv, VaultHoldsRemainder, DistributedInPast
<1> QED BY <1>5, <1>6, <1>7 DEF IInv

(* The claim of a party pays nothing.                                      *)
LEMMA ClaimRewardsIInv ==
  ASSUME IInv, NEW k \in SubOffers, NEW p \in Parties, ClaimRewards(k, p)
  PROVE  IInv'
<1> DEFINE w == IF sub_offer[k].state = "Accepted"
                THEN WithRps(sub_offer[k], k, Stamped) ELSE sub_offer[k]
           s == Claimed(w, k, p)
<1>1. w \in SubOfferAccount /\ w.rps = 0 /\ \A q \in Parties : w.reward_debt[q] = 0
  BY WithRpsIsZero DEF IInv, TypeOK, NothingDistributed
<1> HIDE DEF w
<1>2. VirtualRewards(w, k) = 0 /\ PartyReward(w, k, p) = 0
  BY <1>1, NoPartyReward
<1>3. /\ global_state' = Stamped /\ sub_offer' = [sub_offer EXCEPT ![k] = s]
      /\ reward_vault' = reward_vault - PartyReward(w, k, p)
      /\ staked' = staked + PartyReward(w, k, p)
      /\ UNCHANGED <<now, stray>>
  BY DistributeOnlyStamps DEF ClaimRewards, w
<1>4. UNCHANGED <<now, reward_vault, staked, stray>>
  BY <1>2, <1>3 DEF IInv, TypeOK
<1>5. s \in SubOfferAccount /\ s.rps = 0 /\ \A q \in Parties : s.reward_debt[q] = 0
  <2>1. now \in Nat BY DEF IInv, TypeOK
  <2> QED BY <1>1, <1>2, <2>1 DEF Claimed, SubOfferAccount
<1> HIDE DEF s
<1> QED BY <1>3, <1>4, <1>5, LoanStep

(* Deposits and withdrawals move funded_amount and the vault together.     *)
LEMMA FundingIInv ==
  ASSUME IInv, NEW a \in Amounts, DepositRewards(a) \/ WithdrawRewards(a)
  PROVE  IInv'
<1>1. /\ reward_vault \in Nat /\ staked \in Nat /\ stray \in Nat
      /\ global_state.funded_amount \in Nat /\ a \in Nat
  BY DEF IInv, TypeOK, GlobalStateAccount
<1>2. reward_vault = global_state.funded_amount + stray
  BY <1>1 DEF IInv, NothingDistributed, VaultHoldsRemainder
<1>3. CASE DepositRewards(a)
  <2>1. /\ global_state' = [Stamped EXCEPT !.funded_amount = Stamped.funded_amount + a]
        /\ reward_vault' = reward_vault + a
        /\ UNCHANGED <<now, sub_offer, staked, stray>>
    BY <1>3, DistributeOnlyStamps DEF DepositRewards
  <2>2. TypeOK' BY <1>1, <2>1, StampedIsTyped DEF IInv, TypeOK, GlobalStateAccount
  <2>3. NothingDistributed' BY <2>1, StampedIsTyped DEF IInv, NothingDistributed, GlobalStateAccount
  <2>4. global_state'.funded_amount = global_state.funded_amount + a
        /\ global_state'.distributed_amount = 0
    BY <2>1, StampedIsTyped DEF GlobalStateAccount
  <2>5. VaultHoldsRemainder' BY <1>1, <1>2, <2>1, <2>4 DEF VaultHoldsRemainder
  <2>6. DistributedInPast'
    BY <2>1, StampedIsTyped DEF DistributedInPast, GlobalStateAccount, IInv, TypeOK
  <2> QED BY <2>2, <2>3, <2>5, <2>6 DEF IInv
<1>4. CASE WithdrawRewards(a)
  <2> DEFINE w == Least(a, Withdrawable(Stamped))
  <2>1. /\ global_state' = [Stamped EXCEPT !.funded_amount = Stamped.funded_amount - w]
        /\ reward_vault' = reward_vault - w
        /\ UNCHANGED <<now, sub_offer, staked, stray>>
    BY <1>4, DistributeOnlyStamps DEF WithdrawRewards
  <2>2. w \in Nat /\ w <= global_state.funded_amount
    <3>1. Withdrawable(Stamped) \in 0 .. global_state.funded_amount
      BY <1>1, StampedIsTyped DEF Withdrawable
    <3> QED BY <1>1, <3>1 DEF Least
  <2> HIDE DEF w
  <2>3. /\ Stamped.funded_amount - w \in Nat /\ reward_vault - w \in Nat
        /\ reward_vault - w = (global_state.funded_amount - w) + stray
    BY <1>1, <1>2, <2>2, StampedIsTyped
  <2>4. TypeOK' BY <1>1, <2>1, <2>3, StampedIsTyped DEF IInv, TypeOK, GlobalStateAccount
  <2>5. NothingDistributed' BY <2>1, StampedIsTyped DEF IInv, NothingDistributed, GlobalStateAccount
  <2>6. global_state'.funded_amount = global_state.funded_amount - w
        /\ global_state'.distributed_amount = 0
    BY <2>1, StampedIsTyped DEF GlobalStateAccount
  <2>7. VaultHoldsRemainder' BY <1>1, <2>1, <2>2, <2>3, <2>6 DEF VaultHoldsRemainder
  <2>8. DistributedInPast'
    BY <2>1, StampedIsTyped DEF DistributedInPast, GlobalStateAccount, IInv, TypeOK
  <2> QED BY <2>4, <2>5, <2>7, <2>8 DEF IInv
<1> QED BY <1>3, <1>4

LEMMA SettingsIInv ==
  ASSUME IInv,
         \/ SetVoting
         \/ \E r \in Resets : SetRedeemReset(r)
         \/ \E rate \in RewardRates, percentage \in Percentages :
              UpdateGlobalState(rate, percentage)
  PROVE  IInv'
<1>1. CASE SetVoting
  <2>1. global_state' = Stamped /\ UNCHANGED <<now, reward_vault, sub_offer, staked, stray>>
    BY <1>1, DistributeOnlyStamps DEF SetVoting
  <2>2. TypeOK' BY <2>1, StampedIsTyped DEF IInv, TypeOK
  <2>3. NothingDistributed' BY <2>1, StampedIsTyped DEF IInv, NothingDistributed
  <2>4. VaultHoldsRemainder'
    BY <2>1, StampedIsTyped DEF IInv, NothingDistributed, VaultHoldsRemainder
  <2>5. DistributedInPast'
    <3>1. now \in Nat BY DEF IInv, TypeOK
    <3>2. global_state'.last_distributed_time = now BY <2>1, StampedIsTyped
    <3> QED BY <2>1, <3>1, <3>2 DEF DistributedInPast
  <2> QED BY <2>2, <2>3, <2>4, <2>5 DEF IInv
<1>2. ASSUME NEW r \in Resets, SetRedeemReset(r) PROVE IInv'
  <2>1. TypeOK' BY <1>2 DEF SetRedeemReset, IInv, TypeOK, GlobalStateAccount
  <2>2. NothingDistributed'
    BY <1>2 DEF SetRedeemReset, IInv, NothingDistributed, TypeOK, GlobalStateAccount
  <2>3. VaultHoldsRemainder'
    BY <1>2 DEF SetRedeemReset, IInv, VaultHoldsRemainder, TypeOK, GlobalStateAccount
  <2>4. DistributedInPast'
    BY <1>2 DEF SetRedeemReset, IInv, DistributedInPast, TypeOK, GlobalStateAccount
  <2> QED BY <2>1, <2>2, <2>3, <2>4 DEF IInv
<1>3. ASSUME NEW rate \in RewardRates, NEW percentage \in Percentages,
             UpdateGlobalState(rate, percentage)
      PROVE  IInv'
  <2>1. TypeOK' BY <1>3 DEF UpdateGlobalState, IInv, TypeOK, GlobalStateAccount
  <2>2. NothingDistributed'
    BY <1>3 DEF UpdateGlobalState, IInv, NothingDistributed, TypeOK, GlobalStateAccount
  <2>3. VaultHoldsRemainder'
    BY <1>3 DEF UpdateGlobalState, IInv, VaultHoldsRemainder, TypeOK, GlobalStateAccount
  <2>4. DistributedInPast'
    BY <1>3 DEF UpdateGlobalState, IInv, DistributedInPast, TypeOK, GlobalStateAccount
  <2> QED BY <2>1, <2>2, <2>3, <2>4 DEF IInv
<1> QED BY <1>1, <1>2, <1>3

LEMMA EnvironmentIInv ==
  ASSUME IInv, Tick \/ \E a \in Amounts : StrayTransfer(a) PROVE IInv'
<1>1. CASE Tick
  <2>1. TypeOK' /\ NothingDistributed' /\ VaultHoldsRemainder'
    BY <1>1 DEF Tick, IInv, TypeOK, NothingDistributed, VaultHoldsRemainder
  <2>2. now \in Nat /\ now' \in Nat /\ now' > now
        /\ global_state.last_distributed_time \in Nat
    BY <1>1 DEF Tick, IInv, TypeOK, GlobalStateAccount
  <2>3. DistributedInPast' BY <1>1, <2>2 DEF Tick, IInv, DistributedInPast
  <2> QED BY <2>1, <2>3 DEF IInv
<1>2. ASSUME NEW a \in Amounts, StrayTransfer(a) PROVE IInv'
  <2>1. a \in Nat OBVIOUS
  <2>2. TypeOK' BY <1>2, <2>1 DEF StrayTransfer, IInv, TypeOK
  <2>3. NothingDistributed' BY <1>2 DEF StrayTransfer, IInv, NothingDistributed
  <2>4. VaultHoldsRemainder'
    BY <1>2, <2>1 DEF StrayTransfer, IInv, TypeOK, GlobalStateAccount, NothingDistributed, VaultHoldsRemainder
  <2>5. DistributedInPast' BY <1>2 DEF StrayTransfer, IInv, DistributedInPast
  <2> QED BY <2>2, <2>3, <2>4, <2>5 DEF IInv
<1> QED BY <1>1, <1>2

LEMMA NextIInv == IInv /\ [Next]_vars => IInv'
<1> SUFFICES ASSUME IInv, [Next]_vars PROVE IInv'
  OBVIOUS
<1>1. ASSUME NEW k \in SubOffers, NEW points \in Points, AcceptOffer(k, points) PROVE IInv'
  BY <1>1, AcceptOfferIInv
<1>2. ASSUME NEW k \in SubOffers, RepayLoan(k) \/ ClaimCollateral(k) PROVE IInv'
  BY <1>2, CloseLoanIInv DEF RepayLoan, ClaimCollateral
<1>3. ASSUME NEW k \in SubOffers, ClaimBorrowerRewards(k) \/ ClaimLenderRewards(k) PROVE IInv'
  BY <1>3, ClaimRewardsIInv DEF ClaimBorrowerRewards, ClaimLenderRewards, Parties
<1>4. ASSUME NEW a \in Amounts, DepositRewards(a) \/ WithdrawRewards(a) PROVE IInv'
  BY <1>4, FundingIInv
<1>5. CASE UNCHANGED vars
  BY <1>5 DEF vars, IInv, TypeOK, NothingDistributed, VaultHoldsRemainder, DistributedInPast
<1> QED
  BY <1>1, <1>2, <1>3, <1>4, <1>5, SettingsIInv, EnvironmentIInv DEF Next

LEMMA Invariance == Spec => []IInv
BY InitIInv, NextIInv, PTL DEF Spec

-----------------------------------------------------------------------------
(* Every field of the reward accounting keeps its type: no subtraction of  *)
(* a withdrawal or of a claim goes below zero.                             *)
THEOREM TypeCorrect == Spec => []TypeOK
<1>1. IInv => TypeOK BY DEF IInv
<1> QED BY <1>1, Invariance, PTL

(* The reward vault holds what was funded and not distributed, and any     *)
(* stray tokens, for every schedule of deposits, withdrawals and loans.    *)
THEOREM VaultHolds == Spec => []VaultHoldsRemainder
<1>1. IInv => VaultHoldsRemainder BY DEF IInv
<1> QED BY <1>1, Invariance, PTL

(* No claim ever pays anything, whatever the rate, the points, the prices  *)
(* and the time that passed: the promise of README.md:307 is not kept on   *)
(* any instance, not only on the one of the run that refutes it.           *)
THEOREM RewardsAreNeverPaid == Spec => [](staked = 0 /\ global_state.distributed_amount = 0)
<1>1. IInv => staked = 0 /\ global_state.distributed_amount = 0
  BY DEF IInv, NothingDistributed
<1> QED BY <1>1, Invariance, PTL

(* The check every handler starts with succeeds exactly as long as no      *)
(* stray token lies in the vault and the reward rate fits the time since   *)
(* the last recorded distribution.                                         *)
THEOREM DistributeSucceeds == Spec => [](Distributable <=> stray = 0 /\ RateFits)
<1>1. ASSUME IInv PROVE Distributable <=> stray = 0 /\ RateFits
  <2>1. now >= global_state.last_distributed_time
    BY <1>1 DEF IInv, TypeOK, GlobalStateAccount, DistributedInPast
  <2>2. global_state.funded_amount >= global_state.distributed_amount
    BY <1>1 DEF IInv, TypeOK, GlobalStateAccount, VaultHoldsRemainder
  <2>3. global_state.funded_amount - global_state.distributed_amount = reward_vault
          <=> stray = 0
    BY <1>1, <2>2 DEF IInv, TypeOK, GlobalStateAccount, VaultHoldsRemainder
  <2> QED BY <2>1, <2>2, <2>3 DEF Distributable
<1> QED BY <1>1, Invariance, PTL

(* Whatever was claimed, withdrawn, deposited or set before, a running     *)
(* loan is blocked by a stray token or too high a rate, and nothing else.  *)
THEOREM RepaymentBlocked == Spec => []RepaymentBlockedOnlyByStrayOrRate
<1>1. (Distributable <=> stray = 0 /\ RateFits) => RepaymentBlockedOnlyByStrayOrRate
  BY DEF RepaymentBlockedOnlyByStrayOrRate, CanRepay
<1> QED BY <1>1, DistributeSucceeds, PTL

(* The owner alone can undo the block: setting a rate that fits, as 0 does *)
(* always, needs no distribution and makes the next one succeed.           *)
THEOREM LowerRateUnblocks ==
  Spec => [][\A rate \in RewardRates, percentage \in Percentages :
               /\ stray = 0
               /\ rate * (now - global_state.last_distributed_time) <= MaxU64
               /\ UpdateGlobalState(rate, percentage)
               => Distributable']_vars
<1>1. ASSUME IInv, IInv', NEW rate \in RewardRates, NEW percentage \in Percentages,
             stray = 0,
             rate * (now - global_state.last_distributed_time) <= MaxU64,
             UpdateGlobalState(rate, percentage)
      PROVE  Distributable'
  <2>1. /\ now' = now /\ stray' = 0
        /\ global_state'.reward_rate = rate
        /\ global_state'.last_distributed_time = global_state.last_distributed_time
    BY <1>1 DEF UpdateGlobalState, IInv, TypeOK, GlobalStateAccount
  <2>2. RateFits' BY <1>1, <2>1 DEF RateFits
  <2>3. now' >= global_state'.last_distributed_time
    BY <1>1 DEF IInv, TypeOK, GlobalStateAccount, DistributedInPast
  <2>4. /\ global_state'.funded_amount >= global_state'.distributed_amount
        /\ global_state'.funded_amount - global_state'.distributed_amount = reward_vault'
    BY <1>1, <2>1 DEF IInv, TypeOK, GlobalStateAccount, VaultHoldsRemainder
  <2> QED BY <2>2, <2>3, <2>4 DEF Distributable
<1>2. IInv /\ IInv' =>
        [\A rate \in RewardRates, percentage \in Percentages :
               /\ stray = 0
               /\ rate * (now - global_state.last_distributed_time) <= MaxU64
               /\ UpdateGlobalState(rate, percentage)
               => Distributable']_vars
  BY <1>1
<1> QED BY <1>2, Invariance, PTL

-----------------------------------------------------------------------------
(* When a party may claim again.  The dates that are compared are those of *)
(* a claim in the past and of the clock.                                   *)

ClaimedInPast ==
  \A k \in SubOffers, p \in Parties : sub_offer[k].last_claim[p] <= now

LEMMA ClaimedInPastIsInvariant == Spec => []ClaimedInPast
<1>1. Init => ClaimedInPast
  <2>1. StartInstant \in Nat OBVIOUS
  <2> QED BY <2>1 DEF Init, NewSubOffer, ClaimedInPast
<1>2. IInv /\ ClaimedInPast /\ [Next]_vars => ClaimedInPast'
  <2> SUFFICES ASSUME IInv, ClaimedInPast, [Next]_vars PROVE ClaimedInPast'
    OBVIOUS
  <2>1. now \in Nat /\ sub_offer \in [SubOffers -> SubOfferAccount]
        /\ \A k \in SubOffers, p \in Parties : sub_offer[k].last_claim[p] \in Nat
    BY DEF IInv, TypeOK, SubOfferAccount
  (* A step that rewrites one sub-offer and leaves its claims alone.        *)
  <2>2. ASSUME NEW k \in SubOffers, NEW s, s.last_claim = sub_offer[k].last_claim,
               sub_offer' = [sub_offer EXCEPT ![k] = s], UNCHANGED now
        PROVE  ClaimedInPast'
    BY <2>1, <2>2 DEF ClaimedInPast
  <2>3. ASSUME NEW k \in SubOffers, NEW g PROVE
          WithRps(sub_offer[k], k, g).last_claim = sub_offer[k].last_claim
    BY <2>1 DEF WithRps, SubOfferAccount
  <2>4. ASSUME NEW k \in SubOffers, NEW points \in Points, AcceptOffer(k, points)
        PROVE  ClaimedInPast'
    <3>1. PICK g \in Distributions :
            sub_offer' = [sub_offer EXCEPT ![k] =
              [WithRps(sub_offer[k], k, g) EXCEPT !.state = "Accepted",
                 !.total_point = points.total, !.collection_point = points.collection,
                 !.reward_debt =
                   [p \in Parties |-> VirtualRewards(WithRps(sub_offer[k], k, g), k)]]]
      BY <2>4 DEF AcceptOffer
    <3> DEFINE w == WithRps(sub_offer[k], k, g)
               s == [w EXCEPT !.state = "Accepted", !.total_point = points.total,
                              !.collection_point = points.collection,
                              !.reward_debt = [p \in Parties |-> VirtualRewards(w, k)]]
    <3>2. s.last_claim = w.last_claim
      <4>1. w = [sub_offer[k] EXCEPT !.rps = g.rps[OfferMint[k]]]
        BY DEF WithRps
      <4>2. DOMAIN w = DOMAIN sub_offer[k] /\ "last_claim" \in DOMAIN sub_offer[k]
        BY <2>1, <4>1 DEF SubOfferAccount
      <4> HIDE DEF w
      <4> QED BY <4>2
    <3>3. UNCHANGED now BY <2>4 DEF AcceptOffer
    <3>4. sub_offer' = [sub_offer EXCEPT ![k] = s] BY <3>1
    <3> HIDE DEF s
    <3> QED BY <2>2, <2>3, <3>2, <3>3, <3>4
  <2>5. ASSUME NEW k \in SubOffers, CloseLoan(k) PROVE ClaimedInPast'
    <3>1. PICK g \in Distributions :
            sub_offer' = [sub_offer EXCEPT ![k] =
              [WithRps(sub_offer[k], k, g) EXCEPT !.state = "NFTClaimed"]]
      BY <2>5 DEF CloseLoan
    <3> DEFINE s == [WithRps(sub_offer[k], k, g) EXCEPT !.state = "NFTClaimed"]
    <3>2. s.last_claim = sub_offer[k].last_claim
      BY <2>1 DEF WithRps, SubOfferAccount
    <3>3. UNCHANGED now BY <2>5 DEF CloseLoan
    <3>4. sub_offer' = [sub_offer EXCEPT ![k] = s] BY <3>1
    <3> HIDE DEF s
    <3> QED BY <2>2, <3>2, <3>3, <3>4
  <2>6. ASSUME NEW k \in SubOffers, NEW p \in Parties, ClaimRewards(k, p)
        PROVE  ClaimedInPast'
    <3>1. PICK g \in Distributions :
            sub_offer' = [sub_offer EXCEPT ![k] =
              Claimed(IF sub_offer[k].state = "Accepted"
                      THEN WithRps(sub_offer[k], k, g) ELSE sub_offer[k], k, p)]
      BY <2>6 DEF ClaimRewards
    <3> DEFINE w == IF sub_offer[k].state = "Accepted"
                    THEN WithRps(sub_offer[k], k, g) ELSE sub_offer[k]
    <3>2. w.last_claim = sub_offer[k].last_claim /\ DOMAIN w = DOMAIN sub_offer[k]
      BY <2>3 DEF WithRps
    <3>3. UNCHANGED now BY <2>6 DEF ClaimRewards
    <3>4. sub_offer' = [sub_offer EXCEPT ![k] = Claimed(w, k, p)] BY <3>1
    <3> HIDE DEF w
    <3>5. Claimed(w, k, p).last_claim = [sub_offer[k].last_claim EXCEPT ![p] = now]
      BY <2>1, <3>2 DEF Claimed, SubOfferAccount
    <3>6. sub_offer[k].last_claim \in [Parties -> Nat]
      BY <2>1 DEF SubOfferAccount
    <3>7. ASSUME NEW q \in Parties PROVE Claimed(w, k, p).last_claim[q] <= now
      BY <2>1, <3>5, <3>6 DEF ClaimedInPast
    <3> QED BY <2>1, <3>3, <3>4, <3>7 DEF ClaimedInPast
  <2>7. CASE Tick
    <3>1. now' \in Nat /\ now < now' /\ sub_offer' = sub_offer BY <2>1, <2>7 DEF Tick
    <3> QED BY <2>1, <3>1 DEF ClaimedInPast
  <2>8. CASE UNCHANGED <<now, sub_offer>>
    BY <2>8 DEF ClaimedInPast
  <2>9. ASSUME \/ \E a \in Amounts : DepositRewards(a) \/ WithdrawRewards(a) \/ StrayTransfer(a)
               \/ SetVoting
               \/ \E r \in Resets : SetRedeemReset(r)
               \/ \E rate \in RewardRates, percentage \in Percentages :
                    UpdateGlobalState(rate, percentage)
        PROVE  UNCHANGED <<now, sub_offer>>
    BY <2>9 DEF DepositRewards, WithdrawRewards, StrayTransfer, SetVoting, SetRedeemReset,
                UpdateGlobalState
  <2>10. ASSUME UNCHANGED vars PROVE UNCHANGED <<now, sub_offer>>
    BY <2>10 DEF vars
  <2> QED
    BY <2>4, <2>5, <2>6, <2>7, <2>8, <2>9, <2>10 DEF Next, RepayLoan, ClaimCollateral,
       ClaimBorrowerRewards, ClaimLenderRewards, Parties
<1> QED
  BY <1>1, <1>2, Invariance, PTL DEF Spec

(* A party that has claimed may claim again exactly when a reset hour lies *)
(* between, for every pair of hours since 1970, but for the gap at a new   *)
(* year.  The reset is an hour of the day: set_redeem_reset does not check *)
(* it, and the theorem holds of the settings that make sense.              *)
THEOREM RedemptionAtReset ==
  ASSUME \A r \in Resets : r <= 24 PROVE Spec => []RedemptionFollowsReset
<1>1. IInv /\ ClaimedInPast => RedemptionFollowsReset
  <2> SUFFICES ASSUME IInv, ClaimedInPast, NEW k \in SubOffers, NEW p \in Parties,
                      sub_offer[k].has_claimed_rewards[p],
                      ~ NewYearGap(sub_offer[k].last_claim[p], now)
               PROVE  CanRedeem(sub_offer[k], p) <=>
                        ResetBetween(sub_offer[k].last_claim[p], now,
                                     global_state.redemption_reset)
    BY DEF RedemptionFollowsReset
  <2>1. sub_offer[k].last_claim[p] \in Nat /\ now \in Nat
        /\ sub_offer[k].last_claim[p] <= now
    BY DEF IInv, TypeOK, SubOfferAccount, ClaimedInPast
  <2>2. global_state.redemption_reset \in 0 .. 24
    <3>1. global_state.redemption_reset \in Resets
      BY DEF IInv, TypeOK, GlobalStateAccount
    <3>2. \A r \in Resets : r \in 0 .. 24
      OBVIOUS
    <3> QED BY <3>1, <3>2, Zenon
  <2>3. CanRedeem(sub_offer[k], p) <=>
          ValidateRedeemTime(sub_offer[k].last_claim[p], now, global_state.redemption_reset)
    BY DEF CanRedeem
  <2> QED BY <2>1, <2>2, <2>3, RedeemTime
<1> QED BY <1>1, Invariance, ClaimedInPastIsInvariant, PTL
=============================================================================
