----------------------------- MODULE Redemption -----------------------------
(***************************************************************************)
(* The calendar of programs/unloc-loan/src/utils.rs: when a party of a     *)
(* loan may claim rewards again.  Times are hours since 1970, because the  *)
(* code compares nothing finer than the hour.                              *)
(***************************************************************************)
LOCAL INSTANCE Integers

IsLeap(y) == y % 4 = 0 /\ (y % 100 # 0 \/ y % 400 = 0)

DaysInMonth(y, m) ==
  IF m = 2 THEN (IF IsLeap(y) THEN 29 ELSE 28)
  ELSE IF m \in {4, 6, 9, 11} THEN 30 ELSE 31

(* Days from 1970 to the first of January of y (477 leap years before 1970 *)
(* in this calendar), and from there to the first of month m.              *)
YearStart(y) ==
  365 * (y - 1970) + (((y - 1) \div 4 - (y - 1) \div 100 + (y - 1) \div 400) - 477)

MonthStart(y, m) ==
  <<0, 31, 59, 90, 120, 151, 181, 212, 243, 273, 304, 334>>[m]
    + (IF m > 2 /\ IsLeap(y) THEN 1 ELSE 0)

(* The code subtracts whole years, then whole months, from the days.       *)
YearOf(days) ==
  CHOOSE y \in (1970 + days \div 366) .. (1970 + days \div 365) :
    YearStart(y) <= days /\ days < YearStart(y + 1)

MonthOf(y, rest) ==
  CHOOSE m \in 1 .. 12 : MonthStart(y, m) <= rest /\ rest < MonthStart(y, m) + DaysInMonth(y, m)

ConvertUnixToUtc(t) ==
  LET year  == YearOf(t \div 24)
      rest  == t \div 24 - YearStart(year)
      month == MonthOf(year, rest)
  IN  [year |-> year, month |-> month, day |-> rest - MonthStart(year, month) + 1,
       hr |-> t % 24, days_in_month |-> DaysInMonth(year, month)]

(* Faulty variant: the last day of a month is not next to the first of the *)
(* following one.                                                          *)
ValidateRedeemTimeAnyMonth(last, current, reset) ==
  LET l == ConvertUnixToUtc(last)
      c == ConvertUnixToUtc(current)
      crossed == l.hr < reset \/ c.hr >= reset
  IN  \/ l.year < c.year \/ l.month < c.month
      \/ l.day < c.day /\ (c.day - l.day = 1 => crossed)
      \/ l.day = c.day /\ l.hr < reset /\ c.hr >= reset

(* From the last day of a period to the first of the next, from a day to   *)
(* the next and within a day it matters on which side of the reset hour    *)
(* the two times lie; any longer gap is enough by itself.                  *)
ValidateRedeemTime(last, current, reset) ==
  LET l == ConvertUnixToUtc(last)
      c == ConvertUnixToUtc(current)
      overMonthEnd == c.day = 1 /\ l.day = l.days_in_month
      crossed == l.hr < reset \/ c.hr >= reset
  IN
  CASE l.year < c.year ->
         c.month = 1 /\ l.month = 12 /\ overMonthEnd => crossed
    [] l.year = c.year /\ l.month < c.month ->
         c.month - l.month = 1 /\ overMonthEnd => crossed
    [] l.year = c.year /\ l.month = c.month /\ l.day < c.day ->
         c.day - l.day = 1 => crossed
    [] OTHER ->
         l.day = c.day /\ l.hr < reset /\ c.hr >= reset

-----------------------------------------------------------------------------
(* What the calendar stands for: the rewards are reset once a day, and a   *)
(* claim needs a reset since the last one.                                 *)
ResetBetween(last, current, reset) ==
  \E day \in last \div 24 .. current \div 24 :
    last < 24 * day + reset /\ 24 * day + reset <= current

(* The first branch asks only for an earlier year, not for the year before. *)
NewYearGap(last, current) ==
  LET l == ConvertUnixToUtc(last)
      c == ConvertUnixToUtc(current)
  IN  c.year - l.year > 1 /\ <<l.month, l.day, c.month, c.day>> = <<12, 31, 1, 1>>
=============================================================================
