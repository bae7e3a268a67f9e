------------------------------ MODULE Calendar ------------------------------
(***************************************************************************)
(* libc/time.c: the tick that clock() extends beyond its width, and the     *)
(* conversions between seconds and dates. C's division truncates towards    *)
(* zero, as Quot and Rem do. An hour has PerHour seconds and a day PerDay   *)
(* hours (the code's minutes divide the hour as the hours divide the day).  *)
(***************************************************************************)
EXTENDS Calls

CONSTANTS
  TickWrap,      \* gettick() counts modulo TickWrap
  PerSecond,     \* CLOCKS_PER_SEC
  MaxReads,      \* calls of clock() in a row that are tried
  PerHour, PerDay,
  Years          \* years whose every day is tried

ASSUME CalendarAssumption ==
  /\ {TickWrap, PerSecond, PerHour, PerDay} \subseteq Nat \ {0}
  /\ MaxReads \in Nat /\ Years \subseteq Int

Quot(a, b) == IF a < 0 THEN - ((- a) \div b) ELSE a \div b
Rem(a, b) == a - b * Quot(a, b)

-----------------------------------------------------------------------------
\* Mutant: a tick that is behind the last one counts as a negative number.
Elapsed32(now, last) == now - last

Elapsed(now, last) == (now - last) % TickWrap

\* The static ticks, 64 bits wide, after clock() was called at each of the
\* ticks in the list; clock_t has as many values as the tick, and a sign.
ticks(nows) ==
  LET sum[i \in 0 .. Len(nows)] ==
        IF i = 0 THEN 0
        ELSE sum[i - 1] + Elapsed(nows[i], IF i = 1 THEN 0 ELSE nows[i - 1])
  IN  sum[Len(nows)]

clock(nows) ==
  LET n == ticks(nows) % TickWrap IN IF 2 * n >= TickWrap THEN n - TickWrap ELSE n

time(nows) == Quot(clock(nows), PerSecond)

-----------------------------------------------------------------------------
Day == PerDay * PerHour

\* The leap years among the first yo years of an era.
Leaps(yo) == Quot(yo, 4) - Quot(yo, 100)

\* The days of a year that begins in March before its month mp.
MonthStart(mp) == Quot(153 * mp + 2, 5)

days(year, m, d) ==
  LET y == IF m <= 2 THEN year - 1 ELSE year
      era == Quot(IF y >= 0 THEN y ELSE y - 399, 400)
      yo == y - era * 400
      doy == MonthStart(m + (IF m > 2 THEN -3 ELSE 9)) + d - 1
  IN  era * 146097 + yo * 365 + Leaps(yo) + doy - 719468

\* A time as a day and a second of it.
DayOf(t) == IF Rem(t, Day) < 0 THEN Quot(t, Day) - 1 ELSE Quot(t, Day)
SecondOf(t) == IF Rem(t, Day) < 0 THEN Rem(t, Day) + Day ELSE Rem(t, Day)

\* The era of 400 years, the year of the era, the day of a year that begins in
\* March and its month; what doe is a day of, and z one since such a year 0.
EraOf(z) == Quot(IF z >= 0 THEN z ELSE z - 146096, 146097)
YearOf(doe) == Quot(doe - Quot(doe, 1460) + Quot(doe, 36524) - Quot(doe, 146096), 365)
DayOfYear(doe) == doe - (365 * YearOf(doe) + Leaps(YearOf(doe)))
MonthOf(doy) == Quot(5 * doy + 2, 153)

gmtime(t) ==
  LET d == DayOf(t)
      era == EraOf(d + 719468)
      doe == d + 719468 - era * 146097
      doy == DayOfYear(doe)
      month == MonthOf(doy) + (IF MonthOf(doy) < 10 THEN 3 ELSE -9)
      y == YearOf(doe) + era * 400 + (IF month <= 2 THEN 1 ELSE 0)
      w == Rem(d + 4, 7)
  IN  [sec |-> Rem(SecondOf(t), PerHour), hour |-> Quot(SecondOf(t), PerHour),
       mday |-> doy - MonthStart(MonthOf(doy)) + 1, mon |-> month - 1, year |-> y - 1900,
       wday |-> IF w < 0 THEN w + 7 ELSE w, yday |-> d - days(y, 1, 1)]

mktime(t) ==
  LET m == Rem(t.mon, 12)
      y == t.year + 1900 + Quot(t.mon, 12) - (IF m < 0 THEN 1 ELSE 0)
  IN  (days(y, (IF m < 0 THEN m + 12 ELSE m) + 1, 1) + t.mday - 1) * Day
        + t.hour * PerHour + t.sec

-----------------------------------------------------------------------------
\* The last second of every day of the years, found by counting from 1970.
IsLeap(y) == y % 4 = 0 /\ (y % 100 # 0 \/ y % 400 = 0)
Leap(y) == IF IsLeap(y) THEN 1 ELSE 0
LeapsBefore(y) == (y - 1) \div 4 - (y - 1) \div 100 + (y - 1) \div 400
NewYear(y) == 365 * (y - 1970) + LeapsBefore(y) - LeapsBefore(1970)
LastSeconds == {(NewYear(y) + n + 1) * Day - 1 : y \in Years, n \in 0 .. 365}

CalendarCalls ==
  \/ Call("clock", UNION {[1 .. n -> 0 .. TickWrap - 1] : n \in 0 .. MaxReads})
  \/ Call("gmtime", LastSeconds \cup {0})
  \/ Call("mktime", [year : {0, 69, 100}, mon : -25 .. 25, mday : {-31, 1, 31, 400},
                     hour : {-1, PerDay}, sec : {-1, 0}])

MonthLength(y, mon) ==
  CASE mon = 1 -> 28 + Leap(y) [] mon \in {3, 5, 8, 10} -> 30 [] OTHER -> 31

\* The days of a year before a month.
DaysBefore(y, mon) ==
  LET n[k \in 0 .. 12] == IF k = 0 THEN 0 ELSE n[k - 1] + MonthLength(y, k - 1) IN n[mon]

\* The day after a date, by the calendar's rules.
Tomorrow(t) ==
  LET y == t.year + 1900
      newMonth == t.mday = MonthLength(y, t.mon)
      newYear == newMonth /\ t.mon = 11
  IN  [t EXCEPT !.mday = IF newMonth THEN 1 ELSE @ + 1,
                !.mon = IF newYear THEN 0 ELSE IF newMonth THEN @ + 1 ELSE @,
                !.year = IF newYear THEN @ + 1 ELSE @,
                !.wday = (@ + 1) % 7, !.yday = IF newYear THEN 0 ELSE @ + 1,
                !.sec = 0, !.hour = 0]

\* How often the tick came back to 0 between calls that are less than a turn
\* of it apart.
Wraps(nows) ==
  LET n[i \in 0 .. Len(nows)] ==
        IF i = 0 THEN 0
        ELSE n[i - 1] + (IF i > 1 /\ nows[i] < nows[i - 1] THEN 1 ELSE 0)
  IN  n[Len(nows)]

\* What clock() and time() tell after calls at the ticks in a, the dates of a
\* day's last second and of the next, and the time of a date whose fields may
\* be outside their range.
ClockAgrees(a) ==
  LET now == Wraps(a) * TickWrap + a[Len(a)]
  IN  /\ ticks(a) = now
      /\ 2 * now < TickWrap => clock(a) = now /\ time(a) = now \div PerSecond
      /\ (clock(a) - now) % TickWrap = 0

DatesAgree(a) ==
  IF a = 0 THEN gmtime(0) = [sec |-> 0, hour |-> 0, mday |-> 1, mon |-> 0,
                             year |-> 70, wday |-> 4, yday |-> 0]
  ELSE /\ gmtime(a).sec = PerHour - 1 /\ gmtime(a).hour = PerDay - 1
       /\ gmtime(a + 1) = Tomorrow(gmtime(a))
       /\ mktime(gmtime(a)) = a /\ mktime(gmtime(a + 1)) = a + 1

MktimeAgrees(a) ==
  LET y == a.year + 1900 + a.mon \div 12
  IN  mktime(a) = (NewYear(y) + DaysBefore(y, a.mon % 12) + a.mday - 1) * Day
                    + a.hour * PerHour + a.sec

\* A clock that is read at least once in each turn of the tick loses none, and
\* clock() and time() tell what it says until their signed type is full; the
\* dates before and after 1970 follow each other as the calendar says; mktime
\* undoes gmtime, and takes months, days and hours outside their range.
TimeAgrees ==
  /\ call.fn = "clock" /\ call.a # <<>> => ClockAgrees(call.a)
  /\ call.fn = "gmtime" => DatesAgree(call.a)
  /\ call.fn = "mktime" => MktimeAgrees(call.a)
=============================================================================
