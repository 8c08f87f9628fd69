----------------------------- MODULE LocalTime -----------------------------
(***************************************************************************)
(* no_locks_localtime of src/Util/local_time.cpp, which the log dates its  *)
(* lines and files with: the years and the months are counted off.  Times  *)
(* are days since 1970 and seconds, as 32 bits do not hold them in seconds *)
(* alone; _current_timezone is in seconds west of UTC.                     *)
(***************************************************************************)
EXTENDS Integers

CONSTANTS Days, Seconds,  \* moments: days since the epoch, seconds of the day
          West, East,     \* zones, in seconds from UTC
          Summer          \* values of _daylight_active

Day == 24 * 3600

VARIABLES
  t,     \* the moment: [days, seconds, zone, dst]
  days,  \* the days that are not counted off yet
  tm,    \* the date: [year, mon, mday, yday, wday, hour, min, sec]
  at     \* "idle", "year", "month" or "done"

vars == <<t, days, tm, at>>

NoMoment == [days |-> 0, seconds |-> 0, zone |-> 0, dst |-> 0]
NoDate ==
  [year |-> 1970, mon |-> 0, mday |-> 0, yday |-> 0, wday |-> 0, hour |-> 0, min |-> 0, sec |-> 0]

Init == t = NoMoment /\ days = 0 /\ tm = NoDate /\ at = "idle"

\* Mutant: the centuries are forgotten.
LeapEveryFour(year) == IF year % 4 = 0 THEN 1 ELSE 0
is_leap_year(year) == IF year % 4 = 0 /\ (year % 100 # 0 \/ year % 400 = 0) THEN 1 ELSE 0

\* The time of the zone: a day behind, the same day or a day ahead.
Local(m) == m.days + ((m.seconds - m.zone + 3600 * m.dst) \div Day)
LocalSeconds(m) == (m.seconds - m.zone + 3600 * m.dst) % Day

\* What is left after whole days; a moment before 1970 is none of its.
Begin(m) ==
  /\ at = "idle" /\ Local(m) >= 0
  /\ t' = m /\ days' = Local(m) /\ at' = "year"
  /\ LET s == LocalSeconds(m) IN
     tm' = [NoDate EXCEPT !.hour = s \div 3600, !.min = (s % 3600) \div 60, !.sec = (s % 3600) % 60,
                          !.wday = (Local(m) + 4) % 7]

Year ==
  /\ at = "year"
  /\ IF 365 + is_leap_year(tm.year) > days
     THEN tm' = [tm EXCEPT !.yday = days] /\ at' = "month" /\ UNCHANGED days
     ELSE /\ tm' = [tm EXCEPT !.year = @ + 1]
          /\ days' = days - (365 + is_leap_year(tm.year)) /\ UNCHANGED at
  /\ UNCHANGED t

mdays(mon, year) ==
  <<31, 28 + is_leap_year(year), 31, 30, 31, 30, 31, 31, 30, 31, 30, 31>>[mon + 1]

Month ==
  /\ at = "month"
  /\ IF days >= mdays(tm.mon, tm.year)
     THEN tm' = [tm EXCEPT !.mon = @ + 1] /\ days' = days - mdays(tm.mon, tm.year) /\ UNCHANGED at
     ELSE tm' = [tm EXCEPT !.mday = days + 1, !.year = @ - 1900] /\ at' = "done" /\ UNCHANGED days
  /\ UNCHANGED t

Next ==
  \/ \E d \in Days, s \in Seconds, z \in West \cup {-e : e \in East}, dst \in Summer :
       Begin([days |-> d, seconds |-> s, zone |-> z, dst |-> dst])
  \/ Year \/ Month

Spec == Init /\ [][Next]_vars

-----------------------------------------------------------------------------
\* Days since 1970 of a date, by counting from a year that begins in March; no year is walked
\* through.
DaysOf(y, m, d) ==
  LET a == IF m <= 2 THEN y - 1 ELSE y
      e == IF m <= 2 THEN m + 9 ELSE m - 3 IN
  (365 * a + (a \div 4) - (a \div 100) + (a \div 400)) + (((153 * e) + 2) \div 5) + (d - 1) - 719468

\* The date is a date, and the moment is its.
DateRight ==
  at = "done" =>
    /\ tm.mon \in 0 .. 11 /\ tm.mday \in 1 .. mdays(tm.mon, tm.year + 1900)
    /\ DaysOf(tm.year + 1900, tm.mon + 1, tm.mday) = Local(t)
    /\ DaysOf(tm.year + 1900, 1, 1) + tm.yday = Local(t)

\* The month is never a thirteenth, and the loops end with no days missing.
NeverOver == days >= 0 /\ tm.mon \in 0 .. 11 /\ (at = "month" => days < 366)

LocalTimeRight == DateRight /\ NeverOver
=============================================================================
