------------------------------- MODULE ResetTime -------------------------------
(***************************************************************************)
(* What a Claude message that names its reset ("resets Jan 3 at 4:30pm",   *)
(* "resets 4:30pm") means at the time it was logged: parse_reset_time.     *)
(*                                                                         *)
(* A calendar of the same shape as the real one and of any size: months    *)
(* with a leap day, two halves of a day, and one hour that the local clock *)
(* skips and one that it repeats.  Instants are counted in ticks.          *)
(***************************************************************************)
EXTENDS Integers, FiniteSetsExt

CONSTANTS
  NoTime,
  Years,          \* the years instants may lie in
  LeapYears,      \* those in which month 2 has a day more
  Months,         \* the months of a year
  MonthDays,      \* days of every month
  HalfDay,        \* hours of a half day: 12
  HourMinutes,    \* minutes of an hour: 60
  MinuteTicks,    \* ticks of a minute: 60 seconds
  Grace,          \* ticks that are added to the reset: 5 seconds
  Forward, Back   \* between these instants the clock is an hour ahead

ASSUME CalendarAssumption ==
  /\ LeapYears \subseteq Years /\ Years \cup Months \subseteq Int
  /\ IsFiniteSet(Years) /\ IsFiniteSet(Months) /\ {Forward, Back} \subseteq Nat
  /\ {MonthDays, HalfDay, HourMinutes, MinuteTicks} \subseteq Nat \ {0}
  /\ Grace \in 0 .. MinuteTicks - 1 /\ Forward <= Back
ASSUME NoTimeAssumption == NoTime \notin Int

DaysIn(year, month) == IF month = 2 /\ year \in LeapYears THEN MonthDays + 1 ELSE MonthDays

Dates == {d \in [year : Years, month : Months, day : 1 .. MonthDays + 1] :
            d.day <= DaysIn(d.year, d.month)}

Before(a, b) ==
  \/ a.year < b.year
  \/ a.year = b.year /\ a.month < b.month
  \/ a.year = b.year /\ a.month = b.month /\ a.day < b.day

DayNumber == [d \in Dates |-> Cardinality({e \in Dates : Before(e, d)})]

DateAt == [n \in 0 .. Cardinality(Dates) - 1 |-> CHOOSE d \in Dates : DayNumber[d] = n]

Hour == HourMinutes * MinuteTicks
Day == 2 * HalfDay * Hour

-------------------------------------------------------------------------------
\* The local clock: what it shows at an instant, and the instants at which it
\* shows something: none, one or two.
Wall(instant) == IF Forward <= instant /\ instant < Back THEN instant + Hour ELSE instant

Instants(wall) == {t \in {wall - Hour, wall} : Wall(t) = wall}

DateOf(instant) == DateAt[Wall(instant) \div Day]

\* Of a repeated hour the first is taken, a skipped one is an hour later.
FromLocal(wall) ==
  IF Instants(wall) # {} THEN Min(Instants(wall))
  ELSE IF Instants(wall + Hour) # {} THEN Min(Instants(wall + Hour)) ELSE NoTime

LocalDatetime(year, month, day, hour, minute) ==
  LET date == [year |-> year, month |-> month, day |-> day]
  IN IF date \in Dates /\ hour < 2 * HalfDay /\ minute < HourMinutes
       THEN FromLocal(DayNumber[date] * Day + hour * Hour + minute * MinuteTicks)
       ELSE NoTime

\* Not the code: noon and midnight are not told apart from the other hours.
PlainHour(hour, period) == IF period = "pm" THEN hour + HalfDay ELSE hour

\* mil_hour
MilHour(hour, period) ==
  IF period = "pm" /\ hour # HalfDay THEN hour + HalfDay
  ELSE IF period = "am" /\ hour = HalfDay THEN 0 ELSE hour

\* A message: with a date or without, and the time.  A name that is no month
\* is no member of Months.
Plus(instant, ticks) == IF instant = NoTime THEN NoTime ELSE instant + ticks

\* Not the code: a time of day that has passed is not the next day's.
TodaysTime(log, m) ==
  LET date == DateOf(log)
  IN Plus(LocalDatetime(date.year, date.month, date.day, MilHour(m.hour, m.period), m.minute),
          Grace)

\* A time of day that has passed is meant for the next day.
TimeOnly(log, m) ==
  LET date == DateOf(log)
      today == Plus(LocalDatetime(date.year, date.month, date.day,
                                  MilHour(m.hour, m.period), m.minute), Grace)
  IN IF today # NoTime /\ today < log THEN today + Day ELSE today

\* A date that has passed is meant for the next year.
Dated(log, m) ==
  LET In(year) == Plus(LocalDatetime(year, m.month, m.day, MilHour(m.hour, m.period), m.minute),
                       Grace)
      year == DateOf(log).year
  IN IF m.month \notin Months THEN NoTime
     ELSE IF In(year) # NoTime /\ In(year) < log THEN In(year + 1) ELSE In(year)

\* parse_reset_time
ParseResetTime(log, m) == IF m.dated THEN Dated(log, m) ELSE TimeOnly(log, m)
===============================================================================
