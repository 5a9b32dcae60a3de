--------------------------- MODULE ScheduleWindow ---------------------------
(***************************************************************************)
(* schedule-window.ts: the civil date and hour of an instant in a time     *)
(* zone, when a source is due, and the instants of a civil day.            *)
(*                                                                         *)
(* An instant is a number of hours since a midnight UTC, a civil date a    *)
(* number of days; minutes are left out, so that offsets and schedules are *)
(* whole hours.  A zone is the table of its offsets, which Intl looks up.  *)
(***************************************************************************)
EXTENDS Integers, FiniteSetsExt

CONSTANTS
  Zones,    \* time zones
  Horizon,  \* the instants the tables of the zones cover
  Offset    \* of a zone at an instant, in hours

\* Day 0 is a Monday.
IsoWeekday(date) == (date % 7) + 1

\* The table that zonedClock reads, one entry per zone and instant.
ZonedClocks ==
  [z \in Zones |-> [t \in Horizon |->
    LET local == t + Offset[z][t]
    IN  [date |-> local \div 24, hour |-> local % 24]]]

ZonedClock(t, zone) == ZonedClocks[zone][t]

DateOf(t, zone) == ZonedClock(t, zone).date

\* What the code takes for granted of the tables of Intl: a zone is at most 12 hours behind
\* UTC and 14 ahead of it, its dates never go back, and a date that has a midnight begins
\* with one.  A date may have no midnight, or two of them.
ASSUME ZonesAssumption ==
  /\ Horizon \subseteq Int
  /\ Offset \in [Zones -> [Horizon -> -12..14]]
  /\ \A zone \in Zones : \A t, u \in Horizon :
       /\ t <= u => DateOf(t, zone) <= DateOf(u, zone)
       /\ DateOf(t, zone) = DateOf(u, zone) /\ ZonedClock(t, zone).hour = 0 =>
            \E v \in Horizon : /\ v <= u
                              /\ ZonedClock(v, zone) = [date |-> DateOf(u, zone), hour |-> 0]

\* Mutant of IsDue: the trigger is one hour, not a threshold.
MutIsDueAtTheHour(schedule, t) ==
  LET clock == ZonedClock(t, schedule.zone) IN
  /\ IsoWeekday(clock.date) \in schedule.weekdays
  /\ clock.hour = schedule.hour

\* isDueForScheduledCrawl: the day is one of the schedule's, its hour has come.
IsDue(schedule, t) ==
  LET clock == ZonedClock(t, schedule.zone) IN
  /\ IsoWeekday(clock.date) \in schedule.weekdays
  /\ clock.hour >= schedule.hour

\* The instants startOfZonedDay goes through, from the earliest zone's midnight on.
Scan(date) == ((24 * date - 14) .. (24 * date + 26)) \cap Horizon

\* Mutant of StartOfZonedDay: a day without a midnight starts at 06:00 UTC.
MutStartAtMidnightOnly(date, zone) ==
  LET midnights == {t \in Scan(date) : ZonedClock(t, zone) = [date |-> date, hour |-> 0]}
  IN  IF midnights # {} THEN Min(midnights) ELSE 24 * date + 6

\* The first midnight of the date; the first instant of a date that has none; 06:00 UTC
\* for a date the zone never has.
StartOfZonedDay(date, zone) ==
  LET ofDate    == {t \in Scan(date) : DateOf(t, zone) = date}
      midnights == {t \in ofDate : ZonedClock(t, zone).hour = 0}
  IN  IF midnights # {} THEN Min(midnights)
      ELSE IF ofDate # {} THEN Min(ofDate)
      ELSE 24 * date + 6

\* The starts of the days, as a table.
StartsOfZonedDays ==
  [z \in Zones |-> [date \in {t \div 24 : t \in Horizon} |-> StartOfZonedDay(date, z)]]

\* The instants of a civil day: from its start to the start of the next one.
InZonedDay(t, date, zone) ==
  /\ StartsOfZonedDays[zone][date] <= t
  /\ t < StartsOfZonedDays[zone][date + 1]
=============================================================================
