---------------------------- MODULE BookingCalendar ----------------------------
(*****************************************************************************)
(* The calendar of session_availability.py: university pairs and the starts  *)
(* they admit, the days open to students and to staff. A moment is a number  *)
(* of minutes since 00:00 of a Monday, local time; a day is a number of days *)
(* since that Monday.                                                        *)
(*****************************************************************************)
EXTENDS Integers, FiniteSets

CONSTANTS
  Holiday,                     \* days in the Holiday table
  HorizonDays,                 \* BOOKING_HORIZON_DAYS
  ClosesAt, OpensAt,           \* BOOKING_DAY_CLOSES_AT, BOOKING_DAY_OPENS_AT
  ManualWorkingWeeks,          \* MANUAL_BOOKING_WORKING_WEEKS
  UtcOffset,                   \* local time minus UTC, TIME_ZONE
  MaxDay                       \* last day of the calendar (bound)

ASSUME CalendarAssumption ==
  /\ Holiday \subseteq Int
  /\ {HorizonDays, ManualWorkingWeeks, MaxDay} \subseteq Nat
  /\ ClosesAt \in 0..1439 /\ OpensAt \in 0..1439

(* No pair of the day runs over midnight UTC: TIME_ZONE is Europe/Moscow.    *)
ASSUME OffsetAssumption == UtcOffset \in -300..530

Minute(h, m) == 60 * h + m
Day(t) == t \div 1440
TimeOfDay(t) == t % 1440
UtcDay(t) == Day(t - UtcOffset)
Weekday(d) == d % 7 < 5
WorkingDay(d) == Weekday(d) /\ d \notin Holiday

-------------------------------------------------------------------------------
(* Pairs                                                                     *)

UniversityPairs ==
  <<[from |-> Minute(8, 50), to |-> Minute(10, 20)], [from |-> Minute(10, 35), to |-> Minute(12, 5)],
    [from |-> Minute(12, 35), to |-> Minute(14, 5)], [from |-> Minute(14, 15), to |-> Minute(15, 45)],
    [from |-> Minute(15, 55), to |-> Minute(17, 20)], [from |-> Minute(17, 30), to |-> Minute(19, 0)]>>
PairNumber == DOMAIN UniversityPairs
NoPair == 0

AllowedLabDurations == {30, 45, 60, 90}

(* Minutes that lab works of the allowed durations, one after another, fill. *)
ReachableSums(most) ==
  LET reached[n \in 0..most] ==
        n = 0 \/ \E d \in AllowedLabDurations : d <= n /\ reached[n - d]
  IN {n \in 0..most : reached[n]}

PairStartOffsets ==
  [n \in PairNumber |->
     LET minutes == UniversityPairs[n].to - UniversityPairs[n].from
     IN {offset \in ReachableSums(minutes) :
           \E d \in AllowedLabDurations : offset + d <= minutes}]

(* The pair a moment falls in, the break after a pair not included.          *)
PairOf(t) ==
  LET running == {n \in PairNumber : /\ UniversityPairs[n].from <= TimeOfDay(t)
                                     /\ TimeOfDay(t) < UniversityPairs[n].to}
  IN IF running = {} THEN NoPair ELSE CHOOSE n \in running : TRUE

IsPairTime(t) ==
  /\ PairOf(t) # NoPair
  /\ TimeOfDay(t) - UniversityPairs[PairOf(t)].from \in PairStartOffsets[PairOf(t)]

(* The times at which generate_lab_sessions starts slots of this length.     *)
PairStartTimes(duration) ==
  UNION {{UniversityPairs[n].from + offset :
            offset \in {o \in PairStartOffsets[n] :
                          UniversityPairs[n].from + o + duration <= UniversityPairs[n].to}}
           : n \in PairNumber}

-------------------------------------------------------------------------------
(* Days open for booking                                                     *)

MinBookingDate(now) == Day(now) + (IF TimeOfDay(now) >= ClosesAt THEN 2 ELSE 1)
MaxBookingDate(now) == Day(now) + HorizonDays + (IF TimeOfDay(now) >= OpensAt THEN 1 ELSE 0)
DayOpen(d, now) == d \in MinBookingDate(now)..MaxBookingDate(now)

(* The last of the working days of the next weeks, the counting loop of      *)
(* manual_booking_max_date, for each day it may start from.                  *)
LastWorkingDay ==
  [today \in 0..MaxDay |->
     CHOOSE d \in today + 1..MaxDay + 4 * 7 * (ManualWorkingWeeks + 1) :
       /\ WorkingDay(d)
       /\ Cardinality({e \in today + 1..d : WorkingDay(e)}) = 5 * ManualWorkingWeeks]

(* That loop ends: holidays leave enough working days.                       *)
ASSUME HolidayAssumption ==
  \A today \in 0..MaxDay :
    \E d \in today + 1..MaxDay + 4 * 7 * (ManualWorkingWeeks + 1) :
      /\ WorkingDay(d)
      /\ Cardinality({e \in today + 1..d : WorkingDay(e)}) = 5 * ManualWorkingWeeks
ManualMaxDate(now) == LastWorkingDay[Day(now)]

OnCurrentPair(start, now) ==
  /\ Day(start) = Day(now)
  /\ PairOf(start) # NoPair
  /\ PairOf(start) = PairOf(now)

(* A future slot, or one of the running pair that is not over.               *)
ManualTimeAllowed(start, end, now) ==
  end > now /\ (start > now \/ OnCurrentPair(start, now))
================================================================================
