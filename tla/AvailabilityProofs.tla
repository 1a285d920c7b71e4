-------------------------- MODULE AvailabilityProofs --------------------------
(*****************************************************************************)
(* What students and staff are offered, for any timetable and calendar: the  *)
(* lists agree with create_booking, the filters never lead to an empty page, *)
(* and the weekly generation stays ahead of the days open to students.       *)
(*****************************************************************************)
EXTENDS Availability, FiniteSetTheorems, WellFoundedInduction, TLAPS

-------------------------------------------------------------------------------
(* Numbers                                                                   *)

LEMMA LeastNat ==
  ASSUME NEW S, S \subseteq Nat, S # {}
  PROVE  \E n \in S : \A m \in S : n <= m
<1> DEFINE R == {p \in Nat \X Nat : p[1] < p[2]}
<1>1. IsWellFoundedOn(R, Nat)
  BY NatLessThanWellFounded DEF OpToRel
<1>2. \A x, y \in Nat : x < y => <<x, y>> \in R
  OBVIOUS
<1> HIDE DEF R
<1>3. PICK n \in S : \A m \in S : <<m, n>> \notin R
  BY <1>1, WFMin
<1>4. \A m \in S : n \in Nat /\ m \in Nat /\ ~(m < n)
  BY <1>2, <1>3
<1>5. \A m \in S : n <= m
  BY <1>4
<1>6. QED BY <1>5

LEMMA SmallestIs ==
  ASSUME NEW S, NEW n \in S, \A m \in S : n <= m
  PROVE  Smallest(S) \in S /\ \A m \in S : Smallest(S) <= m
BY DEF Smallest

LEMMA SmallestNat ==
  ASSUME NEW S, S \subseteq Nat, S # {}
  PROVE  Smallest(S) \in S /\ \A m \in S : Smallest(S) <= m
BY LeastNat, SmallestIs

(* A minimum of two or three numbers is positive if they all are.            *)
LEMMA PositiveOfTwo ==
  ASSUME NEW a \in Int, NEW b \in Int
  PROVE  AtLeastZero(Smallest({a, b})) > 0 <=> a > 0 /\ b > 0
<1>1. \E n \in {a, b} : \A m \in {a, b} : n <= m
  OBVIOUS
<1>2. PICK n : n = Smallest({a, b})
  OBVIOUS
<1>3. n \in {a, b} /\ n <= a /\ n <= b
  BY <1>1, <1>2, SmallestIs
<1>4. QED BY <1>2, <1>3 DEF AtLeastZero

LEMMA PositiveOfThree ==
  ASSUME NEW r \in Int, NEW a \in Int, NEW b \in Int
  PROVE  AtLeastZero(Smallest({r} \cup {a, b})) > 0 <=> r > 0 /\ a > 0 /\ b > 0
<1> DEFINE S == {r} \cup {a, b}
<1>1. \E n \in S : \A m \in S : n <= m
  OBVIOUS
<1>2. PICK n : n = Smallest(S)
  OBVIOUS
<1>3. n \in {r, a, b} /\ n <= r /\ n <= a /\ n <= b
  BY <1>1, <1>2, SmallestIs
<1>4. QED BY <1>2, <1>3 DEF AtLeastZero

-------------------------------------------------------------------------------
(* Seats                                                                     *)

LEMMA BookedNat ==
  ASSUME NEW S
  PROVE  Booked(S) \in Nat /\ (Booked(S) = 0 <=> BookedIn(bookings, S) = {})
<1>1. IsFiniteSet(BookedIn(bookings, S))
  BY BookingIdAssumption, FS_Subset DEF BookedIn
<1>2. QED BY <1>1, FS_CardinalityType, FS_EmptySet DEF Booked

(* The seats shown are above zero exactly when create_booking finds a seat   *)
(* by all of its four rules.                                                 *)
LEMMA SeatsShownIffFree ==
  ASSUME NEW s \in Session
  PROVE  AvailableSeats(s) > 0 <=> /\ ~StandBlocked(bookings, s)
                                  /\ ~SessionFull(bookings, s)
                                  /\ ~LabWorkCapacityWouldBeExceeded(bookings, s)
                                  /\ ~RoomCapacityWouldBeExceeded(bookings, s)
<1> DEFINE own == Booked({s})
           others == Booked(OverlappingRoomSessions(s) \ {s})
           inRoom == Booked(OverlappingRoomSessions(s))
           ofWork == Booked(OverlappingSameLabWorkSessions(s))
           a == Capacity[s] - own
           b == LabWorkCapacity[LabWorkOf[s]] - ofWork
           r == RoomCapacity[RoomOf[s]] - inRoom
<1>1. own \in Nat /\ others \in Nat /\ inRoom \in Nat /\ ofWork \in Nat
  BY BookedNat
<1>2. /\ Capacity[s] \in Nat /\ LabWorkCapacity[LabWorkOf[s]] \in Nat
      /\ RoomCapacity[RoomOf[s]] \in Nat
  BY TimetableAssumption
<1>3. SessionFull(bookings, s) <=> own >= Capacity[s]
  BY DEF SessionFull, Booked
<1>4. LabWorkCapacityWouldBeExceeded(bookings, s) <=> ofWork + 1 > LabWorkCapacity[LabWorkOf[s]]
  BY DEF LabWorkCapacityWouldBeExceeded, Booked
<1>5. RoomCapacityWouldBeExceeded(bookings, s)
        <=> others # 0 /\ inRoom + 1 > RoomCapacity[RoomOf[s]]
  BY BookedNat DEF RoomCapacityWouldBeExceeded, Booked
<1>6. AvailableSeats(s) =
        IF StandBlocked(bookings, s) THEN 0
        ELSE AtLeastZero(Smallest((IF others = 0 THEN {} ELSE {r}) \cup {a, b}))
  BY DEF AvailableSeats
<1> HIDE DEF own, others, inRoom, ofWork
<1>7. a \in Int /\ b \in Int /\ r \in Int
  BY <1>1, <1>2
<1>8. SessionFull(bookings, s) <=> ~(a > 0)
  BY <1>1, <1>2, <1>3
<1>9. LabWorkCapacityWouldBeExceeded(bookings, s) <=> ~(b > 0)
  BY <1>1, <1>2, <1>4
<1>10. RoomCapacityWouldBeExceeded(bookings, s) <=> others # 0 /\ ~(r > 0)
  BY <1>1, <1>2, <1>5
<1> HIDE DEF a, b, r
<1>11. CASE others = 0
  <2>1. {} \cup {a, b} = {a, b}
    OBVIOUS
  <2>2. AtLeastZero(Smallest({a, b})) > 0 <=> a > 0 /\ b > 0
    BY <1>7, PositiveOfTwo
  <2>3. ~(0 > 0)
    OBVIOUS
  <2>4. QED BY <1>6, <1>8, <1>9, <1>10, <1>11, <2>1, <2>2, <2>3
<1>12. CASE others # 0
  <2>1. AtLeastZero(Smallest({r} \cup {a, b})) > 0 <=> r > 0 /\ a > 0 /\ b > 0
    BY <1>7, PositiveOfThree
  <2>2. ~(0 > 0)
    OBVIOUS
  <2>3. QED BY <1>6, <1>8, <1>9, <1>10, <1>12, <2>1, <2>2
<1>13. QED BY <1>11, <1>12

-------------------------------------------------------------------------------
(* The calendar                                                              *)

LEMMA PairNumbers == PairNumber = 1..6
BY DEF PairNumber, UniversityPairs

LEMMA PairHours ==
  ASSUME NEW n \in PairNumber
  PROVE  /\ UniversityPairs[n].from \in Nat /\ UniversityPairs[n].to \in Nat
         /\ 530 <= UniversityPairs[n].from /\ UniversityPairs[n].to <= 1140
<1>1. n = 1 \/ n = 2 \/ n = 3 \/ n = 4 \/ n = 5 \/ n = 6
  BY PairNumbers
<1>2. QED BY <1>1 DEF UniversityPairs, Minute

(* A moment in a pair lies between 8:50 and 19:00.                           *)
LEMMA InPair ==
  ASSUME NEW t \in Nat, PairOf(t) # NoPair
  PROVE  /\ PairOf(t) \in PairNumber
         /\ 530 <= TimeOfDay(t) /\ TimeOfDay(t) < 1140
<1> DEFINE running == {n \in PairNumber : /\ UniversityPairs[n].from <= TimeOfDay(t)
                                          /\ TimeOfDay(t) < UniversityPairs[n].to}
<1>1. running # {} /\ PairOf(t) \in running
  BY DEF PairOf
<1>2. TimeOfDay(t) \in Nat
  BY DEF TimeOfDay
<1>3. QED BY <1>1, <1>2, PairHours

(* The holiday rule of a student's booking looks the day up in UTC: in a     *)
(* pair that is the day.                                                     *)
LEMMA SameDayInUtc ==
  ASSUME NEW t \in Nat, IsPairTime(t)
  PROVE  UtcDay(t) = Day(t)
<1>1. 530 <= TimeOfDay(t) /\ TimeOfDay(t) < 1140
  BY InPair DEF IsPairTime
<1>2. t = 1440 * (t \div 1440) + (t % 1440) /\ t \div 1440 \in Int /\ t % 1440 \in 0..1439
  OBVIOUS
<1>3. PICK d \in Int, m \in Int : d = t \div 1440 /\ m = t % 1440 /\ t = 1440 * d + m
  BY <1>2
<1>4. 530 <= m /\ m < 1140
  BY <1>1, <1>3 DEF TimeOfDay
<1>5. 0 <= m - UtcOffset /\ m - UtcOffset < 1440 /\ UtcOffset \in Int
  BY <1>4, OffsetAssumption
<1>6. (t - UtcOffset) \div 1440 = d
  BY <1>3, <1>5
<1>7. QED BY <1>3, <1>6 DEF UtcDay, Day


(* The last working day of the staff's weeks is a day.                       *)
LEMMA ManualMaxDay ==
  ASSUME now \in Clock
  PROVE  ManualMaxDate(now) \in Int
<1> DEFINE Fits(today, d) == /\ WorkingDay(d)
                             /\ Cardinality({e \in today + 1..d : WorkingDay(e)})
                                  = 5 * ManualWorkingWeeks
           Days(today) == today + 1..MaxDay + 4 * 7 * (ManualWorkingWeeks + 1)
<1>1. Day(now) \in 0..MaxDay
  <2>1. now \in Nat /\ Day(now) <= MaxDay
    BY AvailabilityAssumption
  <2>2. Day(now) \in Nat
    BY <2>1 DEF Day
  <2>3. QED BY <2>1, <2>2, CalendarAssumption
<1>2. LastWorkingDay[Day(now)] = CHOOSE d \in Days(Day(now)) : Fits(Day(now), d)
  BY <1>1 DEF LastWorkingDay
<1>3. \E d \in Days(Day(now)) : Fits(Day(now), d)
  BY <1>1, HolidayAssumption
<1>4. Days(Day(now)) \subseteq Int
  OBVIOUS
<1> HIDE DEF Fits, Days
<1>5. QED BY <1>2, <1>3, <1>4 DEF ManualMaxDate

-------------------------------------------------------------------------------
(* What is listed is what create_booking admits                              *)

LEMMA StudentWindowAgrees ==
  ASSUME now \in Nat, NEW s \in Session
  PROVE  StudentWindowObjections(s) = {} <=>
           /\ status[s] = "OPEN" /\ StartsAt[s] > now
           /\ DayOpen(Day(StartsAt[s]), now)
           /\ Day(StartsAt[s]) \notin Holiday
           /\ Weekday(Day(StartsAt[s])) /\ IsPairTime(StartsAt[s])
<1>1. StartsAt[s] \in Nat
  BY TimetableAssumption
<1>2. StartsAt[s] > now <=> ~(StartsAt[s] <= now)
  BY <1>1
<1>3. IsPairTime(StartsAt[s]) => UtcDay(StartsAt[s]) = Day(StartsAt[s])
  BY <1>1, SameDayInUtc
<1>4. StudentWindowObjections(s) = {} <=>
        /\ DayOpen(Day(StartsAt[s]), now) /\ ~(StartsAt[s] <= now)
        /\ Weekday(Day(StartsAt[s])) /\ IsPairTime(StartsAt[s])
        /\ status[s] = "OPEN" /\ UtcDay(StartsAt[s]) \notin Holiday
  BY Zenon DEF StudentWindowObjections
<1>5. QED BY <1>2, <1>3, <1>4

LEMMA ListedAgrees ==
  ASSUME now \in Nat, NEW st, NEW lw, NEW d
  PROVE  StudentSessions(st, lw) =
           {s \in Session : LabWorkOf[s] = lw /\ StudentObjections(st, s, d) \subseteq StudentRules}
<1> SUFFICES ASSUME NEW s \in Session, LabWorkOf[s] = lw
             PROVE  s \in StudentSessions(st, lw) <=> StudentObjections(st, s, d) \subseteq StudentRules
  BY DEF StudentSessions, BookableSessions
<1>1. s \in StudentSessions(st, lw) <=> /\ StudentWindowObjections(s) = {}
                                       /\ AvailableSeats(s) > 0
                                       /\ ~StudentOverlapBooked(bookings, st, s)
  BY StudentWindowAgrees DEF StudentSessions, BookableSessions
<1>2. CASE StudentWindowObjections(s) # {}
  <2>1. StudentObjections(st, s, d) = StudentWindowObjections(s)
    BY <1>2 DEF StudentObjections
  <2>2. PICK why \in StudentWindowObjections(s) : TRUE
    BY <1>2
  <2>3. why \notin StudentRules
    BY <2>2 DEF StudentWindowObjections, StudentRules
  <2>4. QED BY <1>1, <1>2, <2>1, <2>2, <2>3
<1>3. CASE StudentWindowObjections(s) = {}
  <2> DEFINE free == /\ ~StudentOverlapBooked(bookings, st, s) /\ ~SessionFull(bookings, s)
                     /\ ~LabWorkCapacityWouldBeExceeded(bookings, s)
                     /\ ~RoomCapacityWouldBeExceeded(bookings, s)
                     /\ ~StandBlocked(bookings, s)
  <2>1. StudentObjections(st, s, d) =
          {why \in {"active", "visited"} \cup {"overlap", "full", "lab work", "room", "stand"} :
             \/ why = "active" /\ HasActiveInDiscipline(bookings, st, d)
             \/ why = "visited" /\ HasVisited(bookings, st, s)
             \/ why = "overlap" /\ StudentOverlapBooked(bookings, st, s)
             \/ why = "full" /\ SessionFull(bookings, s)
             \/ why = "lab work" /\ LabWorkCapacityWouldBeExceeded(bookings, s)
             \/ why = "room" /\ RoomCapacityWouldBeExceeded(bookings, s)
             \/ why = "stand" /\ StandBlocked(bookings, s)}
    BY <1>3 DEF StudentObjections, StudentRules
  <2>2. PICK why : why = StudentObjections(st, s, d)
    OBVIOUS
  <2>3. /\ "overlap" \in why <=> StudentOverlapBooked(bookings, st, s)
        /\ "full" \in why <=> SessionFull(bookings, s)
        /\ "lab work" \in why <=> LabWorkCapacityWouldBeExceeded(bookings, s)
        /\ "room" \in why <=> RoomCapacityWouldBeExceeded(bookings, s)
        /\ "stand" \in why <=> StandBlocked(bookings, s)
    BY <2>1, <2>2
  <2>4. \A w \in why : w \in {"active", "visited", "overlap", "full", "lab work", "room", "stand"}
    BY <2>1, <2>2, Zenon
  <2>5. why \subseteq {"active", "visited"} <=> free
    BY <2>3, <2>4
  <2>6. free <=> AvailableSeats(s) > 0 /\ ~StudentOverlapBooked(bookings, st, s)
    BY SeatsShownIffFree
  <2> HIDE DEF free
  <2>7. QED BY <1>1, <1>3, <2>2, <2>5, <2>6 DEF StudentRules
<1>4. QED BY <1>2, <1>3

LEMMA ManualAgrees ==
  ASSUME now \in Clock, NEW lw
  PROVE  ManualSessions(lw) =
           {s \in Session : LabWorkOf[s] = lw /\ ManualObjections(s) \subseteq {"stand"}}
<1> SUFFICES ASSUME NEW s \in Session, LabWorkOf[s] = lw
             PROVE  s \in ManualSessions(lw) <=> ManualObjections(s) \subseteq {"stand"}
  BY DEF ManualSessions
<1>1. StartsAt[s] \in Nat /\ Day(StartsAt[s]) \in Int
  BY TimetableAssumption DEF Day
<1>2. Day(StartsAt[s]) <= ManualMaxDate(now) <=> ~(Day(StartsAt[s]) > ManualMaxDate(now))
  BY <1>1, ManualMaxDay
<1>3. ManualWindowObjections(s) = {} <=>
        /\ ManualTimeAllowed(StartsAt[s], EndsAt[s], now)
        /\ ~(Day(StartsAt[s]) > ManualMaxDate(now))
        /\ Weekday(Day(StartsAt[s])) /\ IsPairTime(StartsAt[s])
        /\ status[s] = "OPEN" /\ Day(StartsAt[s]) \notin Holiday
  BY Zenon DEF ManualWindowObjections
<1>4. s \in ManualSessions(lw) <=> ManualWindowObjections(s) = {}
  BY <1>2, <1>3 DEF ManualSessions, WorkingDay, ManualTimeAllowed
<1>5. ManualWindowObjections(s) # {} => ~(ManualObjections(s) \subseteq {"stand"})
  BY DEF ManualObjections, ManualWindowObjections
<1>6. ManualWindowObjections(s) = {} => ManualObjections(s) \subseteq {"stand"}
  BY DEF ManualObjections
<1>7. QED BY <1>4, <1>5, <1>6


-------------------------------------------------------------------------------
(* The weekly generation                                                     *)

Week == 7 * 1440

(* The last time cron was due is that of week k; the horizon is that of the  *)
(* last run that was not missed, and a week less while a run is due.         *)
Lag(k) ==
  /\ Week * k + CronAt <= now /\ now < Week * (k + 1) + CronAt
  /\ horizon >= DaysAhead + Day(CronAt) + 7 * (k - missed) - (IF CronDue THEN 7 ELSE 0)

WindowInv ==
  /\ now \in Clock /\ horizon \in Nat /\ missed \in 0..MaxMissed
  /\ \E k \in Int : Lag(k)

LEMMA DaysAheadNat ==
  DaysAhead \in Nat /\ DaysAhead >= HorizonDays + 7 * (MaxMissed + 1) /\ HorizonDays \in Nat
<1>1. HorizonDays \in Nat /\ WeeksAhead \in Nat /\ MaxMissed \in Nat
  BY CalendarAssumption, AvailabilityAssumption
<1>2. 7 * WeeksAhead >= HorizonDays + 7 * (MaxMissed + 1)
  BY CronAssumption
<1>3. QED BY <1>1, <1>2 DEF DaysAhead

LEMMA DayAndMinute ==
  ASSUME NEW t \in Int
  PROVE  t \div 1440 \in Int /\ (t % 1440) \in 0..1439 /\ t = 1440 * (t \div 1440) + (t % 1440)
OBVIOUS

LEMMA WeekAndMinute ==
  ASSUME NEW t \in Int
  PROVE  t \div 10080 \in Int /\ (t % 10080) \in 0..10079 /\ t = 10080 * (t \div 10080) + (t % 10080)
OBVIOUS

(* The day of a moment k weeks after the day cron is first due.              *)
LEMMA DayOfWeek ==
  ASSUME NEW t \in Nat, NEW k \in Int, Week * k + CronAt <= t, t < Week * (k + 1) + CronAt
  PROVE  /\ Day(t) \in Int /\ Day(CronAt) \in Int
         /\ 7 * k + Day(CronAt) <= Day(t)
         /\ \/ Day(t) <= 7 * k + Day(CronAt) + 6
            \/ Day(t) = 7 * k + Day(CronAt) + 7 /\ TimeOfDay(t) < TimeOfDay(CronAt)
         /\ t = Week * k + CronAt => Day(t) = 7 * k + Day(CronAt) /\ TimeOfDay(t) = TimeOfDay(CronAt)
<1>1. CronAt \in Nat
  BY CronAssumption
<1>2. PICK d, m : d = (t \div 1440) /\ m = (t % 1440)
  OBVIOUS
<1>3. PICK c, n : c = (CronAt \div 1440) /\ n = (CronAt % 1440)
  OBVIOUS
<1>4. t = 1440 * d + m /\ CronAt = 1440 * c + n
  BY <1>1, <1>2, <1>3, DayAndMinute
<1>5. d \in Int /\ m \in 0..1439 /\ c \in Int /\ n \in 0..1439
  BY <1>1, <1>2, <1>3, DayAndMinute
<1>6. PICK e \in Int : e = 7 * k + c
  BY <1>5
<1>7. Week * k + CronAt = 1440 * e + n /\ Week * (k + 1) + CronAt = 1440 * (e + 7) + n
  BY <1>4, <1>5, <1>6 DEF Week
<1>8. e <= d /\ (e = d => n <= m)
  <2>1. 1440 * e + n <= 1440 * d + m
    BY <1>4, <1>7
  <2>2. QED BY <1>5, <2>1
<1>9. d <= e + 7 /\ (d = e + 7 => m < n)
  <2>1. 1440 * d + m < 1440 * (e + 7) + n
    BY <1>4, <1>7
  <2>2. QED BY <1>5, <2>1
<1>10. t = Week * k + CronAt => d = e /\ m = n
  <2> SUFFICES ASSUME t = Week * k + CronAt PROVE d = e /\ m = n
    OBVIOUS
  <2>1. 1440 * d + m <= 1440 * e + n
    BY <1>4, <1>5, <1>7
  <2>2. d <= e /\ (d = e => m <= n)
    BY <1>5, <2>1
  <2>3. d = e
    BY <1>5, <1>8, <2>2
  <2>4. QED BY <1>5, <1>8, <2>2, <2>3
<1>11. Day(t) = d /\ Day(CronAt) = c /\ TimeOfDay(t) = m /\ TimeOfDay(CronAt) = n
  BY <1>2, <1>3 DEF Day, TimeOfDay
<1>12. QED BY <1>4, <1>5, <1>6, <1>8, <1>9, <1>10, <1>11

LEMMA CronDueAt ==
  ASSUME NEW t \in Nat, NEW k \in Int, Week * k + CronAt <= t, t < Week * (k + 1) + CronAt
  PROVE  t % (7 * 1440) = CronAt <=> t = Week * k + CronAt
<1>1. CronAt \in 0..10079
  BY CronAssumption
<1>2. PICK w, m : w = (t \div 10080) /\ m = (t % 10080)
  OBVIOUS
<1>3. w \in Int /\ m \in 0..10079 /\ t = 10080 * w + m
  BY <1>2, WeekAndMinute
<1>4. 7 * 1440 = 10080 /\ Week = 10080
  BY DEF Week
<1>5. ASSUME t = Week * k + CronAt PROVE m = CronAt
  <2>1. 10080 * k + CronAt = 10080 * w + m
    BY <1>3, <1>4, <1>5
  <2>2. w \in Int /\ m \in 0..10079
    BY <1>3
  <2>3. 10080 * k + CronAt <= 10080 * w + m /\ 10080 * w + m <= 10080 * k + CronAt
    BY <1>1, <2>1, <2>2
  <2>4. k <= w /\ (k = w => CronAt <= m)
    BY <1>1, <2>2, <2>3
  <2>5. w <= k /\ (k = w => m <= CronAt)
    BY <1>1, <2>2, <2>3
  <2>6. QED BY <1>1, <2>2, <2>4, <2>5
<1>6. ASSUME m = CronAt PROVE t = Week * k + CronAt
  <2>1. 10080 * k <= 10080 * w /\ 10080 * w < 10080 * (k + 1)
    BY <1>1, <1>3, <1>4, <1>6
  <2>2. w = k
    BY <1>3, <2>1
  <2>3. QED BY <1>3, <1>4, <1>6, <2>2
<1>7. QED BY <1>2, <1>4, <1>5, <1>6

LEMMA WindowInit == Init => WindowInv
<1> SUFFICES ASSUME Init PROVE WindowInv
  OBVIOUS
<1>1. now \in Clock /\ now \in Nat
  BY SmallestNat, AvailabilityAssumption DEF Init
<1>2. CronAt \in 0..10079
  BY CronAssumption
<1>3. PICK k \in Int : Week * k + CronAt <= now /\ now < Week * (k + 1) + CronAt
  <2>1. PICK x \in Int : x = now - CronAt
    BY <1>1, <1>2
  <2>2. PICK w, m : w = (x \div 10080) /\ m = (x % 10080)
    OBVIOUS
  <2>3. w \in Int /\ m \in 0..10079 /\ x = 10080 * w + m
    BY <2>2, WeekAndMinute
  <2>4. Week * w + CronAt <= now /\ now < Week * (w + 1) + CronAt
    <3>1. now = x + CronAt /\ 0 <= m /\ m < 10080
      BY <1>1, <1>2, <2>1, <2>3
    <3>2. Week = 10080
      BY DEF Week
    <3>3. 10080 * w + CronAt <= now /\ now < 10080 * w + 10080 + CronAt
      BY <1>2, <2>3, <3>1
    <3>4. QED BY <1>2, <2>3, <3>2, <3>3
  <2>5. QED BY <2>3, <2>4
<1>4. 7 * k + Day(CronAt) <= Day(now) /\ Day(now) \in Int /\ Day(CronAt) \in Int
  BY <1>1, <1>3, DayOfWeek
<1>5. horizon = Day(now) + DaysAhead /\ missed = 0
  BY DEF Init
<1>6. Day(now) \in Nat
  BY <1>1 DEF Day
<1>7. horizon >= DaysAhead + Day(CronAt) + 7 * (k - missed) - (IF CronDue THEN 7 ELSE 0)
  BY <1>4, <1>5, DaysAheadNat
<1>8. missed \in 0..MaxMissed /\ horizon \in Nat
  BY <1>5, <1>6, DaysAheadNat, AvailabilityAssumption
<1>9. QED BY <1>1, <1>3, <1>7, <1>8 DEF WindowInv, Lag

LEMMA WindowTick == WindowInv /\ Tick => WindowInv'
<1> SUFFICES ASSUME WindowInv, Tick PROVE WindowInv'
  OBVIOUS
<1> DEFINE later == {t \in Clock : t > now}
<1>1. now \in Nat /\ now \in Clock /\ Clock \subseteq Nat /\ missed \in Nat /\ horizon \in Nat
  BY AvailabilityAssumption DEF WindowInv
<1>2. now' \in Clock /\ now' \in Nat /\ now' > now /\ \A t \in Clock : t > now => now' <= t
  <2>1. later \subseteq Nat /\ later # {} /\ now' = Smallest(later)
    BY <1>1 DEF Tick
  <2>2. now' \in later /\ \A t \in later : now' <= t
    BY <2>1, SmallestNat
  <2>3. QED BY <1>1, <2>2
<1>3. PICK k \in Int : Lag(k)
  BY DEF WindowInv
<1>4. CronAt \in 0..10079
  BY CronAssumption
<1>5. CronDue <=> now = Week * k + CronAt
  BY <1>1, <1>3, CronDueAt DEF Lag, CronDue
<1>6. /\ Day(now) \in Int /\ Day(CronAt) \in Int
      /\ CronDue => Day(now) = 7 * k + Day(CronAt)
  BY <1>1, <1>3, <1>5, DayOfWeek DEF Lag
<1>7. horizon' = horizon /\ missed' \in 0..MaxMissed
  <2>1. missed' \in Nat
    BY <1>1 DEF Tick
  <2>2. QED BY <2>1, AvailabilityAssumption DEF Tick
<1>8. horizon >= DaysAhead + Day(CronAt) + 7 * (k - missed')
  <2>1. CASE CronDue
    <3>1. missed' = IF horizon < Day(now) + DaysAhead THEN missed + 1 ELSE missed
      BY <2>1 DEF Tick
    <3>2. horizon >= DaysAhead + Day(CronAt) + 7 * (k - missed) - 7
      BY <1>3, <2>1 DEF Lag
    <3>3. Day(now) = 7 * k + Day(CronAt)
      BY <1>6, <2>1
    <3>4. QED BY <1>1, <1>6, <3>1, <3>2, <3>3, DaysAheadNat
  <2>2. CASE ~CronDue
    <3>1. missed' = missed
      BY <2>2 DEF Tick
    <3>2. horizon >= DaysAhead + Day(CronAt) + 7 * (k - missed) - 0
      BY <1>3, <2>2 DEF Lag
    <3>3. QED BY <1>1, <1>6, <3>1, <3>2, DaysAheadNat
  <2>3. QED BY <2>1, <2>2
<1>9. CASE now' < Week * (k + 1) + CronAt
  <2>1. Week * k + CronAt <= now'
    BY <1>1, <1>2, <1>3, <1>4 DEF Lag, Week
  <2>2. horizon' >= DaysAhead + Day(CronAt) + 7 * (k - missed') - (IF CronDue' THEN 7 ELSE 0)
    BY <1>1, <1>6, <1>7, <1>8, DaysAheadNat
  <2>3. Lag(k)'
    BY <1>9, <2>1, <2>2 DEF Lag
  <2>4. QED BY <1>1, <1>2, <1>7, <2>3 DEF WindowInv
<1>10. CASE ~(now' < Week * (k + 1) + CronAt)
  <2>1. PICK due \in Int : due = Week * (k + 1) + CronAt
    BY <1>4 DEF Week
  <2>2. now < due /\ due <= now'
    BY <1>2, <1>3, <1>10, <2>1 DEF Lag
  <2>3. due % (7 * 1440) = CronAt
    <3>1. Week * (k + 1) + CronAt <= due /\ due < Week * ((k + 1) + 1) + CronAt /\ due \in Nat
      BY <1>1, <1>4, <2>1, <2>2 DEF Week
    <3>2. QED BY <2>1, <3>1, CronDueAt
  <2>4. due \in now..now'
    BY <1>1, <1>2, <2>1, <2>2
  <2>5. due \in Clock
    BY <1>1, <1>2, <2>3, <2>4, CronAssumption
  <2>6. now' = due
    BY <1>2, <2>1, <2>2, <2>5
  <2>7. CronDue'
    BY <2>3, <2>6 DEF CronDue
  <2>8. horizon' >= DaysAhead + Day(CronAt) + 7 * ((k + 1) - missed') - (IF CronDue' THEN 7 ELSE 0)
    BY <1>1, <1>6, <1>7, <1>8, <2>7, DaysAheadNat
  <2>9. Week * (k + 1) + CronAt <= now' /\ now' < Week * ((k + 1) + 1) + CronAt
    BY <1>4, <2>1, <2>6 DEF Week
  <2>10. Lag(k + 1)' /\ k + 1 \in Int
    BY <2>8, <2>9 DEF Lag
  <2>11. QED BY <1>1, <1>2, <1>7, <2>10 DEF WindowInv
<1>11. QED BY <1>9, <1>10

LEMMA WindowRun == WindowInv /\ GenerateSessions => WindowInv'
<1> SUFFICES ASSUME WindowInv, GenerateSessions PROVE WindowInv'
  OBVIOUS
<1>1. now \in Nat /\ now \in Clock /\ now' = now /\ missed' = 0 /\ horizon' = Day(now) + DaysAhead
  BY AvailabilityAssumption DEF WindowInv, GenerateSessions
<1>2. PICK k \in Int : Lag(k)
  BY DEF WindowInv
<1>3. 7 * k + Day(CronAt) <= Day(now) /\ Day(now) \in Int /\ Day(CronAt) \in Int
  BY <1>1, <1>2, DayOfWeek DEF Lag
<1>4. horizon' >= DaysAhead + Day(CronAt) + 7 * (k - missed') - (IF CronDue' THEN 7 ELSE 0)
  BY <1>1, <1>3, DaysAheadNat
<1>5. Lag(k)'
  BY <1>1, <1>2, <1>4 DEF Lag
<1>6. horizon' \in Nat /\ missed' \in 0..MaxMissed
  BY <1>1, DaysAheadNat, AvailabilityAssumption DEF Day
<1>7. QED BY <1>1, <1>5, <1>6 DEF WindowInv

LEMMA WindowInvariant == Spec => []WindowInv
<1>1. WindowInv /\ [Next]_vars => WindowInv'
  <2> SUFFICES ASSUME WindowInv, [Next]_vars PROVE WindowInv'
    OBVIOUS
  <2>1. CASE UNCHANGED <<now, horizon, missed>>
    BY <2>1 DEF WindowInv, Lag, CronDue
  <2>2. Next => Tick \/ GenerateSessions \/ UNCHANGED <<now, horizon, missed>>
    BY DEF Next, OpenManualPage, OpenApiFilter, OpenBookingPage, Show, Click, SubmitStudent,
           SubmitManual, ApiBook, SetStatus, EditSession
  <2>3. QED BY <2>1, <2>2, WindowTick, WindowRun DEF vars
<1>2. QED BY <1>1, WindowInit, PTL DEF Spec

(* With MaxMissed weekly runs missed in a row, slots still exist for every   *)
(* day open to students, at any time of any day.                             *)
THEOREM WindowAlwaysCovered == Spec => []WindowCovered
<1>1. WindowInv => WindowCovered
  <2> SUFFICES ASSUME WindowInv PROVE MaxBookingDate(now) <= horizon
    BY DEF WindowCovered
  <2>1. now \in Nat /\ missed \in Nat /\ missed <= MaxMissed /\ horizon \in Nat /\ MaxMissed \in Nat
    BY AvailabilityAssumption DEF WindowInv
  <2>2. PICK k \in Int : Lag(k)
    BY DEF WindowInv
  <2>3. /\ Day(now) \in Int /\ Day(CronAt) \in Int
        /\ \/ Day(now) <= 7 * k + Day(CronAt) + 6
           \/ Day(now) = 7 * k + Day(CronAt) + 7 /\ TimeOfDay(now) < TimeOfDay(CronAt)
        /\ now = Week * k + CronAt => Day(now) = 7 * k + Day(CronAt) /\ TimeOfDay(now) = TimeOfDay(CronAt)
    BY <2>1, <2>2, DayOfWeek DEF Lag
  <2>4. CronDue <=> now = Week * k + CronAt
    BY <2>1, <2>2, CronDueAt DEF Lag, CronDue
  <2>5. TimeOfDay(CronAt) < OpensAt /\ OpensAt \in Nat /\ TimeOfDay(CronAt) \in Nat
    BY CronAssumption, CalendarAssumption DEF TimeOfDay
  <2>6. horizon >= DaysAhead + Day(CronAt) + 7 * (k - missed) - (IF CronDue THEN 7 ELSE 0)
    BY <2>2 DEF Lag
  <2>7. CASE CronDue
    <3>1. TimeOfDay(now) < OpensAt
      BY <2>3, <2>4, <2>5, <2>7
    <3>2. MaxBookingDate(now) = Day(now) + HorizonDays
      BY <2>3, <2>4, <2>5, <2>7, <3>1, DaysAheadNat DEF MaxBookingDate
    <3>3. QED BY <2>1, <2>3, <2>4, <2>6, <2>7, <3>1, <3>2, DaysAheadNat
  <2>8. CASE ~CronDue
    <3>1. TimeOfDay(now) \in Nat /\ TimeOfDay(CronAt) \in Nat
      BY <2>1, CronAssumption DEF TimeOfDay
    <3>2. \/ Day(now) <= 7 * k + Day(CronAt) + 6 /\ MaxBookingDate(now) <= Day(now) + HorizonDays + 1
          \/ Day(now) = 7 * k + Day(CronAt) + 7 /\ MaxBookingDate(now) = Day(now) + HorizonDays
      BY <2>3, <2>5, <3>1, DaysAheadNat DEF MaxBookingDate
    <3>3. QED BY <2>1, <2>3, <2>6, <2>8, <3>2, DaysAheadNat DEF MaxBookingDate
  <2>9. QED BY <2>7, <2>8
<1>2. QED BY <1>1, WindowInvariant, PTL


-------------------------------------------------------------------------------
(* Levels of the filters                                                     *)

LEMMA SessionFacts ==
  ASSUME NEW s \in Session
  PROVE  /\ s \in Nat /\ StartsAt[s] \in Nat
         /\ Day(StartsAt[s]) \in Nat /\ TimeOfDay(StartsAt[s]) \in Nat
         /\ RoomOf[s] \in Room /\ RoomOf[s] \in Nat /\ CenterOf[RoomOf[s]] \in Nat
<1>1. StartsAt[s] \in Nat /\ RoomOf[s] \in Room
  BY TimetableAssumption
<1>2. s \in Nat /\ RoomOf[s] \in Nat /\ CenterOf[RoomOf[s]] \in Nat
  BY <1>1, TimetableAssumption, AvailabilityAssumption
<1>3. QED BY <1>1, <1>2 DEF Day, TimeOfDay

LEMMA LevelTypes ==
  ASSUME NEW S \in SUBSET Session
  PROVE  /\ DatesOf(S) \subseteq Nat /\ TimesOf(S) \subseteq Nat /\ CentersOf(S) \subseteq Nat
         /\ RoomsOf(S) \subseteq Room /\ PairsOf(S) \subseteq PairNumber
<1>1. DatesOf(S) \subseteq Nat /\ TimesOf(S) \subseteq Nat /\ CentersOf(S) \subseteq Nat
  BY SessionFacts DEF DatesOf, TimesOf, CentersOf
<1>2. RoomsOf(S) \subseteq Room
  BY SessionFacts DEF RoomsOf
<1>3. PairsOf(S) \subseteq PairNumber
  BY SessionFacts, InPair DEF PairsOf
<1>4. QED BY <1>1, <1>2, <1>3

(* The earliest of some sessions is one of them.                             *)
LEMMA EarliestIsOne ==
  ASSUME NEW S \in SUBSET Session, S # {}
  PROVE  Earliest(S) \subseteq S /\ Earliest(S) # {}
<1>1. PICK a \in S : \A t \in S : StartsAt[a] <= StartsAt[t]
  <2> DEFINE N == {StartsAt[t] : t \in S}
  <2>1. N \subseteq Nat /\ N # {}
    BY SessionFacts
  <2>2. PICK n \in N : \A m \in N : n <= m
    BY <2>1, LeastNat
  <2>3. QED BY <2>2
<1>2. PICK A : A = {t \in S : StartsAt[t] = StartsAt[a]}
  OBVIOUS
<1>3. A \subseteq S /\ A \subseteq Session /\ a \in A
  BY <1>2
<1>4. PICK b \in A : \A t \in A : CenterOf[RoomOf[b]] <= CenterOf[RoomOf[t]]
  <2> DEFINE N == {CenterOf[RoomOf[t]] : t \in A}
  <2>1. N \subseteq Nat /\ N # {}
    BY <1>3, SessionFacts
  <2>2. PICK n \in N : \A m \in N : n <= m
    BY <2>1, LeastNat
  <2>3. QED BY <2>2
<1>5. PICK B : B = {t \in A : CenterOf[RoomOf[t]] = CenterOf[RoomOf[b]]}
  OBVIOUS
<1>6. B \subseteq Session /\ b \in B
  BY <1>3, <1>5
<1>7. PICK c \in B : \A t \in B : RoomOf[c] <= RoomOf[t]
  <2> DEFINE N == {RoomOf[t] : t \in B}
  <2>1. N \subseteq Nat /\ N # {}
    BY <1>6, SessionFacts
  <2>2. PICK n \in N : \A m \in N : n <= m
    BY <2>1, LeastNat
  <2>3. QED BY <2>2
<1>8. PICK C : C = {t \in B : RoomOf[t] = RoomOf[c]}
  OBVIOUS
<1>9. C \subseteq Nat /\ c \in C
  BY <1>6, <1>8, SessionFacts
<1>10. PICK s \in C : \A t \in C : s <= t
  BY <1>9, LeastNat
<1>11. /\ s \in S /\ s \in Session /\ StartsAt[s] = StartsAt[a]
       /\ CenterOf[RoomOf[s]] = CenterOf[RoomOf[b]] /\ RoomOf[s] = RoomOf[c]
  BY <1>2, <1>5, <1>8, <1>3
<1>12. ASSUME NEW t \in S PROVE Earlier(s, t)
  <2>1. /\ StartsAt[s] \in Nat /\ CenterOf[RoomOf[s]] \in Nat /\ RoomOf[s] \in Nat
        /\ StartsAt[t] \in Nat /\ CenterOf[RoomOf[t]] \in Nat /\ RoomOf[t] \in Nat
    BY <1>11, SessionFacts
  <2>2. StartsAt[s] <= StartsAt[t]
    BY <1>1, <1>11
  <2>3. StartsAt[t] = StartsAt[s] => t \in A /\ CenterOf[RoomOf[s]] <= CenterOf[RoomOf[t]]
    BY <1>2, <1>4, <1>11
  <2>4. t \in A /\ CenterOf[RoomOf[t]] = CenterOf[RoomOf[s]] => t \in B /\ RoomOf[s] <= RoomOf[t]
    BY <1>5, <1>7, <1>11
  <2>5. t \in B /\ RoomOf[t] = RoomOf[s] => s <= t
    BY <1>8, <1>10, <1>11
  <2>6. QED BY <2>1, <2>2, <2>3, <2>4, <2>5 DEF Earlier
<1>13. s \in Earliest(S)
  BY <1>11, <1>12 DEF Earliest
<1>14. QED BY <1>13 DEF Earliest

(* Every offered date lies in a month that the calendar shows.               *)
LEMMA MonthFound ==
  ASSUME NEW d \in Int, MonthStart[1] <= d, d < MonthStart[Len(MonthStart)]
  PROVE  d \in MonthWeeks(MonthOf(d))
<1>1. PICK last : last = Len(MonthStart)
  OBVIOUS
<1>2. last \in Nat /\ DOMAIN MonthStart = 1..last /\ MonthStart \in [1..last -> Int]
  BY <1>1, MonthAssumption
<1>3. \A m, n \in 1..last : m < n => MonthStart[m] < MonthStart[n]
  BY <1>2, MonthAssumption
<1>4. d < MonthStart[last] /\ MonthStart[1] <= d
  BY <1>1
<1>5. last # 0
  BY <1>1, MonthAssumption
<1>6. PICK after \in 1..last : d < MonthStart[after] /\ \A n \in 1..last : d < MonthStart[n] => after <= n
  <2> DEFINE N == {n \in 1..last : d < MonthStart[n]}
  <2>1. N \subseteq Nat /\ N # {}
    BY <1>2, <1>4, <1>5
  <2>2. PICK n \in N : \A m \in N : n <= m
    BY <2>1, LeastNat
  <2>3. QED BY <2>2
<1>7. after # 1
  BY <1>2, <1>4, <1>5, <1>6
<1>8. PICK m \in 1..last : m = after - 1
  BY <1>2, <1>6, <1>7
<1>9. MonthStart[m] <= d /\ m + 1 \in DOMAIN MonthStart /\ d < MonthStart[m + 1]
  BY <1>2, <1>6, <1>8
<1>10. PICK k : k = MonthOf(d)
  OBVIOUS
<1>11. k \in 1..last /\ MonthStart[k] <= d /\ (k + 1 \in 1..last => d < MonthStart[k + 1])
  BY <1>2, <1>8, <1>9, <1>10 DEF MonthOf
<1>12. k + 1 \in 1..last
  <2> SUFFICES ASSUME k + 1 \notin 1..last PROVE FALSE
    OBVIOUS
  <2>1. k = last
    BY <1>2, <1>11
  <2>2. QED BY <1>2, <1>4, <1>5, <1>11, <2>1
<1>13. PICK first \in Int, next \in Int : first = MonthStart[k] /\ next = MonthStart[k + 1]
  BY <1>2, <1>11, <1>12
<1>14. first <= d /\ d <= next - 1
  BY <1>11, <1>12, <1>13
<1>15. MonthWeeks(k) = first - (first % 7)..(next - 1) + 6 - ((next - 1) % 7)
  BY <1>13 DEF MonthWeeks
<1>16. PICK p, q : p = (first % 7) /\ q = ((next - 1) % 7)
  OBVIOUS
<1>17. p \in 0..6 /\ q \in 0..6
  BY <1>16
<1>18. d \in first - p..(next - 1) + 6 - q
  BY <1>14, <1>17
<1>19. QED BY <1>10, <1>15, <1>16, <1>18

LEMMA EveryDateHasAButton ==
  ASSUME NEW S \in SUBSET Session
  PROVE  DayButtons(DatesOf(S)) = DatesOf(S)
<1>1. \A d \in DatesOf(S) : d \in MonthWeeks(MonthOf(d))
  <2> SUFFICES ASSUME NEW s \in S PROVE Day(StartsAt[s]) \in MonthWeeks(MonthOf(Day(StartsAt[s])))
    BY DEF DatesOf
  <2>1. Day(StartsAt[s]) \in Int
    BY SessionFacts
  <2>2. MonthStart[1] <= Day(StartsAt[s]) /\ Day(StartsAt[s]) < MonthStart[Len(MonthStart)]
    BY MonthAssumption
  <2>3. QED BY <2>1, <2>2, MonthFound
<1>2. QED BY <1>1 DEF DayButtons


-------------------------------------------------------------------------------
(* The lists, in every state                                                 *)

(* A student is shown exactly the slots create_booking would book for them,  *)
(* but for the two rules about the student's own history.                    *)
THEOREM ListedAreBookable == Spec => []ListedIffBookable
<1>1. WindowInv => ListedIffBookable
  <2> SUFFICES ASSUME WindowInv,
                      NEW st \in Student, NEW lw \in LabWork, NEW d \in Discipline
               PROVE  StudentSessions(st, lw) =
                        {s \in Session : LabWorkOf[s] = lw
                                         /\ StudentObjections(st, s, d) \subseteq StudentRules}
    BY DEF ListedIffBookable
  <2>1. now \in Nat
    BY AvailabilityAssumption DEF WindowInv
  <2>2. QED BY <2>1, ListedAgrees
<1>2. QED BY <1>1, WindowInvariant, PTL

(* Staff are shown exactly the slots create_booking(manual=True) admits, but *)
(* for those whose stand another lab work has taken.                         *)
THEOREM ManualListedAreAdmitted == Spec => []ManualListedIffAdmitted
<1>1. WindowInv => ManualListedIffAdmitted
  BY ManualAgrees DEF ManualListedIffAdmitted, WindowInv
<1>2. QED BY <1>1, WindowInvariant, PTL


-------------------------------------------------------------------------------
(* The page on screen                                                        *)

PageState ==
  [view : {"student", "manual", "api"}, user : Student \cup {None}, work : LabWork,
   level : Levels, date : Nat \cup {None}, time : Nat \cup {None}, offers : SUBSET Nat,
   fresh : BOOLEAN]

(* The sessions a page of the filter is about.                               *)
Listed(p) ==
  IF p.view = "student" THEN StudentSessions(p.user, p.work)
  ELSE IF p.view = "manual" THEN ManualSessions(p.work)
  ELSE BookableSessions(p.work)

(* How far each filter goes, and what has been chosen on the way.            *)
OnTheWay(p) ==
  /\ p.level # "confirm" => p.fresh
  /\ p.view = "student" => /\ p.level \in {"date", "pair", "confirm"}
                           /\ p.user \in Student
                           /\ \E d \in Discipline : <<p.work, d>> \in Curriculum[p.user]
  /\ p.view = "manual" => p.level \in {"date", "time", "room", "confirm"}
  /\ p.view = "api" => p.level \in {"date", "time", "training_center", "room"}
  /\ p.level # "date" => p.date \in Nat
  /\ p.level \in {"training_center", "room"} => p.time \in Nat

(* What a page offers: while nothing has changed, just what is in the lists. *)
Offering(p) ==
  LET onDay == ByDate(Listed(p), p.date)
      at == ByTime(onDay, p.time)
  IN /\ p.level = "date" => p.offers = DatesOf(Listed(p))
     /\ p.level = "pair" => p.offers = PairsOf(onDay)
     /\ p.level = "time" => p.offers = TimesOf(onDay)
     /\ p.level = "training_center" => p.offers = CentersOf(at)
     /\ p.level = "room" => p.offers \subseteq Room
     /\ p.level = "room" /\ p.view = "manual" => p.offers = RoomsOf(at)
     /\ p.level = "confirm" => p.offers \subseteq Session
     /\ p.level = "confirm" /\ p.view = "student" =>
          \A s \in p.offers : LabWorkOf[s] = p.work

PageOK(p) == p \in PageState /\ OnTheWay(p) /\ Offering(p)

LEMMA ListsOfSessions ==
  ASSUME NEW st, NEW lw
  PROVE  /\ StudentSessions(st, lw) \in SUBSET Session
         /\ BookableSessions(lw) \in SUBSET Session /\ ManualSessions(lw) \in SUBSET Session
         /\ \A s \in StudentSessions(st, lw) \cup BookableSessions(lw) \cup ManualSessions(lw) :
              PairOf(StartsAt[s]) # NoPair /\ LabWorkOf[s] = lw
BY DEF StudentSessions, BookableSessions, ManualSessions, IsPairTime

LEMMA SameLists ==
  ASSUME UNCHANGED <<now, status, bookings>>, NEW st, NEW lw
  PROVE  /\ StudentSessions(st, lw)' = StudentSessions(st, lw)
         /\ BookableSessions(lw)' = BookableSessions(lw)
         /\ ManualSessions(lw)' = ManualSessions(lw)
<1>1. \A S : Booked(S)' = Booked(S)
  BY DEF Booked
<1>2. \A s : AvailableSeats(s)' = AvailableSeats(s)
  BY <1>1 DEF AvailableSeats
<1>3. BookableSessions(lw)' = BookableSessions(lw)
  BY <1>2 DEF BookableSessions
<1>4. QED BY <1>3 DEF StudentSessions, ManualSessions

LEMMA SamePage ==
  ASSUME UNCHANGED <<now, status, bookings>>, NEW p, PageOK(p)
  PROVE  PageOK(p)'
<1>1. Listed(p)' = Listed(p)
  BY SameLists DEF Listed
<1>2. QED BY <1>1 DEF PageOK, PageState, OnTheWay, Offering

(* Each choice leaves something to choose from.                              *)
LEMMA DateLeads ==
  ASSUME NEW S \in SUBSET Session, NEW d \in DatesOf(S)
  PROVE  d \in Nat /\ ByDate(S, d) \in SUBSET S /\ ByDate(S, d) # {}
BY LevelTypes DEF DatesOf, ByDate

LEMMA TimeLeads ==
  ASSUME NEW S \in SUBSET Session, NEW time \in TimesOf(S)
  PROVE  time \in Nat /\ ByTime(S, time) \in SUBSET S /\ ByTime(S, time) # {}
BY LevelTypes DEF TimesOf, ByTime

LEMMA PairLeads ==
  ASSUME NEW S \in SUBSET Session, NEW n \in PairsOf(S)
  PROVE  n \in Nat /\ ByPair(S, n) \in SUBSET S /\ ByPair(S, n) # {}
<1>1. n \in Nat
  BY LevelTypes, PairNumbers
<1>2. QED BY <1>1 DEF PairsOf, ByPair

LEMMA CenterLeads ==
  ASSUME NEW S \in SUBSET Session, NEW c \in CentersOf(S)
  PROVE  c \in Nat /\ ByCenter(S, c) \in SUBSET S /\ ByCenter(S, c) # {}
BY LevelTypes DEF CentersOf, ByCenter

LEMMA SomethingLeft ==
  ASSUME NEW S \in SUBSET Session, S # {}
  PROVE  /\ TimesOf(S) # {} /\ CentersOf(S) # {} /\ RoomsOf(S) # {}
         /\ (\A s \in S : PairOf(StartsAt[s]) # NoPair) => PairsOf(S) # {}
BY DEF TimesOf, CentersOf, RoomsOf, PairsOf

(* The first pages.                                                          *)
LEMMA StudentDatesOK ==
  ASSUME NEW st \in Student, NEW lw \in LabWork, NEW d \in Discipline, <<lw, d>> \in Curriculum[st]
  PROVE  PageOK(StudentDates(st, lw))
<1>1. PICK q : q = StudentDates(st, lw)
  OBVIOUS
<1>2. PICK offers \in SUBSET Nat : offers = DatesOf(StudentSessions(st, lw))
  BY ListsOfSessions, LevelTypes
<1>3. q = [view |-> "student", user |-> st, work |-> lw, level |-> "date", date |-> None,
           time |-> None, offers |-> offers, fresh |-> TRUE]
  BY <1>1, <1>2 DEF StudentDates, Page
<1>4. q \in PageState /\ OnTheWay(q)
  BY <1>3 DEF PageState, OnTheWay, Levels
<1>5. Offering(q)
  BY <1>2, <1>3 DEF Offering, Listed
<1>6. QED BY <1>1, <1>4, <1>5 DEF PageOK

LEMMA FilterDatesOK ==
  ASSUME NEW view \in {"manual", "api"}, NEW lw \in LabWork,
         NEW S, S = (IF view = "manual" THEN ManualSessions(lw) ELSE BookableSessions(lw))
  PROVE  PageOK(FilterOptions(view, S, lw, None, None, None))
<1>1. PICK q : q = FilterOptions(view, S, lw, None, None, None)
  OBVIOUS
<1>2. PICK offers \in SUBSET Nat : offers = DatesOf(S)
  BY ListsOfSessions, LevelTypes
<1>3. q = [view |-> view, user |-> None, work |-> lw, level |-> "date", date |-> None,
           time |-> None, offers |-> offers, fresh |-> TRUE]
  BY <1>1, <1>2 DEF FilterOptions, Page
<1>4. q \in PageState /\ OnTheWay(q)
  BY <1>3 DEF PageState, OnTheWay, Levels
<1>5. Offering(q)
  BY <1>2, <1>3 DEF Offering, Listed
<1>6. QED BY <1>1, <1>4, <1>5 DEF PageOK


(* The next page, in each of the three views.                                *)
LEMMA FollowStudentOK ==
  ASSUME PageOK(page), page.view = "student", ~LastLevel, NEW offer \in page.offers
  PROVE  PageOK(FollowStudent(offer)) /\ FollowStudent(offer).offers # {}
<1>1. PICK st, lw, day : st = page.user /\ lw = page.work /\ day = page.date
  OBVIOUS
<1>2. /\ st \in Student /\ lw \in LabWork /\ page.level \in {"date", "pair"}
      /\ \E d \in Discipline : <<lw, d>> \in Curriculum[st]
      /\ page.level = "pair" => day \in Nat
  BY <1>1 DEF PageOK, PageState, OnTheWay, LastLevel
<1>3. PICK S \in SUBSET Session : S = StudentSessions(st, lw)
  BY ListsOfSessions
<1>4. \A s \in S : PairOf(StartsAt[s]) # NoPair /\ LabWorkOf[s] = lw
  BY <1>3, ListsOfSessions
<1>5. Listed(page) = S
  BY <1>1, <1>3 DEF Listed
<1>6. CASE page.level = "date"
  <2>1. offer \in DatesOf(S)
    BY <1>5, <1>6 DEF PageOK, Offering
  <2>2. PICK T \in SUBSET Session : T = ByDate(S, offer)
    BY <2>1, DateLeads
  <2>3. T # {} /\ T \subseteq S /\ offer \in Nat
    BY <2>1, <2>2, DateLeads
  <2>4. PairsOf(T) # {}
    BY <1>4, <2>3, SomethingLeft
  <2>5. PICK offers \in SUBSET Nat : offers = PairsOf(T)
    BY LevelTypes, PairNumbers
  <2>6. PICK q : q = FollowStudent(offer)
    OBVIOUS
  <2>7. q = [view |-> "student", user |-> st, work |-> lw, level |-> "pair", date |-> offer,
             time |-> None, offers |-> offers, fresh |-> TRUE]
    BY <1>1, <1>3, <1>6, <2>2, <2>5, <2>6 DEF FollowStudent, StudentPairs, Page
  <2>8. q \in PageState /\ OnTheWay(q)
    BY <1>2, <2>3, <2>7 DEF PageState, OnTheWay, Levels
  <2>9. Offering(q)
    BY <1>3, <2>2, <2>5, <2>7 DEF Offering, Listed
  <2>10. q.offers # {}
    BY <2>4, <2>5, <2>7
  <2>11. QED BY <2>6, <2>8, <2>9, <2>10 DEF PageOK
<1>7. CASE page.level = "pair"
  <2>1. PICK T : T = ByDate(S, day)
    OBVIOUS
  <2>2. T \subseteq S /\ T \in SUBSET Session
    BY <2>1 DEF ByDate
  <2>3. offer \in PairsOf(T)
    BY <1>1, <1>5, <1>7, <2>1 DEF PageOK, Offering
  <2>4. offer \in Nat /\ ByPair(T, offer) \in SUBSET T /\ ByPair(T, offer) # {}
    BY <2>2, <2>3, PairLeads
  <2>5. Earliest(ByPair(T, offer)) \subseteq ByPair(T, offer) /\ Earliest(ByPair(T, offer)) # {}
    BY <2>2, <2>4, EarliestIsOne
  <2>6. PICK offers : offers = Earliest(ByPair(T, offer))
    OBVIOUS
  <2>7. offers \subseteq S /\ offers \in SUBSET Nat /\ offers # {}
    BY <2>2, <2>4, <2>5, <2>6, SessionFacts
  <2>8. PICK q : q = FollowStudent(offer)
    OBVIOUS
  <2>9. q = [view |-> "student", user |-> st, work |-> lw, level |-> "confirm", date |-> day,
             time |-> offer, offers |-> offers, fresh |-> TRUE]
    BY <1>1, <1>3, <1>7, <2>1, <2>6, <2>8 DEF FollowStudent, StudentConfirm, Page
  <2>10. q \in PageState /\ OnTheWay(q)
    BY <1>2, <1>7, <2>4, <2>7, <2>9 DEF PageState, OnTheWay, Levels
  <2>11. Offering(q)
    BY <1>4, <2>7, <2>9 DEF Offering
  <2>12. QED BY <2>7, <2>8, <2>9, <2>10, <2>11 DEF PageOK
<1>8. QED BY <1>2, <1>6, <1>7

LEMMA FollowManualOK ==
  ASSUME PageOK(page), page.view = "manual", ~LastLevel, NEW offer \in page.offers
  PROVE  PageOK(FollowManual(offer)) /\ FollowManual(offer).offers # {}
<1>1. PICK lw, day, time : lw = page.work /\ day = page.date /\ time = page.time
  OBVIOUS
<1>2. /\ lw \in LabWork /\ page.level \in {"date", "time", "room"}
      /\ page.level # "date" => day \in Nat
      /\ page.level = "room" => time \in Nat
  BY <1>1 DEF PageOK, PageState, OnTheWay, LastLevel
<1>3. PICK S \in SUBSET Session : S = ManualSessions(lw)
  BY ListsOfSessions
<1>4. Listed(page) = S
  BY <1>1, <1>3 DEF Listed
<1>5. Session \subseteq Nat /\ Room \subseteq Nat /\ None \notin Nat /\ IsFiniteSet(Session)
  BY TimetableAssumption, AvailabilityAssumption
<1>6. PICK q : q = FollowManual(offer)
  OBVIOUS
<1>7. CASE page.level = "date"
  <2>1. offer \in DatesOf(S)
    BY <1>4, <1>7 DEF PageOK, Offering
  <2>2. PICK T \in SUBSET Session : T = ByDate(S, offer)
    BY <2>1, DateLeads
  <2>3. T # {} /\ offer \in Nat
    BY <2>1, <2>2, DateLeads
  <2>4. PICK offers \in SUBSET Nat : offers = TimesOf(T)
    BY LevelTypes
  <2>5. offers # {}
    BY <2>3, <2>4, SomethingLeft
  <2>6. q = [view |-> "manual", user |-> None, work |-> lw, level |-> "time", date |-> offer,
             time |-> None, offers |-> offers, fresh |-> TRUE]
    BY <1>1, <1>3, <1>5, <1>6, <1>7, <2>2, <2>3, <2>4 DEF FollowManual, FilterOptions, Page
  <2>7. q \in PageState /\ OnTheWay(q)
    BY <1>2, <2>3, <2>6 DEF PageState, OnTheWay, Levels
  <2>8. Offering(q)
    BY <1>3, <2>2, <2>4, <2>6 DEF Offering, Listed
  <2>9. QED BY <1>6, <2>5, <2>6, <2>7, <2>8 DEF PageOK
<1>8. CASE page.level = "time"
  <2>1. PICK T : T = ByDate(S, day)
    OBVIOUS
  <2>2. T \in SUBSET Session
    BY <2>1 DEF ByDate
  <2>3. offer \in TimesOf(T)
    BY <1>1, <1>4, <1>8, <2>1 DEF PageOK, Offering
  <2>4. PICK at \in SUBSET Session : at = ByTime(T, offer)
    BY <2>2, <2>3, TimeLeads
  <2>5. at # {} /\ offer \in Nat
    BY <2>2, <2>3, <2>4, TimeLeads
  <2>6. Cardinality(at) \in Nat /\ Cardinality(at) # 0
    BY <1>5, <2>5, FS_Subset, FS_CardinalityType, FS_EmptySet
  <2>7. CASE Cardinality(at) = 1
    <3>1. q = [view |-> "manual", user |-> None, work |-> lw, level |-> "confirm", date |-> day,
               time |-> offer, offers |-> at, fresh |-> TRUE]
      BY <1>1, <1>3, <1>6, <1>8, <2>1, <2>4, <2>7 DEF FollowManual, ManualTime, Page
    <3>2. q \in PageState /\ OnTheWay(q)
      BY <1>2, <1>5, <1>8, <2>5, <3>1 DEF PageState, OnTheWay, Levels
    <3>3. Offering(q)
      BY <3>1 DEF Offering
    <3>4. QED BY <1>6, <2>5, <3>1, <3>2, <3>3 DEF PageOK
  <2>8. CASE Cardinality(at) > 1
    <3>1. PICK offers \in SUBSET Room : offers = RoomsOf(at)
      BY LevelTypes
    <3>2. offers # {}
      BY <2>5, <3>1, SomethingLeft
    <3>3. q = [view |-> "manual", user |-> None, work |-> lw, level |-> "room", date |-> day,
               time |-> offer, offers |-> offers, fresh |-> TRUE]
      <4>1. Cardinality(at) # 1
        BY <2>6, <2>8
      <4>2. QED BY <1>1, <1>3, <1>6, <1>8, <2>1, <2>4, <2>8, <3>1, <4>1
                DEF FollowManual, ManualTime, Page
    <3>4. q \in PageState /\ OnTheWay(q)
      BY <1>2, <1>5, <1>8, <2>5, <3>3 DEF PageState, OnTheWay, Levels
    <3>5. Offering(q)
      BY <1>3, <2>1, <2>4, <3>1, <3>3 DEF Offering, Listed
    <3>6. QED BY <1>6, <3>2, <3>3, <3>4, <3>5 DEF PageOK
  <2>9. QED BY <2>6, <2>7, <2>8
<1>9. CASE page.level = "room"
  <2>1. PICK at : at = ByTime(ByDate(S, day), time)
    OBVIOUS
  <2>2. at \in SUBSET Session
    BY <2>1 DEF ByTime, ByDate
  <2>3. offer \in RoomsOf(at)
    BY <1>1, <1>4, <1>9, <2>1 DEF PageOK, Offering
  <2>4. PICK offers : offers = {s \in at : RoomOf[s] = offer}
    OBVIOUS
  <2>5. offers # {} /\ offers \in SUBSET Session
    BY <2>2, <2>3, <2>4 DEF RoomsOf
  <2>6. q = [view |-> "manual", user |-> None, work |-> lw, level |-> "confirm", date |-> day,
             time |-> time, offers |-> offers, fresh |-> TRUE]
    BY <1>1, <1>3, <1>6, <1>9, <2>1, <2>4 DEF FollowManual, ManualRoom, Page
  <2>7. q \in PageState /\ OnTheWay(q)
    BY <1>2, <1>5, <1>9, <2>5, <2>6 DEF PageState, OnTheWay, Levels
  <2>8. Offering(q)
    BY <2>5, <2>6 DEF Offering
  <2>9. QED BY <1>6, <2>5, <2>6, <2>7, <2>8 DEF PageOK
<1>10. QED BY <1>2, <1>7, <1>8, <1>9

LEMMA FollowApiOK ==
  ASSUME PageOK(page), page.view = "api", ~LastLevel, NEW offer \in page.offers
  PROVE  PageOK(FollowApi(offer)) /\ FollowApi(offer).offers # {}
<1>1. PICK lw, day, time : lw = page.work /\ day = page.date /\ time = page.time
  OBVIOUS
<1>2. /\ lw \in LabWork /\ page.level \in {"date", "time", "training_center"}
      /\ page.level # "date" => day \in Nat
      /\ page.level = "training_center" => time \in Nat
  BY <1>1 DEF PageOK, PageState, OnTheWay, LastLevel
<1>3. PICK S \in SUBSET Session : S = BookableSessions(lw)
  BY ListsOfSessions
<1>4. Listed(page) = S
  BY <1>1, <1>3 DEF Listed
<1>5. None \notin Nat /\ Room \subseteq Nat
  BY AvailabilityAssumption
<1>6. PICK q : q = FollowApi(offer)
  OBVIOUS
<1>7. CASE page.level = "date"
  <2>1. offer \in DatesOf(S)
    BY <1>4, <1>7 DEF PageOK, Offering
  <2>2. PICK T \in SUBSET Session : T = ByDate(S, offer)
    BY <2>1, DateLeads
  <2>3. T # {} /\ offer \in Nat
    BY <2>1, <2>2, DateLeads
  <2>4. PICK offers \in SUBSET Nat : offers = TimesOf(T)
    BY LevelTypes
  <2>5. offers # {}
    BY <2>3, <2>4, SomethingLeft
  <2>6. q = [view |-> "api", user |-> None, work |-> lw, level |-> "time", date |-> offer,
             time |-> None, offers |-> offers, fresh |-> TRUE]
    BY <1>1, <1>3, <1>5, <1>6, <1>7, <2>2, <2>3, <2>4 DEF FollowApi, FilterOptions, Page
  <2>7. q \in PageState /\ OnTheWay(q)
    BY <1>2, <2>3, <2>6 DEF PageState, OnTheWay, Levels
  <2>8. Offering(q)
    BY <1>3, <2>2, <2>4, <2>6 DEF Offering, Listed
  <2>9. QED BY <1>6, <2>5, <2>6, <2>7, <2>8 DEF PageOK
<1>8. CASE page.level = "time"
  <2>1. PICK T : T = ByDate(S, day)
    OBVIOUS
  <2>2. T \in SUBSET Session
    BY <2>1 DEF ByDate
  <2>3. offer \in TimesOf(T)
    BY <1>1, <1>4, <1>8, <2>1 DEF PageOK, Offering
  <2>4. PICK at \in SUBSET Session : at = ByTime(T, offer)
    BY <2>2, <2>3, TimeLeads
  <2>5. at # {} /\ offer \in Nat
    BY <2>2, <2>3, <2>4, TimeLeads
  <2>6. PICK offers \in SUBSET Nat : offers = CentersOf(at)
    BY LevelTypes
  <2>7. offers # {}
    BY <2>5, <2>6, SomethingLeft
  <2>8. q = [view |-> "api", user |-> None, work |-> lw, level |-> "training_center",
             date |-> day, time |-> offer, offers |-> offers, fresh |-> TRUE]
    BY <1>1, <1>2, <1>3, <1>5, <1>6, <1>8, <2>1, <2>4, <2>5, <2>6
    DEF FollowApi, FilterOptions, Page
  <2>9. q \in PageState /\ OnTheWay(q)
    BY <1>2, <1>8, <2>5, <2>8 DEF PageState, OnTheWay, Levels
  <2>10. Offering(q)
    BY <1>3, <2>1, <2>4, <2>6, <2>8 DEF Offering, Listed
  <2>11. QED BY <1>6, <2>7, <2>8, <2>9, <2>10 DEF PageOK
<1>9. CASE page.level = "training_center"
  <2>1. PICK at : at = ByTime(ByDate(S, day), time)
    OBVIOUS
  <2>2. at \in SUBSET Session
    BY <2>1 DEF ByTime, ByDate
  <2>3. offer \in CentersOf(at)
    BY <1>1, <1>4, <1>9, <2>1 DEF PageOK, Offering
  <2>4. offer \in Nat /\ ByCenter(at, offer) # {} /\ ByCenter(at, offer) \in SUBSET Session
    BY <2>2, <2>3, CenterLeads
  <2>5. PICK offers \in SUBSET Room : offers = RoomsOf(ByCenter(at, offer))
    BY <2>4, LevelTypes
  <2>6. offers # {}
    BY <2>4, <2>5, SomethingLeft
  <2>7. q = [view |-> "api", user |-> None, work |-> lw, level |-> "room", date |-> day,
             time |-> time, offers |-> offers, fresh |-> TRUE]
    BY <1>1, <1>2, <1>3, <1>5, <1>6, <1>9, <2>1, <2>4, <2>5 DEF FollowApi, FilterOptions, Page
  <2>8. q \in PageState /\ OnTheWay(q)
    BY <1>2, <1>5, <1>9, <2>7 DEF PageState, OnTheWay, Levels
  <2>9. Offering(q)
    BY <2>7 DEF Offering
  <2>10. QED BY <1>6, <2>6, <2>7, <2>8, <2>9 DEF PageOK
<1>10. QED BY <1>2, <1>7, <1>8, <1>9

LEMMA FollowOK ==
  ASSUME PageOK(page), ~LastLevel, NEW offer \in page.offers
  PROVE  PageOK(FollowOffer(offer)) /\ FollowOffer(offer).offers # {}
<1>1. page.view \in {"student", "manual", "api"}
  BY DEF PageOK, PageState
<1>2. QED BY <1>1, FollowStudentOK, FollowManualOK, FollowApiOK DEF FollowOffer

(* While nothing has changed, whatever a page offers can be clicked.         *)
LEMMA AllClickable ==
  ASSUME PageOK(page), page.fresh
  PROVE  page.offers = Clickable
<1>1. page.level = "date" => page.offers = DatesOf(Listed(page))
  BY DEF PageOK, Offering
<1>2. Listed(page) \in SUBSET Session
  BY ListsOfSessions DEF Listed
<1>3. QED BY <1>1, <1>2, EveryDateHasAButton DEF Clickable


PageInv ==
  /\ status \in [Session -> {"OPEN"} \cup Edits]
  /\ bookings \in Tables
  /\ calls \in 0..MaxCalls
  /\ page = NoPage \/ PageOK(page)

LEMMA PageInit == Init => PageInv
BY AvailabilityAssumption DEF Init, PageInv, Tables

LEMMA FirstPageShown ==
  ASSUME PageInv, NEW p, PageOK(p), Show(p)
  PROVE  PageInv'
<1>1. UNCHANGED <<now, status, bookings, calls>> /\ page' = p
  BY DEF Show
<1>2. PageOK(p)'
  BY <1>1, SamePage
<1>3. PICK q : q = page' /\ q = p
  BY <1>1
<1>4. PageOK(q)'
  BY <1>2, <1>3
<1>5. PageOK(page)'
  BY <1>3, <1>4
<1>6. QED BY <1>1, <1>5 DEF PageInv

LEMMA PageOvertaken ==
  ASSUME PageInv, page' = Stale \/ page' = NoPage
  PROVE  page' = NoPage \/ PageOK(page)'
<1> SUFFICES ASSUME page' # NoPage PROVE PageOK(page)'
  OBVIOUS
<1>1. page.view # "none" /\ page.level = "confirm" /\ page' = [page EXCEPT !.fresh = FALSE]
  BY DEF Stale
<1>2. PageOK(page)
  BY <1>1 DEF PageInv, NoPage
<1>3. PICK p : p = page
  OBVIOUS
<1>4. PICK q : q = page'
  OBVIOUS
<1>5. p \in PageState /\ q = [p EXCEPT !.fresh = FALSE] /\ p.level = "confirm"
  BY <1>1, <1>2, <1>3, <1>4 DEF PageOK
<1>6. /\ q \in PageState /\ q.level = "confirm" /\ q.view = p.view /\ q.user = p.user
      /\ q.work = p.work /\ q.date = p.date /\ q.time = p.time /\ q.offers = p.offers
  BY <1>5 DEF PageState
<1>7. OnTheWay(p) /\ Offering(p)
  BY <1>2, <1>3 DEF PageOK
<1>8. OnTheWay(q)
  BY <1>5, <1>6, <1>7 DEF OnTheWay
<1>9. q.offers \subseteq Session /\ (q.view = "student" => \A s \in q.offers : LabWorkOf[s] = q.work)
  BY <1>5, <1>6, <1>7 DEF Offering
<1>10. Offering(q)'
  BY <1>6, <1>9 DEF Offering
<1>11. PageOK(q)'
  BY <1>6, <1>8, <1>10 DEF PageOK, OnTheWay, PageState
<1>12. QED BY <1>4, <1>11

(* A booking that is made gets a row of its own.                             *)
LEMMA InsertOK ==
  ASSUME bookings \in Tables, NEW st \in Student, NEW s \in Session, NEW d \in Discipline,
         NEW registration \in Registration, Insert(st, s, d, registration)
  PROVE  bookings' \in Tables
<1>1. NewRow(st, s, d, registration) \in BookingRow
  BY DEF NewRow, BookingRow, BookingStatus
<1>2. QED BY <1>1 DEF Insert, Tables

LEMMA ChosenDiscipline ==
  ASSUME NEW st \in Student, NEW s \in Session, Disciplines(st, s) # {}
  PROVE  DefaultDiscipline(st, s) \in Discipline
BY DEF DefaultDiscipline, Disciplines

LEMMA PageStep == PageInv /\ [Next]_vars => PageInv'
<1> SUFFICES ASSUME PageInv, [Next]_vars PROVE PageInv'
  OBVIOUS
<1>1. CASE UNCHANGED vars
  <2>1. PICK p : p = page /\ page' = p
    BY <1>1 DEF vars
  <2>2. CASE p = NoPage
    BY <1>1, <2>1, <2>2 DEF PageInv, vars
  <2>3. CASE PageOK(p)
    <3>1. PageOK(p)'
      BY <1>1, <2>3, SamePage DEF vars
    <3>2. PageOK(page)'
      BY <2>1, <3>1
    <3>3. QED BY <1>1, <3>2 DEF PageInv, vars
  <2>4. QED BY <2>1, <2>2, <2>3 DEF PageInv
<1>2. CASE Tick
  <2>1. page' = Stale /\ UNCHANGED <<status, bookings, calls>>
    BY <1>2 DEF Tick
  <2>2. page' = NoPage \/ PageOK(page)'
    BY <2>1, PageOvertaken
  <2>3. QED BY <2>1, <2>2 DEF PageInv
<1>3. CASE GenerateSessions
  <2>1. UNCHANGED <<now, status, bookings, page, calls>>
    BY <1>3 DEF GenerateSessions
  <2>2. PICK p : p = page /\ page' = p
    BY <2>1
  <2>3. CASE p = NoPage
    BY <2>1, <2>2, <2>3 DEF PageInv
  <2>4. CASE PageOK(p)
    <3>1. PageOK(p)'
      BY <2>1, <2>4, SamePage
    <3>2. PageOK(page)'
      BY <2>2, <3>1
    <3>3. QED BY <2>1, <3>2 DEF PageInv
  <2>5. QED BY <2>2, <2>3, <2>4 DEF PageInv
<1>4. ASSUME NEW lw \in Shown, OpenManualPage(lw) PROVE PageInv'
  BY <1>4, FilterDatesOK, FirstPageShown, AvailabilityAssumption DEF OpenManualPage
<1>5. ASSUME NEW lw \in Shown, OpenApiFilter(lw) PROVE PageInv'
  BY <1>5, FilterDatesOK, FirstPageShown, AvailabilityAssumption DEF OpenApiFilter
<1>6. ASSUME NEW lw \in Shown, NEW st \in Browsing, OpenBookingPage(st, lw) PROVE PageInv'
  BY <1>6, StudentDatesOK, FirstPageShown, AvailabilityAssumption DEF OpenBookingPage
<1>7. ASSUME NEW offer, Click(offer) PROVE PageInv'
  <2>1. page.view # "none" /\ ~LastLevel /\ offer \in Clickable /\ Show(FollowOffer(offer))
    BY <1>7 DEF Click
  <2>2. PageOK(page)
    BY <2>1 DEF PageInv, NoPage
  <2>3. page.fresh
    BY <2>1, <2>2 DEF PageOK, OnTheWay, LastLevel
  <2>4. offer \in page.offers
    BY <2>1, <2>2, <2>3, AllClickable
  <2>5. PageOK(FollowOffer(offer))
    BY <2>1, <2>2, <2>4, FollowOK
  <2>6. QED BY <2>1, <2>5, FirstPageShown
<1>8. ASSUME NEW st \in Browsing, NEW s \in Session, SubmitStudent(st, s) PROVE PageInv'
  <2>1. st \in Student
    BY AvailabilityAssumption
  <2>2. PageOK(page) /\ page.view = "student" /\ page.level = "confirm" /\ page.user = st
        /\ s \in page.offers
    BY <1>8 DEF SubmitStudent, PageInv, NoPage
  <2>3. LabWorkOf[s] = page.work /\ \E d \in Discipline : <<page.work, d>> \in Curriculum[st]
    BY <2>2 DEF PageOK, OnTheWay, Offering
  <2>4. DefaultDiscipline(st, s) \in Discipline
    BY <2>1, <2>3, ChosenDiscipline DEF Disciplines
  <2>5. /\ Insert(st, s, DefaultDiscipline(st, s), "AUTO") \/ UNCHANGED bookings
        /\ page' = NoPage /\ UNCHANGED status /\ Write
    BY <1>8 DEF SubmitStudent
  <2>6. bookings' \in Tables
    BY <2>1, <2>4, <2>5, InsertOK DEF PageInv, Registration
  <2>7. QED BY <2>5, <2>6, AvailabilityAssumption DEF PageInv, Write
<1>9. ASSUME NEW st \in Browsing, NEW s \in Session, SubmitManual(st, s) PROVE PageInv'
  <2>1. st \in Student
    BY AvailabilityAssumption
  <2>2. DefaultDiscipline(st, s) \in Discipline
    BY <1>9, <2>1, ChosenDiscipline DEF SubmitManual
  <2>3. /\ Insert(st, s, DefaultDiscipline(st, s), "MANUAL") \/ UNCHANGED bookings
        /\ page' = NoPage /\ UNCHANGED status /\ Write
    BY <1>9 DEF SubmitManual
  <2>4. bookings' \in Tables
    BY <2>1, <2>2, <2>3, InsertOK DEF PageInv, Registration
  <2>5. QED BY <2>3, <2>4, AvailabilityAssumption DEF PageInv, Write
<1>10. ASSUME NEW st \in Student \ Browsing, NEW s \in Session, ApiBook(st, s) PROVE PageInv'
  <2>1. PICK d \in Disciplines(st, s) : Insert(st, s, d, "AUTO")
    BY <1>10 DEF ApiBook
  <2>2. page' = Stale /\ UNCHANGED status /\ Write
    BY <1>10 DEF ApiBook
  <2>3. bookings' \in Tables
    BY <2>1, InsertOK DEF PageInv, Registration, Disciplines
  <2>4. page' = NoPage \/ PageOK(page)'
    BY <2>2, PageOvertaken
  <2>5. QED BY <2>2, <2>3, <2>4, AvailabilityAssumption DEF PageInv, Write
<1>11. ASSUME NEW b \in BookingId, NEW new \in Outcomes, SetStatus(b, new) PROVE PageInv'
  <2>1. /\ bookings' = [bookings EXCEPT ![b].status = new] /\ IsBooked(bookings, b)
        /\ page' = Stale /\ UNCHANGED status /\ Write
    BY <1>11 DEF SetStatus
  <2>2. bookings[b] \in BookingRow
    BY <2>1 DEF PageInv, Tables, IsBooked, Absent
  <2>3. [bookings[b] EXCEPT !.status = new] \in BookingRow
    BY <2>2, AvailabilityAssumption DEF BookingRow
  <2>4. bookings' \in Tables
    BY <2>1, <2>3 DEF PageInv, Tables
  <2>5. page' = NoPage \/ PageOK(page)'
    BY <2>1, PageOvertaken
  <2>6. QED BY <2>1, <2>4, <2>5, AvailabilityAssumption DEF PageInv, Write
<1>12. ASSUME NEW s \in Editable, NEW new \in Edits, EditSession(s, new) PROVE PageInv'
  <2>1. /\ status' = [status EXCEPT ![s] = new] /\ page' = Stale /\ UNCHANGED bookings /\ Write
    BY <1>12 DEF EditSession
  <2>2. status' \in [Session -> {"OPEN"} \cup Edits]
    BY <2>1 DEF PageInv
  <2>3. page' = NoPage \/ PageOK(page)'
    BY <2>1, PageOvertaken
  <2>4. QED BY <2>1, <2>2, <2>3, AvailabilityAssumption DEF PageInv, Write
<1>13. QED BY <1>1, <1>2, <1>3, <1>4, <1>5, <1>6, <1>7, <1>8, <1>9, <1>10, <1>11, <1>12 DEF Next

LEMMA PageInvariant == Spec => []PageInv
BY PageInit, PageStep, PTL DEF Spec

(* Every variable keeps its type; a page of the booking, manual or API       *)
(* filter only ever offers what belongs to its level.                        *)
THEOREM TypeCorrect == Spec => []TypeOK
<1>1. WindowInv /\ PageInv => TypeOK
  <2> SUFFICES ASSUME WindowInv, PageInv PROVE TypeOK
    OBVIOUS
  <2>1. ASSUME page.view # "none" PROVE PageOK(page)
    BY <2>1 DEF PageInv, NoPage
  <2>2. ASSUME PageOK(page)
        PROVE  /\ page.level \in Levels
               /\ page.level = "confirm" => page.offers \subseteq Session
               /\ page.level = "pair" => page.offers \subseteq PairNumber
               /\ page.level = "room" => page.offers \subseteq Room
               /\ page.level \in {"date", "time", "training_center"} => page.offers \subseteq Nat
    <3>1. page \in PageState /\ Offering(page)
      BY <2>2 DEF PageOK
    <3>2. page.level = "pair" => page.offers \subseteq PairNumber
      <4>1. ByDate(Listed(page), page.date) \in SUBSET Session
        BY ListsOfSessions DEF ByDate, Listed
      <4>2. QED BY <3>1, <4>1, LevelTypes DEF Offering
    <3>3. page.level \in Levels /\ page.offers \subseteq Nat
      BY <3>1 DEF PageState
    <3>4. QED BY <3>1, <3>2, <3>3 DEF Offering
  <2>3. QED BY <2>1, <2>2 DEF TypeOK, WindowInv, PageInv
<1>2. QED BY <1>1, WindowInvariant, PageInvariant, PTL

(* The cascading filters never lead to an empty page: while nothing has      *)
(* changed, every offer has a button and following it shows something.       *)
THEOREM NoDeadEnds == Spec => []OffersLeadOn
<1>1. PageInv => OffersLeadOn
  <2> SUFFICES ASSUME PageInv, page.fresh
               PROVE  /\ page.offers = Clickable
                      /\ ~LastLevel => \A offer \in page.offers : FollowOffer(offer).offers # {}
    BY DEF OffersLeadOn
  <2>1. PageOK(page)
    BY DEF PageInv, NoPage
  <2>2. QED BY <2>1, AllClickable, FollowOK
<1>2. QED BY <1>1, PageInvariant, PTL
================================================================================
