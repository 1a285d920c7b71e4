----------------------------- MODULE Availability -----------------------------
(*****************************************************************************)
(* What students and staff are shown as bookable, against what               *)
(* create_booking then accepts: the lists and seat counts of                 *)
(* session_availability.py, the cascading filters the web pages and the API  *)
(* build from them, and the checks of BookingService on the same table.      *)
(* Requests run one at a time here; BookingService interleaves them.         *)
(*****************************************************************************)
EXTENDS BookingRules, BookingCalendar, Integers, Sequences

CONSTANTS
  Clock,                   \* moments the clock visits, in minutes
  CenterOf,                \* training centre number of a room
  MonthStart,              \* first day of each month, in order
  WeeksAhead,              \* generate_sessions --weeks
  CronAt,                  \* when cron starts it, minutes into Monday
  Editable, Edits,         \* sessions staff edits, and the statuses the form sets
  Outcomes,                \* what becomes of bookings
  Browsing, Shown,         \* students who use the web pages (the others call the API), and for which works
  MaxCalls, MaxMissed      \* bounds: calls that write, weekly runs missed in a row

ASSUME AvailabilityAssumption ==
  /\ Clock \subseteq Nat /\ Clock # {} /\ Room \subseteq Nat /\ None \notin Nat
  /\ \A t \in Clock : Day(t) <= MaxDay
  /\ CenterOf \in [Room -> Nat]
  /\ Edits \subseteq {"DRAFT", "OPEN", "CLOSED", "CANCELLED"}
  /\ Outcomes \subseteq BookingStatus
  /\ Browsing \subseteq Student /\ Shown \subseteq LabWork /\ IsFiniteSet(Session)
  /\ {WeeksAhead, MaxCalls, MaxMissed} \subseteq Nat

(* The months follow each other and cover the timetable.                     *)
ASSUME MonthAssumption ==
  /\ MonthStart \in Seq(Int) /\ Len(MonthStart) > 0
  /\ \A m, n \in DOMAIN MonthStart : m < n => MonthStart[m] < MonthStart[n]
  /\ \A s \in Session : /\ MonthStart[1] <= Day(StartsAt[s])
                        /\ Day(StartsAt[s]) < MonthStart[Len(MonthStart)]

(* The clock stops whenever cron is due, before the day closes for the       *)
(* morrow; the slots of one run last while the runs after it are missed.     *)
ASSUME CronAssumption ==
  /\ CronAt \in 0..7 * 1440 - 1 /\ TimeOfDay(CronAt) < OpensAt
  /\ \A t, u \in Clock : \A due \in t..u : due % (7 * 1440) = CronAt => due \in Clock
  /\ 7 * WeeksAhead >= HorizonDays + 7 * (MaxMissed + 1)

VARIABLES
  now, status, bookings,
  page,        \* what the browser shows: the last partial it loaded
  horizon,     \* last day generate_sessions has written slots for
  missed,      \* weekly runs missed in a row
  calls        \* calls that wrote something (bound)
vars == <<now, status, bookings, page, horizon, missed, calls>>

-------------------------------------------------------------------------------
(* Seats                                                                     *)

Booked(S) == Cardinality(BookedIn(bookings, S))
Smallest(S) == CHOOSE n \in S : \A m \in S : n <= m
AtLeastZero(n) == IF n > 0 THEN n ELSE 0

(* Mutated form of AvailableSeats: the room's other slots are forgotten.     *)
AvailableSeatsOfSlot(s) ==
  IF StandBlocked(bookings, s) THEN 0
  ELSE AtLeastZero(Smallest(
         {Capacity[s] - Booked({s}),
          LabWorkCapacity[LabWorkOf[s]] - Booked(OverlappingSameLabWorkSessions(s))}))

(* session_available_seats.                                                  *)
AvailableSeats(s) ==
  LET room == IF Booked(OverlappingRoomSessions(s) \ {s}) = 0 THEN {}
              ELSE {RoomCapacity[RoomOf[s]] - Booked(OverlappingRoomSessions(s))}
  IN IF StandBlocked(bookings, s) THEN 0
     ELSE AtLeastZero(Smallest(room \cup
            {Capacity[s] - Booked({s}),
             LabWorkCapacity[LabWorkOf[s]] - Booked(OverlappingSameLabWorkSessions(s))}))

-------------------------------------------------------------------------------
(* Lists of sessions                                                         *)

BookableSessions(lw) ==
  {s \in Session :
     /\ LabWorkOf[s] = lw /\ status[s] = "OPEN"
     /\ StartsAt[s] > now
     /\ DayOpen(Day(StartsAt[s]), now)
     /\ Day(StartsAt[s]) \notin Holiday
     /\ Weekday(Day(StartsAt[s])) /\ IsPairTime(StartsAt[s])
     /\ AvailableSeats(s) > 0}

StudentSessions(st, lw) ==
  {s \in BookableSessions(lw) : ~StudentOverlapBooked(bookings, st, s)}

(* Mutated form of ManualSessions: a slot that has begun is not offered.     *)
FutureManualSessions(lw) ==
  {s \in Session :
     /\ LabWorkOf[s] = lw /\ status[s] = "OPEN" /\ StartsAt[s] > now
     /\ Day(StartsAt[s]) <= ManualMaxDate(now)
     /\ WorkingDay(Day(StartsAt[s])) /\ IsPairTime(StartsAt[s])}

(* staff_manual_sessions_qs, whose rows pass is_session_in_manual_booking_window. *)
ManualSessions(lw) ==
  {s \in Session :
     /\ LabWorkOf[s] = lw /\ status[s] = "OPEN" /\ EndsAt[s] > now
     /\ Day(StartsAt[s]) <= ManualMaxDate(now)
     /\ ManualTimeAllowed(StartsAt[s], EndsAt[s], now)
     /\ WorkingDay(Day(StartsAt[s])) /\ IsPairTime(StartsAt[s])}

-------------------------------------------------------------------------------
(* The checks of create_booking: what it objects to                          *)

(* _validate_booking_window; the holiday is looked up by the UTC date.       *)
StudentWindowObjections(s) ==
  {why \in {"day", "past", "weekend", "pair", "status", "holiday"} :
     \/ why = "day" /\ ~DayOpen(Day(StartsAt[s]), now)
     \/ why = "past" /\ StartsAt[s] <= now
     \/ why = "weekend" /\ ~Weekday(Day(StartsAt[s]))
     \/ why = "pair" /\ ~IsPairTime(StartsAt[s])
     \/ why = "status" /\ status[s] # "OPEN"
     \/ why = "holiday" /\ UtcDay(StartsAt[s]) \in Holiday}

(* _validate_manual_booking_window.                                          *)
ManualWindowObjections(s) ==
  {why \in {"past", "day", "weekend", "pair", "status", "holiday"} :
     \/ why = "past" /\ ~ManualTimeAllowed(StartsAt[s], EndsAt[s], now)
     \/ why = "day" /\ Day(StartsAt[s]) > ManualMaxDate(now)
     \/ why = "weekend" /\ ~Weekday(Day(StartsAt[s]))
     \/ why = "pair" /\ ~IsPairTime(StartsAt[s])
     \/ why = "status" /\ status[s] # "OPEN"
     \/ why = "holiday" /\ Day(StartsAt[s]) \in Holiday}

(* Rules about the student that no list of sessions knows.                   *)
StudentRules == {"active", "visited"}

StudentObjections(st, s, d) ==
  IF StudentWindowObjections(s) # {} THEN StudentWindowObjections(s)
  ELSE {why \in StudentRules \cup {"overlap", "full", "lab work", "room", "stand"} :
          \/ why = "active" /\ HasActiveInDiscipline(bookings, st, d)
          \/ why = "visited" /\ HasVisited(bookings, st, s)
          \/ why = "overlap" /\ StudentOverlapBooked(bookings, st, s)
          \/ why = "full" /\ SessionFull(bookings, s)
          \/ why = "lab work" /\ LabWorkCapacityWouldBeExceeded(bookings, s)
          \/ why = "room" /\ RoomCapacityWouldBeExceeded(bookings, s)
          \/ why = "stand" /\ StandBlocked(bookings, s)}

ManualObjections(s) ==
  IF ManualWindowObjections(s) # {} THEN ManualWindowObjections(s)
  ELSE IF StandBlocked(bookings, s) THEN {"stand"} ELSE {}

-------------------------------------------------------------------------------
(* Cascading filters                                                         *)

ByDate(S, d) == {s \in S : Day(StartsAt[s]) = d}
ByTime(S, time) == {s \in S : TimeOfDay(StartsAt[s]) = time}
ByCenter(S, c) == {s \in S : CenterOf[RoomOf[s]] = c}

(* Mutated form of ByPair: only slots that begin with the pair.              *)
ByPairStart(S, n) == {s \in S : TimeOfDay(StartsAt[s]) = UniversityPairs[n].from}

ByPair(S, n) == {s \in S : PairOf(StartsAt[s]) = n}

DatesOf(S) == {Day(StartsAt[s]) : s \in S}
TimesOf(S) == {TimeOfDay(StartsAt[s]) : s \in S}
PairsOf(S) == {PairOf(StartsAt[s]) : s \in S} \ {NoPair}
CentersOf(S) == {CenterOf[RoomOf[s]] : s \in S}
RoomsOf(S) == {RoomOf[s] : s \in S}

(* get_earliest_session_for_date_pair: by start, centre, room, key.          *)
Earlier(s, t) ==
  \/ StartsAt[s] < StartsAt[t]
  \/ /\ StartsAt[s] = StartsAt[t]
     /\ \/ CenterOf[RoomOf[s]] < CenterOf[RoomOf[t]]
        \/ /\ CenterOf[RoomOf[s]] = CenterOf[RoomOf[t]]
           /\ RoomOf[s] < RoomOf[t] \/ (RoomOf[s] = RoomOf[t] /\ s <= t)
Earliest(S) == {s \in S : \A t \in S : Earlier(s, t)}

(* A page: who looks at which lab work, how far the filter has come, what it *)
(* offers, and whether nothing has changed since it was rendered.            *)
Page(view, user, lw, level, date, time, offers) ==
  [view |-> view, user |-> user, work |-> lw, level |-> level, date |-> date,
   time |-> time, offers |-> offers, fresh |-> TRUE]
NoPage == [view |-> "none", fresh |-> FALSE]

(* A page overtaken by a change: only a confirmation can still be sent.      *)
Stale ==
  IF page.view # "none" /\ page.level = "confirm" THEN [page EXCEPT !.fresh = FALSE] ELSE NoPage

(* get_student_pair_filter_options, then the earliest session of the pair.   *)
StudentDates(st, lw) ==
  Page("student", st, lw, "date", None, None, DatesOf(StudentSessions(st, lw)))
StudentPairs(st, lw, d) ==
  Page("student", st, lw, "pair", d, None, PairsOf(ByDate(StudentSessions(st, lw), d)))
StudentConfirm(st, lw, d, n) ==
  Page("student", st, lw, "confirm", d, n, Earliest(ByPair(ByDate(StudentSessions(st, lw), d), n)))

(* get_session_filter_options: date, time, training centre, room.            *)
FilterOptions(view, S, lw, d, time, center) ==
  LET at == ByTime(ByDate(S, d), time)
  IN IF d = None THEN Page(view, None, lw, "date", None, None, DatesOf(S))
     ELSE IF time = None THEN Page(view, None, lw, "time", d, None, TimesOf(ByDate(S, d)))
     ELSE IF center = None THEN Page(view, None, lw, "training_center", d, time, CentersOf(at))
     ELSE Page(view, None, lw, "room", d, time, RoomsOf(ByCenter(at, center)))

(* _render_manual_filter_partial: a single session is offered at once, then  *)
(* the rooms of several, then the sessions of one room.                      *)
ManualTime(lw, d, time) ==
  LET at == ByTime(ByDate(ManualSessions(lw), d), time)
  IN IF Cardinality(at) = 1 THEN Page("manual", None, lw, "confirm", d, time, at)
     ELSE IF Cardinality(at) > 1 THEN Page("manual", None, lw, "room", d, time, RoomsOf(at))
     ELSE FilterOptions("manual", ManualSessions(lw), lw, d, time, None)
ManualRoom(lw, d, time, room) ==
  Page("manual", None, lw, "confirm", d, time,
       {s \in ByTime(ByDate(ManualSessions(lw), d), time) : RoomOf[s] = room})

(* The page an offer of the page on screen leads to.                         *)
FollowStudent(offer) ==
  IF page.level = "date" THEN StudentPairs(page.user, page.work, offer)
  ELSE StudentConfirm(page.user, page.work, page.date, offer)
FollowManual(offer) ==
  IF page.level = "date"
  THEN FilterOptions("manual", ManualSessions(page.work), page.work, offer, None, None)
  ELSE IF page.level = "time" THEN ManualTime(page.work, page.date, offer)
  ELSE ManualRoom(page.work, page.date, page.time, offer)
FollowApi(offer) ==
  LET options(d, time, center) ==
        FilterOptions("api", BookableSessions(page.work), page.work, d, time, center)
  IN IF page.level = "date" THEN options(offer, None, None)
     ELSE IF page.level = "time" THEN options(page.date, offer, None)
     ELSE options(page.date, page.time, offer)
FollowOffer(offer) ==
  IF page.view = "student" THEN FollowStudent(offer)
  ELSE IF page.view = "manual" THEN FollowManual(offer)
  ELSE FollowApi(offer)
Levels == {"date", "time", "pair", "training_center", "room", "confirm"}
LastLevel == page.level = "confirm" \/ (page.view = "api" /\ page.level = "room")

(* build_calendar_months: the months of the offered dates, in whole weeks;   *)
(* a day is a button if it is offered, also on the edge of another month.    *)
MonthOf(d) == CHOOSE m \in DOMAIN MonthStart :
                /\ MonthStart[m] <= d
                /\ m + 1 \in DOMAIN MonthStart => d < MonthStart[m + 1]
MonthWeeks(m) ==
  LET first == MonthStart[m]
      last == MonthStart[m + 1] - 1
  IN first - (first % 7)..last + 6 - (last % 7)
DayButtons(dates) ==
  UNION {MonthWeeks(m) \cap dates : m \in {MonthOf(d) : d \in dates}}

Clickable == IF page.level = "date" THEN DayButtons(page.offers) ELSE page.offers

-------------------------------------------------------------------------------
(* Requests                                                                  *)

Freed == CHOOSE b \in {k \in BookingId : bookings[k] = Absent} :
           \A k \in BookingId : bookings[k] = Absent => b <= k

(* Mutated form of NewRow: the discipline is left out.                       *)
NewRowOfNoDiscipline(st, s, d, registration) ==
  [student |-> st, session |-> s, discipline |-> None, registration |-> registration,
   status |-> "BOOKED"]

NewRow(st, s, d, registration) ==
  [student |-> st, session |-> s, discipline |-> d, registration |-> registration,
   status |-> "BOOKED"]
Insert(st, s, d, registration) ==
  /\ \E b \in BookingId : bookings[b] = Absent
  /\ bookings' = [bookings EXCEPT ![Freed] = NewRow(st, s, d, registration)]

(* A filter partial is loaded; it changes nothing but the screen.            *)
Show(new) ==
  /\ page' = new
  /\ UNCHANGED <<now, status, bookings, horizon, missed, calls>>

OpenBookingPage(st, lw) ==
  \E d \in Discipline : <<lw, d>> \in Curriculum[st] /\ Show(StudentDates(st, lw))
OpenManualPage(lw) == Show(FilterOptions("manual", ManualSessions(lw), lw, None, None, None))
OpenApiFilter(lw) == Show(FilterOptions("api", BookableSessions(lw), lw, None, None, None))

Click(offer) ==
  /\ page.view # "none" /\ ~LastLevel
  /\ offer \in Clickable
  /\ Show(FollowOffer(offer))

Write == calls < MaxCalls /\ calls' = calls + 1

(* The form of the confirmation page is sent: create_booking decides anew.   *)
SubmitStudent(st, s) ==
  /\ Write
  /\ page.view = "student" /\ page.level = "confirm" /\ page.user = st /\ s \in page.offers
  /\ LET d == DefaultDiscipline(st, s)
     IN IF StudentObjections(st, s, d) = {}
        THEN Insert(st, s, d, "AUTO")
        ELSE UNCHANGED bookings
  /\ page' = NoPage
  /\ UNCHANGED <<now, status, horizon, missed>>

SubmitManual(st, s) ==
  /\ Write
  /\ page.view = "manual" /\ page.level = "confirm" /\ s \in page.offers
  /\ Disciplines(st, s) # {}
  /\ IF ManualObjections(s) = {}
     THEN Insert(st, s, DefaultDiscipline(st, s), "MANUAL")
     ELSE UNCHANGED bookings
  /\ page' = NoPage
  /\ UNCHANGED <<now, status, horizon, missed>>

(* The same calls by other people, through the API.                          *)
ApiBook(st, s) ==
  /\ Write
  /\ \E d \in Disciplines(st, s) : /\ StudentObjections(st, s, d) = {}
                                   /\ Insert(st, s, d, "AUTO")
  /\ page' = Stale
  /\ UNCHANGED <<now, status, horizon, missed>>

SetStatus(b, new) ==
  /\ Write
  /\ IsBooked(bookings, b)
  /\ bookings' = [bookings EXCEPT ![b].status = new]
  /\ page' = Stale
  /\ UNCHANGED <<now, status, horizon, missed>>

EditSession(s, new) ==
  /\ Write
  /\ status[s] # new
  /\ status' = [status EXCEPT ![s] = new]
  /\ page' = Stale
  /\ UNCHANGED <<now, bookings, horizon, missed>>

(* Mutated form of DaysAhead: the booking horizon alone.                     *)
HorizonOnly == HorizonDays + 1

(* generate_lab_sessions: days_ahead.                                        *)
DaysAhead == IF 7 * WeeksAhead > HorizonDays + 1 THEN 7 * WeeksAhead ELSE HorizonDays + 1

CronDue == now % (7 * 1440) = CronAt

(* generate_sessions writes the slots of the days up to its horizon; cron    *)
(* may miss a run. Which slots it writes is SlotLifecycle's subject.         *)
GenerateSessions ==
  /\ CronDue /\ horizon < Day(now) + DaysAhead
  /\ horizon' = Day(now) + DaysAhead
  /\ missed' = 0
  /\ UNCHANGED <<now, status, bookings, page, calls>>

Tick ==
  LET later == {t \in Clock : t > now}
      unserved == CronDue /\ horizon < Day(now) + DaysAhead
  IN /\ later # {} /\ now' = Smallest(later)
     /\ missed' = IF unserved THEN missed + 1 ELSE missed
     /\ missed' <= MaxMissed
     /\ page' = Stale
     /\ UNCHANGED <<status, bookings, horizon, calls>>

Init ==
  /\ now = Smallest(Clock)
  /\ status = [s \in Session |-> "OPEN"]
  /\ bookings = [b \in BookingId |-> Absent]
  /\ page = NoPage
  /\ horizon = Day(now) + DaysAhead
  /\ missed = 0 /\ calls = 0

Next ==
  \/ Tick \/ GenerateSessions
  \/ \E lw \in Shown : \/ OpenManualPage(lw) \/ OpenApiFilter(lw)
                       \/ \E st \in Browsing : OpenBookingPage(st, lw)
  \/ \E offer \in (IF page.view = "none" THEN {} ELSE page.offers) : Click(offer)
  \/ \E st \in Browsing, s \in Session : SubmitStudent(st, s) \/ SubmitManual(st, s)
  \/ \E st \in Student \ Browsing, s \in Session : ApiBook(st, s)
  \/ \E b \in BookingId, new \in Outcomes : SetStatus(b, new)
  \/ \E s \in Editable, new \in Edits : EditSession(s, new)

Spec == Init /\ [][Next]_vars

-------------------------------------------------------------------------------
(* Properties                                                                *)

(* Every variable keeps its type; in particular a page never offers anything *)
(* but dates, times, pairs, centres, rooms or sessions of its level.         *)
TypeOK ==
  /\ now \in Clock
  /\ status \in [Session -> {"OPEN"} \cup Edits]
  /\ bookings \in Tables
  /\ horizon \in Nat /\ missed \in 0..MaxMissed /\ calls \in 0..MaxCalls
  /\ page.view # "none" =>
       /\ page.level \in Levels
       /\ page.level = "confirm" => page.offers \subseteq Session
       /\ page.level = "pair" => page.offers \subseteq PairNumber
       /\ page.level = "room" => page.offers \subseteq Room
       /\ page.level \in {"date", "time", "training_center"} => page.offers \subseteq Nat

(* bookable_sessions_qs and create_booking were written apart and must       *)
(* agree: a student is shown exactly the slots on which create_booking has   *)
(* no objection but the two rules about the student's own history.           *)
ListedIffBookable ==
  \A st \in Student, lw \in LabWork, d \in Discipline : <<lw, d>> \in Curriculum[st] =>
    StudentSessions(st, lw) =
      {s \in Session : LabWorkOf[s] = lw /\ StudentObjections(st, s, d) \subseteq StudentRules}

(* The same for staff: staff_manual_sessions_qs shows exactly what           *)
(* create_booking(manual=True) admits, full slots included, except that a    *)
(* stand taken by another lab work is only noticed on submission.            *)
ManualListedIffAdmitted ==
  \A lw \in LabWork :
    ManualSessions(lw) =
      {s \in Session : LabWorkOf[s] = lw /\ ManualObjections(s) \subseteq {"stand"}}

(* The cascading filters never lead into an empty page: while nothing has    *)
(* changed, every offer of a page has a button, and following it shows       *)
(* something to choose.                                                      *)
OffersLeadOn ==
  page.fresh =>
    /\ page.offers = Clickable
    /\ ~LastLevel => \A offer \in page.offers : FollowOffer(offer).offers # {}

(* Cron regenerates slots once a week with --weeks=4: even when one weekly   *)
(* run is missed, slots exist for every day open to students.                *)
WindowCovered == MaxBookingDate(now) <= horizon
================================================================================
