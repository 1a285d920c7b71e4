------------------------------- MODULE Timetable -------------------------------
(*****************************************************************************)
(* The published timetable a booking is made against: lab sessions (slots)   *)
(* with their room, lab work and interval, the capacities, and the questions *)
(* the booking code asks about overlapping slots.                            *)
(* Nothing here changes while bookings are made; times are numbers on one    *)
(* clock. StudentWindow and StaffWindow are the moments at which the         *)
(* calendar rules (open day, pair, weekday, holiday) admit a booking.        *)
(*****************************************************************************)
EXTENDS Naturals, FiniteSets

CONSTANTS
  Student, Session, LabWork, Room, Stand, Discipline,
  StartsAt, EndsAt,        \* interval of a session
  LabWorkOf, RoomOf,       \* what is taught in a session and where
  StandOf,                 \* primary stand of a lab work, or None
  Capacity, LabWorkCapacity, RoomCapacity,
  Curriculum,              \* <<lab work, discipline>> pairs a student may take
  StudentWindow, StaffWindow,
  CancelLead,              \* BOOKING_CANCEL_HOURS
  None                     \* no value: null in the database, nobody

ASSUME TimetableAssumption ==
  /\ Session \subseteq Nat \ {0}
  /\ IsFiniteSet(Student)
  /\ StartsAt \in [Session -> Nat]
  /\ EndsAt \in [Session -> Nat]
  /\ \A s \in Session : StartsAt[s] < EndsAt[s]
  /\ LabWorkOf \in [Session -> LabWork]
  /\ RoomOf \in [Session -> Room]
  /\ StandOf \in [LabWork -> Stand \cup {None}]
  /\ Capacity \in [Session -> Nat]
  /\ LabWorkCapacity \in [LabWork -> Nat]
  /\ RoomCapacity \in [Room -> Nat]
  /\ Curriculum \in [Student -> SUBSET (LabWork \X Discipline)]
  /\ StudentWindow \in [Session -> SUBSET Nat]
  /\ StaffWindow \in [Session -> SUBSET Nat]
  /\ CancelLead \in Nat
  /\ None \notin Student /\ None \notin Session
  /\ None \notin Stand /\ None \notin Discipline

(* lab_session_capacity: a slot is created with the smaller of the two.      *)
ASSUME CapacityAssumption ==
  \A s \in Session : /\ Capacity[s] <= RoomCapacity[RoomOf[s]]
                     /\ Capacity[s] <= LabWorkCapacity[LabWorkOf[s]]

Overlap(s, t) == StartsAt[s] < EndsAt[t] /\ EndsAt[s] > StartsAt[t]

OverlappingRoomSessions(s) ==
  {t \in Session : RoomOf[t] = RoomOf[s] /\ Overlap(t, s)}

OverlappingSameLabWorkSessions(s) ==
  {t \in Session : LabWorkOf[t] = LabWorkOf[s] /\ Overlap(t, s)}

SameStand(s, t) ==
  /\ StandOf[LabWorkOf[s]] # None
  /\ StandOf[LabWorkOf[t]] = StandOf[LabWorkOf[s]]

OverlappingStandSessions(s) ==
  {t \in Session : SameStand(s, t) /\ Overlap(t, s)}

(* Mutated form of BookingLockIds: only the slot being booked is locked.     *)
TargetOnlyLockIds(s) == {s}

(* Mutated form of BookingLockIds: the slots sharing the stand are forgotten.*)
RoomOnlyLockIds(s) == {s} \cup OverlappingRoomSessions(s)

(* The rows _lock_for_booking takes FOR UPDATE, in ascending key order.      *)
BookingLockIds(s) ==
  {s} \cup OverlappingRoomSessions(s)
      \cup OverlappingStandSessions(s)
      \cup OverlappingSameLabWorkSessions(s)

(* student_can_access_lab_work, and the discipline a booking may carry.      *)
Disciplines(st, s) == {d \in Discipline : <<LabWorkOf[s], d>> \in Curriculum[st]}

(* The discipline of a booking made without one: the first by title, that is *)
(* one fixed discipline of those open to the student.                        *)
DefaultDiscipline(st, s) == CHOOSE d \in Disciplines(st, s) : TRUE
================================================================================
