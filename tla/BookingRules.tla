----------------------------- MODULE BookingRules -----------------------------
(*****************************************************************************)
(* The Booking table and the questions booking.py, session_availability.py   *)
(* and LabSession ask of it: how many seats are taken, which rules a new     *)
(* booking would break. A table is a function from primary keys to rows.     *)
(*****************************************************************************)
EXTENDS Timetable

CONSTANT BookingId   \* primary keys of bookings (bound: bookings ever made)

ASSUME BookingIdAssumption ==
  /\ BookingId \subseteq Nat \ {0}
  /\ IsFiniteSet(BookingId)
  /\ None \notin BookingId

BookingStatus == {"BOOKED", "NO_SHOW", "CANCELLED", "REACCESS", "VISITED"}
Registration == {"AUTO", "MANUAL"}

Absent == [status |-> "ABSENT"]

BookingRow == [student : Student, session : Session, discipline : Discipline,
               registration : Registration, status : BookingStatus]

(* Any content the Booking table can have.                                   *)
Tables == [BookingId -> BookingRow \cup {Absent}]

IsBooked(table, b) == table[b].status = "BOOKED"

BookedIn(table, S) == {b \in BookingId : IsBooked(table, b) /\ table[b].session \in S}

StandBlocked(table, s) ==
  \E b \in BookingId :
    /\ IsBooked(table, b)
    /\ table[b].session \in OverlappingStandSessions(s)
    /\ LabWorkOf[table[b].session] # LabWorkOf[s]

HasActiveInDiscipline(table, st, d) ==
  \E b \in BookingId : IsBooked(table, b) /\ table[b].student = st /\ table[b].discipline = d

HasVisited(table, st, s) ==
  \E b \in BookingId : /\ table[b].status = "VISITED"
                       /\ table[b].student = st
                       /\ LabWorkOf[table[b].session] = LabWorkOf[s]

StudentOverlapBooked(table, st, s) ==
  \E b \in BookingId : /\ IsBooked(table, b)
                       /\ table[b].student = st
                       /\ Overlap(table[b].session, s)

(* Mutated form of SessionFull: one seat too many.                           *)
SessionOverFull(table, s) == Cardinality(BookedIn(table, {s})) > Capacity[s]

SessionFull(table, s) == Cardinality(BookedIn(table, {s})) >= Capacity[s]

LabWorkCapacityWouldBeExceeded(table, s) ==
  Cardinality(BookedIn(table, OverlappingSameLabWorkSessions(s))) + 1
    > LabWorkCapacity[LabWorkOf[s]]

RoomCapacityWouldBeExceeded(table, s) ==
  /\ BookedIn(table, OverlappingRoomSessions(s) \ {s}) # {}
  /\ Cardinality(BookedIn(table, OverlappingRoomSessions(s))) + 1
       > RoomCapacity[RoomOf[s]]
================================================================================
