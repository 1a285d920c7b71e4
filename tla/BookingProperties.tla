-------------------------- MODULE BookingProperties --------------------------
(*****************************************************************************)
(* What BookingService keeps true, and what its documents say it keeps true. *)
(*****************************************************************************)
EXTENDS BookingService

(* Rows, locks and transactions hold values of their columns' types.         *)
TypeOK ==
  /\ now \in Nat /\ crashes \in Nat
  /\ sessionStatus \in [Session -> SessionStatus]
  /\ bookings \in Tables
  /\ waitlist \in [Session -> [Student -> Nat]]
  /\ noShows \in [Student -> Nat]
  /\ sessionLock \in [Session -> Request \cup {None}]
  /\ bookingLock \in [BookingId -> Request \cup {None}]
  /\ tx \in [Request -> Tx]

-------------------------------------------------------------------------------
(* Seats                                                                     *)

(* Seats taken by self-service (and promotions). Staff may overbook a slot   *)
(* by hand, so the limits are about these.                                   *)
AutoSeats(S) == {b \in BookedIn(bookings, S) : bookings[b].registration = "AUTO"}

(* However requests interleave, self-service never sells more seats of a     *)
(* slot than its capacity (booked_count >= session.capacity under the lock). *)
AutoWithinCapacity ==
  \A s \in Session : Cardinality(AutoSeats({s})) <= Capacity[s]

(* The sessions of set S running when session s starts.                      *)
RunningAtStart(S, s) == {t \in S : StartsAt[t] <= StartsAt[s] /\ StartsAt[s] < EndsAt[t]}

(* At no moment are more self-service students due in a room than it holds,  *)
(* however its slots overlap: the check is made slot by slot and slot        *)
(* overlap is not transitive. Occupancy can only peak when a session starts. *)
RoomNeverOverfull ==
  \A s \in Session :
    Cardinality(AutoSeats(RunningAtStart(OverlappingRoomSessions(s), s)))
      <= RoomCapacity[RoomOf[s]]

(* The same for the seats of one lab work given in several rooms at once.    *)
LabWorkNeverOverfull ==
  \A s \in Session :
    Cardinality(AutoSeats(RunningAtStart(OverlappingSameLabWorkSessions(s), s)))
      <= LabWorkCapacity[LabWorkOf[s]]

(* A stand never serves two lab works at once, whether students or staff     *)
(* book, in whichever rooms and order.                                       *)
StandExclusive ==
  \A b, c \in BookingId :
    /\ IsBooked(bookings, b)
    /\ IsBooked(bookings, c)
    /\ bookings[c].session \in OverlappingStandSessions(bookings[b].session)
    => LabWorkOf[bookings[b].session] = LabWorkOf[bookings[c].session]

(* A student never holds two self-service bookings of overlapping slots that *)
(* share a room, a lab work or a stand: what remains of the overlap rule,    *)
(* whose check is safe only where the two requests lock a slot in common.    *)
NoDoubleBookingOnSharedResource ==
  \A b, c \in AutoSeats(Session) :
    /\ b # c
    /\ bookings[b].student = bookings[c].student
    => /\ bookings[b].session \notin OverlappingRoomSessions(bookings[c].session)
       /\ bookings[b].session \notin OverlappingSameLabWorkSessions(bookings[c].session)
       /\ bookings[b].session \notin OverlappingStandSessions(bookings[c].session)

(* Staff sets final statuses only, as the staff form offers them. A call of  *)
(* the API that sets BOOKED again looks at no capacity, and breaks it.       *)
StaffNeverRebooks == "BOOKED" \notin StaffStatuses

Ledger == INSTANCE SeatLedger WITH bookings <- bookings

(* The interleaved service implements the one-at-a-time seat ledger: a seat  *)
(* checked under the locks is still there when the booking commits.          *)
LedgerSpec == Ledger!Spec

-------------------------------------------------------------------------------
(* Status changes                                                            *)

(* A student's cancellation never replaces a status staff has set meanwhile  *)
(* (the row is locked and its status looked at again).                       *)
CancelsOnlyBooked ==
  [][\A b \in BookingId :
       bookings'[b].status = "CANCELLED" /\ bookings[b].status # "CANCELLED"
         => IsBooked(bookings, b)]_vars

(* mark_visited never marks a booking of a session that has not ended.       *)
VisitedOnlyAfterEnd ==
  [][\A b \in BookingId :
       bookings'[b].status = "VISITED" /\ bookings[b].status # "VISITED"
         => EndsAt[bookings[b].session] <= now]_vars

(* Nobody loses a place in a queue, by a promotion or a refused one, unless  *)
(* in that very step a booked seat of the session is given up.               *)
PlaceLostOnlyToFreedSeat ==
  [][\A s \in Session, st \in Student :
       waitlist[s][st] # 0 /\ waitlist'[s][st] = 0
         => \E b \in BookingId : /\ IsBooked(bookings, b) /\ ~IsBooked(bookings', b)
                                 /\ bookings[b].session = s]_vars

-------------------------------------------------------------------------------
(* Locks                                                                     *)

(* Requests that only book, cancel or queue never deadlock among themselves: *)
(* all lock slots in key order. Every lock cycle has a session cancellation  *)
(* in it, which locks a slot first and its bookings after.                   *)
OnlySessionCancelDeadlocks ==
  \A C \in SUBSET Request : WaitCycle(C) => \E r \in C : tx[r].pc = "reaccess"

(* No request waits for ever: deadlocks are broken, retries are bounded and  *)
(* locks are freed in the end.                                               *)
RequestsFinish == \A r \in Request : tx[r].pc # "idle" ~> tx[r].pc = "idle"

(* A session that has ended is eventually taken out of OPEN, whatever        *)
(* crashed on the way (mark_visited is run again by cron).                   *)
EndedSessionsClose ==
  \A s \in Session : EndsAt[s] <= now /\ sessionStatus[s] = "OPEN" ~> sessionStatus[s] # "OPEN"

-------------------------------------------------------------------------------
(* What documents, docstrings and tests say, and concurrent requests refute  *)

Quiet == \A r \in Request : tx[r].pc = "idle"

(* README: one active booking per discipline.                                *)
OneActivePerDiscipline ==
  \A b, c \in AutoSeats(Session) :
    /\ bookings[b].student = bookings[c].student
    /\ bookings[b].discipline = bookings[c].discipline
    => b = c

(* cancel_session_with_reaccess: students with an active booking of a        *)
(* cancelled session get REACCESS, so none stays BOOKED there.               *)
CancelledSessionSettled ==
  Quiet => \A b \in BookingId : IsBooked(bookings, b) =>
             sessionStatus[bookings[b].session] # "CANCELLED"
================================================================================
