------------------------------- MODULE StaffDesk -------------------------------
(*****************************************************************************)
(* The pages and endpoints through which students and staff reach bookings:  *)
(* who may ask for what.  What the booking service answers, and the seats it *)
(* counts, is BookingService's: here it may always refuse.                   *)
(*****************************************************************************)
EXTENDS AccessScope

CONSTANTS BookingId, StaffStatuses

ASSUME DeskAssumption ==
  StaffStatuses \subseteq {"BOOKED", "VISITED", "NO_SHOW", "REACCESS", "CANCELLED"}

(* create_booking looks at the student's curriculum, whoever is asking.      *)
MayBook(st, s, d) ==
  /\ SessionWork[s] \in StudentWorks(st)
  /\ d \in StudentDisciplines(st) \cap work[SessionWork[s]].disciplines

(* The booking table with one row more.                                      *)
Insert(st, s, d, by, via) ==
  LET free == BookingId \ DOMAIN booking IN
    /\ free # {}                                          \* bound
    /\ MayBook(st, s, d)
    /\ LET id == CHOOSE x \in free : TRUE
       IN booking' = [b \in DOMAIN booking \cup {id} |->
            IF b = id THEN [student |-> st, work |-> SessionWork[s], discipline |-> d,
                            room |-> SessionRoom[s], status |-> "BOOKED", by |-> by, via |-> via]
            ELSE booking[b]]
    /\ UNCHANGED <<profile, discipline, work, room, stand, folder, group>>

SetStatus(b, new) ==
  /\ booking' = [booking EXCEPT ![b].status = new]
  /\ UNCHANGED <<profile, discipline, work, room, stand, folder, group>>

-------------------------------------------------------------------------------
(* Students: the pages over their curriculum, and their own bookings         *)

(* BookLabWorkWebView.post and BookingCreateView: the service alone decides. *)
BookOnline(st, s, d) == s \in Sessions /\ Insert(st, s, d, st, "WEB")
BookByApi(st, s, d) == s \in Sessions /\ Insert(st, s, d, st, "API")

CancelOwn(st, b) ==
  /\ booking[b].student = st /\ booking[b].status = "BOOKED"
  /\ SetStatus(b, "CANCELLED")

-------------------------------------------------------------------------------
(* Staff                                                                     *)

(* StaffManualBookingWebView: the session and its lab work are both the      *)
(* user's.                                                                   *)
ManualBooking(u, st, s, d) ==
  /\ CanModifyBookings(u)
  /\ s \in StaffSessions(u)
  /\ SessionWork[s] \in StaffWorks(u)
  /\ Insert(st, s, d, u, "WEB")

(* ManualBookingView: only the session is looked at.                         *)
ManualBookingByApi(u, st, s, d) ==
  /\ CanModifyBookings(u)
  /\ s \in StaffSessions(u)
  /\ Insert(st, s, d, u, "API")

(* StaffStatusUpdateWebView and BookingStatusUpdateView.                     *)
ChangeStatus(u, b, new) ==
  /\ CanModifyBookings(u)
  /\ b \in StaffBookings(u)
  /\ new \in StaffStatuses
  /\ SetStatus(b, new)

(* BookingCancelView: any member of staff the booking is listed to.          *)
CancelByStaff(u, b) ==
  /\ IsStaff(u)
  /\ b \in StaffBookings(u)
  /\ booking[b].status = "BOOKED"
  /\ SetStatus(b, "CANCELLED")

DeskRequest ==
  \/ \E st \in Student, s \in Session, d \in Discipline :
       \/ BookOnline(st, s, d) \/ BookByApi(st, s, d)
       \/ \E u \in Staff : ManualBooking(u, st, s, d) \/ ManualBookingByApi(u, st, s, d)
  \/ \E st \in Student, b \in DOMAIN booking : CancelOwn(st, b)
  \/ \E u \in Staff, b \in DOMAIN booking :
       CancelByStaff(u, b) \/ (\E new \in StaffStatuses : ChangeStatus(u, b, new))
================================================================================
