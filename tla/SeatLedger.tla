------------------------------ MODULE SeatLedger ------------------------------
(*****************************************************************************)
(* What BookingService promises about seats, stated without requests, locks  *)
(* or snapshots: bookings are admitted one at a time, each against the table *)
(* as it is at that moment, and a seat once given up is not taken back.      *)
(*****************************************************************************)
EXTENDS BookingRules

VARIABLE bookings

Init == bookings = [b \in BookingId |-> Absent]

GivenUp(B, new) ==
  [b \in BookingId |-> IF b \in B THEN [bookings[b] EXCEPT !.status = new] ELSE bookings[b]]

(* Rows that exist get a status other than BOOKED.                           *)
GiveUpSeats ==
  \E B \in SUBSET {b \in BookingId : bookings[b] # Absent} :
    \E new \in BookingStatus \ {"BOOKED"} : bookings' = GivenUp(B, new)

HasSeat(table, s) ==
  /\ ~SessionFull(table, s)
  /\ ~LabWorkCapacityWouldBeExceeded(table, s)
  /\ ~RoomCapacityWouldBeExceeded(table, s)

(* A booking is added, perhaps in place of a cancelled one; self-service     *)
(* needs a seat, and nobody gets a stand another lab work is using.          *)
AddBooking ==
  \E freed \in SUBSET {b \in BookingId : IsBooked(bookings, b)} :
    LET table == GivenUp(freed, "CANCELLED") IN
      \E b \in BookingId, row \in BookingRow :
        /\ bookings[b] = Absent
        /\ row.status = "BOOKED"
        /\ ~StandBlocked(table, row.session)
        /\ row.registration = "AUTO" => HasSeat(table, row.session)
        /\ Cardinality(freed) <= 1
        /\ bookings' = [table EXCEPT ![b] = row]

Next == GiveUpSeats \/ AddBooking

Spec == Init /\ [][Next]_bookings
================================================================================
