---------------------------- MODULE MCAvailability ----------------------------
(* Nine slots around the edges of the calendar: today's first pair, two slots  *)
(* of tomorrow's first pair and one beside each of them, a holiday, a         *)
(* Saturday, the last days, and a start that only the 85-minute pair refuses. *)
EXTENDS Availability, TLC

At(day, h, m) == 1440 * day + Minute(h, m)
MCClock == {At(0, 6, 0), At(0, 9, 0), At(0, 15, 0), At(7, 6, 0), At(13, 22, 0)}
MCStartsAt == <<At(0, 8, 50), At(1, 8, 50), At(1, 9, 20), At(1, 8, 50), At(1, 8, 50),
                At(15, 16, 40), At(14, 16, 55), At(2, 8, 50), At(5, 8, 50)>>
MCEndsAt == <<At(0, 9, 20), At(1, 9, 35), At(1, 9, 50), At(1, 10, 20), At(1, 9, 20),
              At(15, 17, 10), At(14, 17, 25), At(2, 9, 20), At(5, 9, 20)>>
MCLabWorkOf == <<"lw1", "lw1", "lw1", "lw2", "lw1", "lw1", "lw1", "lw1", "lw1">>
MCRoomOf == <<1, 1, 1, 1, 2, 2, 2, 1, 1>>
MCStandOf == [lw \in LabWork |-> "stand"]
MCCapacity == <<1, 1, 1, 1, 2, 1, 2, 1, 1>>
MCLabWorkCapacity == [lw \in LabWork |-> 2]
MCRoomCapacity == <<1, 2>>
MCCurriculum == [st \in Student |-> {<<"lw1", "d1">>} \cup (IF st \in Browsing THEN {} ELSE {<<"lw2", "d2">>})]
MCCenterOf == [room \in Room |-> room]
MCMonthStart == <<-20, 9, 40>>
(* The calendar is spelled out here, so the windows BookingService is given   *)
(* are not needed.                                                            *)
MCNoWindow == [s \in Session |-> {}]
================================================================================
