-------------------------------- MODULE MCSweep --------------------------------
(* Two consecutive slots and a clock that runs past both: mark_visited, its     *)
(* crashes, and the requests it meets.                                          *)
EXTENDS BookingProperties

MCStartsAt == <<1, 2>>
MCEndsAt == <<2, 3>>
MCLabWorkOf == <<"lw1", "lw2">>
MCRoomOf == [s \in Session |-> "room"]
MCStandOf == [lw \in LabWork |-> None]
MCCapacity == [s \in Session |-> 1]
MCLabWorkCapacity == [lw \in LabWork |-> 1]
MCRoomCapacity == [room \in Room |-> 1]
MCCurriculum == [st \in Student |-> {<<"lw1", "d1">>, <<"lw2", "d2">>}]
MCStudentWindow == [s \in Session |-> 0 .. (StartsAt[s] - 1)]
MCStaffWindow == [s \in Session |-> 0 .. (EndsAt[s] - 1)]
================================================================================
