-------------------------------- MODULE MCRooms --------------------------------
(* One room with three staggered slots: 1 and 3 do not meet, 2 meets both.    *)
EXTENDS BookingProperties, TLC

MCStartsAt == <<10, 11, 12>>
MCEndsAt == <<12, 13, 14>>
MCLabWorkOf == <<"lw1", "lw2", "lw1">>
MCRoomOf == [s \in Session |-> "room"]
MCStandOf == [lw \in LabWork |-> None]
MCCapacity == [s \in Session |-> 2]
MCLabWorkCapacity == [lw \in LabWork |-> 3]
MCRoomCapacity == [room \in Room |-> 2]
MCCurriculum == [st \in Student |-> {<<"lw1", "d1">>, <<"lw2", "d2">>}]
MCWindow == [s \in Session |-> 0..9]
MCSymmetry == Permutations(Student) \cup Permutations(Request)
================================================================================
