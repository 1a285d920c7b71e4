-------------------------------- MODULE MCStands --------------------------------
(* Three overlapping slots: 1 and 2 need the same stand for different lab works *)
(* in different rooms, 1 and 3 are the same lab work in different rooms.        *)
EXTENDS BookingProperties, TLC

MCStartsAt == <<10, 11, 10>>
MCEndsAt == <<12, 13, 11>>
MCLabWorkOf == <<"lw1", "lw2", "lw1">>
MCRoomOf == <<"east", "west", "north">>
MCStandOf == [lw \in LabWork |-> "stand"]
MCCapacity == <<2, 1, 2>>
MCLabWorkCapacity == [lw \in LabWork |-> 2]
MCRoomCapacity == [room \in Room |-> 2]
MCCurriculum == [st \in Student |-> {<<"lw1", "d1">>, <<"lw2", "d2">>}]
MCWindow == [s \in Session |-> 0..9]
MCSymmetry == Permutations(Student) \cup Permutations(Request)
================================================================================
