------------------------------- MODULE MCDisjoint -------------------------------
(* Two overlapping slots in different rooms, of different lab works without a   *)
(* stand: requests for them have no row to lock in common.                      *)
EXTENDS BookingProperties

MCStartsAt == <<10, 11>>
MCEndsAt == <<12, 13>>
MCLabWorkOf == <<"lw1", "lw2">>
MCRoomOf == <<"east", "west">>
MCStandOf == [lw \in LabWork |-> None]
MCCapacity == [s \in Session |-> 1]
MCLabWorkCapacity == [lw \in LabWork |-> 1]
MCRoomCapacity == [room \in Room |-> 1]
MCCurriculum == [st \in Student |-> {<<"lw1", "d1">>, <<"lw2", "d1">>, <<"lw2", "d2">>}]
MCWindow == [s \in Session |-> 0..9]
================================================================================
