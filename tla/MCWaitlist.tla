------------------------------- MODULE MCWaitlist -------------------------------
(* Two overlapping one-seat slots of one room: full slots, queues, promotions,  *)
(* session cancellations and the lock cycles between them.                      *)
EXTENDS BookingProperties

MCStartsAt == <<10, 11>>
MCEndsAt == <<12, 13>>
MCLabWorkOf == <<"lw1", "lw2">>
MCRoomOf == [s \in Session |-> "room"]
MCStandOf == [lw \in LabWork |-> None]
MCCapacity == [s \in Session |-> 1]
MCLabWorkCapacity == [lw \in LabWork |-> 1]
MCRoomCapacity == [room \in Room |-> 2]
MCCurriculum == [st \in Student |-> {<<"lw1", "d1">>, <<"lw2", "d2">>}]
MCWindow == [s \in Session |-> 0..9]
================================================================================
