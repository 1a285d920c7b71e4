------------------------------- MODULE MCSlots -------------------------------
(* Two lab works of one room whose forms can be given one title, two starts.  *)
EXTENDS SlotLifecycle

Row(title, duration, capacity) ==
  [status |-> "PUBLISHED", title |-> title, room |-> "r1", duration |-> duration,
   capacity |-> capacity, code |-> None]

MCRoomCapacity == [room \in Room |-> 2]
MCStartTimes == [d \in Duration |-> IF d = 1 THEN {1, 2} ELSE {2}]
MCInitialWorks == [lw \in LabWork |-> IF lw = 1 THEN Row("t", 1, 3) ELSE Absent]
MCFormRows == {Row("t", 1, 1), Row("t", 2, 3)}
================================================================================
