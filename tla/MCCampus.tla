------------------------------- MODULE MCCampus -------------------------------
(* Two heads of two centres, an administrator without a laboratory, a lab    *)
(* work of the group's discipline and one still to be made.                  *)
EXTENDS Campus

MCRoleOf == [u \in Staff |-> IF u = "a1" THEN "LAB_ADMIN" ELSE "LAB_HEAD"]
MCGroupOf == [st \in Student |-> "g1"]
MCCenterOfLab == <<"c1", "c2">>
MCFacultyOfLab == <<"f1", "f2">>
MCCenterOfRoom == [r \in Room |-> IF r = "r1" THEN "c1" ELSE "c2"]
MCCenterOfStand == [s \in Stand |-> "c1"]
MCSessionWork == [s \in Session |-> "w1"]
MCSessionRoom == [s \in Session |-> "r1"]
MCStartProfile == [u \in Staff |->
  [laboratory |-> IF u = "h1" THEN 1 ELSE IF u = "h2" THEN 2 ELSE None,
   center |-> IF u = "h2" THEN "c2" ELSE "c1", disciplines |-> {}]]
MCStartDiscipline == [d \in Discipline |->
  [laboratories |-> {1, 2}, centers |-> {"c1", "c2"}, published |-> TRUE, folder |-> None]]
MCStartWork == [w \in LabWork |->
  [status |-> IF w = "w1" THEN "LIVE" ELSE "NEW",
   disciplines |-> IF w = "w1" THEN Discipline ELSE {},
   laboratories |-> IF w = "w1" THEN {1} ELSE {},
   centers |-> IF w = "w1" THEN {"c1"} ELSE {},
   published |-> TRUE, room |-> IF w = "w1" THEN "r1" ELSE None, stand |-> None]]
MCStartGroup == [g \in Group |-> [disciplines |-> {"d1"}, works |-> {}]]
================================================================================
