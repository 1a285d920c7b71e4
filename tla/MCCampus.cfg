SPECIFICATION Spec
CONSTANTS
  Staff = {"h1", "h2", "a1"}
  RoleOf <- MCRoleOf
  Student = {"st1"}
  GroupOf <- MCGroupOf
  Group = {"g1"}
  Laboratory = {1, 2}
  Center = {"c1", "c2"}
  CenterOfLab <- MCCenterOfLab
  FacultyOfLab <- MCFacultyOfLab
  Room = {"r1", "r2"}
  CenterOfRoom <- MCCenterOfRoom
  Stand = {"s1"}
  CenterOfStand <- MCCenterOfStand
  Discipline = {"d1"}
  ActiveSemester = {"d1"}
  LabWork = {"w1", "w2"}
  Folder = {"f1"}
  Session = {"x1"}
  SessionWork <- MCSessionWork
  SessionRoom <- MCSessionRoom
  None = None
  WorkersDie = TRUE
  ServersDie = TRUE
  BookingId = {"b1"}
  StaffStatuses = {"VISITED", "CANCELLED"}
  Ticket = {"t1"}
  Hours = {106, 130, 131, 154, 178, 179}
  StartProfile <- MCStartProfile
  StartDiscipline <- MCStartDiscipline
  StartWork <- MCStartWork
  StartGroup <- MCStartGroup
  MaxWork = 12
  CatalogueWork = 4
  SupportWork = 3
CHECK_DEADLOCK FALSE
INVARIANTS TypeOK CentersFollowLabs EquipmentInOneCenter RoomsOfWorksListed  FoldersHideNothing
  StatusFollowsLastMessage OverdueAfterADay
