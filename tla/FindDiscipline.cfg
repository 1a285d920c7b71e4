SPECIFICATION Spec
CONSTANTS
  Student = {a}
  Session = {1, 2}
  LabWork = {"lw1", "lw2"}
  Room = {"east", "west"}
  Stand = {"stand"}
  Discipline = {"d1", "d2"}
  StartsAt <- MCStartsAt
  EndsAt <- MCEndsAt
  LabWorkOf <- MCLabWorkOf
  RoomOf <- MCRoomOf
  StandOf <- MCStandOf
  Capacity <- MCCapacity
  LabWorkCapacity <- MCLabWorkCapacity
  RoomCapacity <- MCRoomCapacity
  Curriculum <- MCCurriculum
  StudentWindow <- MCWindow
  StaffWindow <- MCWindow
  CancelLead = 2
  None = None
  Request = {r1, r2}
  BookingId = {1, 2}
  Traffic = {"AUTO"}
  StaffStatuses = {}
  SessionEdits = {}
  MaxAttempts = 3
  MaxNow = 0
  MaxNoShows = 0
  MaxCrashes = 0
CHECK_DEADLOCK FALSE
INVARIANT OneActivePerDiscipline
