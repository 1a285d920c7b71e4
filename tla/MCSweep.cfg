SPECIFICATION FairSpec
CONSTANTS
  Student = {a}
  Session = {1, 2}
  LabWork = {"lw1", "lw2"}
  Room = {"room"}
  Stand = {"stand"}
  Discipline = {"d1", "d2"}
  StartsAt <- MCStartsAt
  EndsAt <- MCEndsAt
  LabWorkOf <- MCLabWorkOf
  RoomOf <- MCRoomOf
  StandOf <- MCStandOf
  Capacity <- MCCapacity
  LabWorkCapacity <- MCLabWorkCapacity
  RoomCapacity <- MCRoomCapacity
  Curriculum <- MCCurriculum
  StudentWindow <- MCStudentWindow
  StaffWindow <- MCStaffWindow
  CancelLead = 1
  None = None
  Request = {r1, r2}
  BookingId = {1, 2}
  Traffic = {"MANUAL", "CANCEL", "STATUS", "SWEEP", "EDIT"}
  StaffStatuses = {"NO_SHOW"}
  SessionEdits = {"CANCELLED"}
  MaxAttempts = 3
  MaxNow = 3
  MaxNoShows = 1
  MaxCrashes = 1
CHECK_DEADLOCK FALSE

PROPERTIES EndedSessionsClose VisitedOnlyAfterEnd CancelsOnlyBooked
