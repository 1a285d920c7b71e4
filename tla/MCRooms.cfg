SPECIFICATION Spec
CONSTANTS
  Student = {a, b, c}
  Session = {1, 2, 3}
  LabWork = {"lw1", "lw2"}
  Room = {"room"}
  Stand = {"stand"}
  Discipline = {"d1", "d2"}
  StartsAt <- MCStartsAt
  EndsAt <- MCEndsAt
  LabWorkOf <- MCLabWorkOf
  RoomOf <- MCRoomOf
  StandOf <- MCStandOf
  Capacity <- MCCapacity
  LabWorkCapacity <- MCLabWorkCapacity
  RoomCapacity <- MCRoomCapacity
  Curriculum <- MCCurriculum
  StudentWindow <- MCWindow
  StaffWindow <- MCWindow
  CancelLead = 2
  None = None
  Request = {r1, r2}
  BookingId = {1, 2, 3}
  Traffic = {"AUTO", "MANUAL", "CANCEL"}
  StaffStatuses = {}
  SessionEdits = {}
  MaxAttempts = 2
  MaxNow = 0
  MaxNoShows = 0
  MaxCrashes = 0
SYMMETRY MCSymmetry
CHECK_DEADLOCK FALSE
INVARIANTS TypeOK RoomNeverOverfull AutoWithinCapacity
