SPECIFICATION Spec
CONSTANTS
  Student = {a, b}
  Session = {1, 2, 3, 4, 5, 6, 7, 8, 9}
  LabWork = {"lw1", "lw2"}
  Room = {1, 2}
  Stand = {"stand"}
  Discipline = {"d1", "d2"}
  StartsAt <- MCStartsAt
  EndsAt <- MCEndsAt
  LabWorkOf <- MCLabWorkOf
  RoomOf <- MCRoomOf
  StandOf <- MCStandOf
  Capacity <- MCCapacity
  LabWorkCapacity <- MCLabWorkCapacity
  RoomCapacity <- MCRoomCapacity
  Curriculum <- MCCurriculum
  StudentWindow <- MCNoWindow
  StaffWindow <- MCNoWindow
  CancelLead = 1440
  None = None
  BookingId = {1, 2}
  Holiday = {2}
  HorizonDays = 14
  ClosesAt = 900
  OpensAt = 1320
  ManualWorkingWeeks = 2
  UtcOffset = 180
  MaxDay = 14
  Browsing = {a}
  Shown = {"lw1"}
  Clock <- MCClock
  CenterOf <- MCCenterOf
  MonthStart <- MCMonthStart
  WeeksAhead = 4
  CronAt = 360
  Outcomes = {"VISITED"}
  Editable = {2}
  Edits = {"CANCELLED"}
  MaxCalls = 2
  MaxMissed = 1
CHECK_DEADLOCK FALSE

INVARIANTS TypeOK ListedIffBookable ManualListedIffAdmitted OffersLeadOn WindowCovered
