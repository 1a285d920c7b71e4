SPECIFICATION Spec
CONSTANTS
  LabWork = {1, 2}
  SlotId = {1, 2}
  BookingId = {1}
  Room = {"r1"}
  RoomCapacity <- MCRoomCapacity
  ExcludedRooms = {}
  Title = {"t"}
  Code = {1, 2}
  Seats = {1, 3}
  Duration = {1, 2}
  DefaultDuration = 2
  DefaultSeats = 3
  FormRows <- MCFormRows
  StartTimes <- MCStartTimes
  HorizonDays = 2
  MaxNow = 2
  MaxCalls = 4
  SessionEdits = {"OPEN"}
  Operations = {"GENERATE", "FORM", "DELETE", "DEDUPE", "CANCEL_SESSION", "EDIT"}
  InitialWorks <- MCInitialWorks
  None = None
CHECK_DEADLOCK FALSE
INVARIANTS TypeOK BookingFollowsSlot  
PROPERTY LostOnlyByDelete
