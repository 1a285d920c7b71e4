------------------------------ MODULE AccessScope ------------------------------
(*****************************************************************************)
(* Who sees what: the querysets of academics/querysets.py and the filters of *)
(* bookings/services/booking.py, over the catalogue rows they read.          *)
(* A role decides which filter applies; what a filter lets through depends   *)
(* on the bindings lab heads and imports write while people work.            *)
(*****************************************************************************)
EXTENDS Naturals, FiniteSets

CONSTANTS
  Staff, RoleOf,               \* staff accounts and their roles
  Student, GroupOf,            \* students and the group resolve_student_group finds
  Group, Laboratory, Center, CenterOfLab, FacultyOfLab,
  Room, CenterOfRoom, Stand, CenterOfStand,
  Discipline, ActiveSemester,  \* disciplines, those of the active semester
  LabWork, Folder,             \* lab works; departments, shown as folders
  Session, SessionWork, SessionRoom,
  None

Roles == {"LAB_ADMIN", "LAB_HEAD", "TEACHER", "SYS_ADMIN"}

ASSUME ScopeAssumption ==
  /\ RoleOf \in [Staff -> Roles]
  /\ GroupOf \in [Student -> Group \cup {None}]
  /\ CenterOfLab \in [Laboratory -> Center] /\ CenterOfRoom \in [Room -> Center]
  /\ CenterOfStand \in [Stand -> Center]
  /\ ActiveSemester \subseteq Discipline
  /\ SessionWork \in [Session -> LabWork] /\ SessionRoom \in [Session -> Room]
  /\ Laboratory \subseteq Nat   \* numbered in the order of their names
  /\ \A here \in SUBSET Laboratory : here # {} => \E l \in here : \A m \in here : l <= m
  /\ None \notin Laboratory /\ None \notin Room /\ None \notin Folder

VARIABLES
  profile,      \* UserProfile of staff: laboratory, training centre, disciplines
  discipline,   \* laboratories, training centres, published, folder
  work,         \* LabWork: whether it exists, disciplines, laboratories, training centres, room, stand
  room,         \* laboratory, disciplines
  stand,        \* Stand: whether it exists, its room
  folder,       \* Department: whether it exists, its faculty
  group,        \* StudentGroup: disciplines and lab works of the curriculum
  booking       \* the bookings made
catalogue == <<profile, discipline, work, room, stand, folder, group, booking>>

ProfileRow == [laboratory : Laboratory \cup {None}, center : Center \cup {None},
               disciplines : SUBSET Discipline]
DisciplineRow == [laboratories : SUBSET Laboratory, centers : SUBSET Center,
                  published : BOOLEAN, folder : Folder \cup {None}]
WorkRow == [status : {"NEW", "LIVE", "DELETED"}, disciplines : SUBSET Discipline,
            laboratories : SUBSET Laboratory, centers : SUBSET Center, published : BOOLEAN,
            room : Room \cup {None}, stand : Stand \cup {None}]
StandRow == [exists : BOOLEAN, room : Room \cup {None}]
FolderRow == [exists : BOOLEAN, faculty : {FacultyOfLab[l] : l \in Laboratory} \cup {None}]
RoomRow == [laboratory : Laboratory \cup {None}, disciplines : SUBSET Discipline]
GroupRow == [disciplines : SUBSET Discipline, works : SUBSET LabWork]
BookingRow == [student : Student, work : LabWork, discipline : Discipline, room : Room,
               status : {"BOOKED", "VISITED", "NO_SHOW", "REACCESS", "CANCELLED"},
               by : Staff \cup Student, via : {"WEB", "API"}]

Works == {w \in LabWork : work[w].status = "LIVE"}
Sessions == {s \in Session : SessionWork[s] \in Works}
Stands == {s \in Stand : stand[s].exists}
Folders == {f \in Folder : folder[f].exists}

-------------------------------------------------------------------------------
(* Students                                                                  *)

PublishedDisciplines == {d \in ActiveSemester : discipline[d].published}

(* Published and of an active semester, through any of its disciplines.      *)
PublishedWorks ==
  {w \in Works : work[w].published /\ work[w].disciplines \cap ActiveSemester # {}}

StudentDisciplines(st) ==
  {d \in PublishedDisciplines : GroupOf[st] # None /\ d \in group[GroupOf[st]].disciplines}

(* A group with lab works of its own is shown those, another the lab works   *)
(* of its disciplines.                                                       *)
StudentWorks(st) ==
  {w \in PublishedWorks :
     /\ GroupOf[st] # None
     /\ IF group[GroupOf[st]].works # {}
        THEN w \in group[GroupOf[st]].works
        ELSE work[w].disciplines \cap group[GroupOf[st]].disciplines # {}}

(* Mutated form of StudentSupportCenters: only the disciplines' centres.      *)
DisciplineCenters(st) == UNION {discipline[d].centers : d \in StudentDisciplines(st)}

StudentSupportCenters(st) ==
  UNION ({discipline[d].centers : d \in StudentDisciplines(st)}
           \cup {work[w].centers : w \in StudentWorks(st)})

StudentRooms(st) ==
  {r \in Room :
     /\ CenterOfRoom[r] \in StudentSupportCenters(st)
     /\ \/ \E w \in StudentWorks(st) : work[w].room = r
        \/ room[r].disciplines \cap StudentDisciplines(st) # {}}

-------------------------------------------------------------------------------
(* Staff                                                                     *)

IsStaff(u) == u \in Staff
CanModifyBookings(u) == RoleOf[u] \in {"LAB_ADMIN", "LAB_HEAD", "SYS_ADMIN"}

StaffCenter(u) ==
  IF profile[u].laboratory # None THEN CenterOfLab[profile[u].laboratory] ELSE profile[u].center

(* The laboratory of the profile, else the first by name of its centre.      *)
StaffLaboratory(u) ==
  LET here == {l \in Laboratory : CenterOfLab[l] = profile[u].center}
  IN IF profile[u].laboratory # None THEN profile[u].laboratory
     ELSE IF here = {} THEN None ELSE CHOOSE l \in here : \A m \in here : l <= m

(* The rows of a table with laboratories and training centres that u sees.   *)
Scoped(u, rows, labs(_), centers(_)) ==
  {x \in rows :
     \/ RoleOf[u] = "SYS_ADMIN"
     \/ IF StaffLaboratory(u) # None THEN StaffLaboratory(u) \in labs(x)
        ELSE StaffCenter(u) \in centers(x)}

LabsOfDiscipline(d) == discipline[d].laboratories
CentersOfDiscipline(d) == discipline[d].centers
LabsOfWork(w) == work[w].laboratories
CentersOfWork(w) == work[w].centers

ManagedDisciplines(u) == Scoped(u, Discipline, LabsOfDiscipline, CentersOfDiscipline)
ManagedWorks(u) == Scoped(u, Works, LabsOfWork, CentersOfWork)
StaffDisciplines(u) == Scoped(u, PublishedDisciplines, LabsOfDiscipline, CentersOfDiscipline)
StaffWorks(u) == Scoped(u, PublishedWorks, LabsOfWork, CentersOfWork)

StaffPeople(u) ==
  LET people == {p \in Staff : RoleOf[p] \in {"LAB_ADMIN", "TEACHER"}}
  IN {p \in people :
        \/ RoleOf[u] = "SYS_ADMIN"
        \/ IF StaffLaboratory(u) # None THEN profile[p].laboratory = StaffLaboratory(u)
           ELSE profile[p].center = StaffCenter(u) /\ StaffCenter(u) # None}

(* staff_lab_filter by room: the rooms of one's laboratory, and those of its *)
(* centre that no laboratory has; without a laboratory, the whole centre.    *)
InLabRoom(u, r) ==
  \/ RoleOf[u] = "SYS_ADMIN"
  \/ IF profile[u].laboratory # None
     THEN \/ room[r].laboratory = profile[u].laboratory
          \/ room[r].laboratory = None /\ CenterOfRoom[r] = StaffCenter(u)
     ELSE CenterOfRoom[r] = profile[u].center

(* staff_lab_filter by training centre alone (tickets, stands).              *)
InLabCenter(u, c) == RoleOf[u] = "SYS_ADMIN" \/ (c = StaffCenter(u) /\ c # None)

StaffSessions(u) == {s \in Sessions : InLabRoom(u, SessionRoom[s])}
StaffRooms(u) == {r \in Room : InLabRoom(u, r)}
StaffStands(u) == {s \in Stands : InLabCenter(u, CenterOfStand[s])}

(* Mutated form of StaffBookings: the room alone decides.                    *)
BookingsInRooms(u) == {b \in DOMAIN booking : InLabRoom(u, booking[b].room)}

(* staff_booking_filter: by the room, and for staff with a laboratory also   *)
(* by what the lab work or the discipline is bound to.                       *)
StaffBookings(u) ==
  {b \in DOMAIN booking :
     \/ InLabRoom(u, booking[b].room)
     \/ /\ RoleOf[u] # "SYS_ADMIN" /\ profile[u].laboratory # None
        /\ \/ profile[u].laboratory \in work[booking[b].work].laboratories
           \/ profile[u].laboratory \in discipline[booking[b].discipline].laboratories}

StaffStudents(u) ==
  {st \in Student :
     \/ RoleOf[u] = "SYS_ADMIN"
     \/ /\ ManagedDisciplines(u) # {}
        /\ \/ /\ GroupOf[st] # None
              /\ \/ group[GroupOf[st]].disciplines \cap ManagedDisciplines(u) # {}
                 \/ \E w \in group[GroupOf[st]].works \cap Works :
                      work[w].disciplines \cap ManagedDisciplines(u) # {}
           \/ \E b \in StaffBookings(u) : booking[b].student = st}

-------------------------------------------------------------------------------
(* Lab heads                                                                 *)

IsLabHead(u) == RoleOf[u] = "LAB_HEAD" /\ StaffCenter(u) # None

BindableDisciplines(u) ==
  {d \in ActiveSemester : /\ StaffLaboratory(u) # None
                          /\ StaffLaboratory(u) \notin discipline[d].laboratories}
BindableWorks(u) ==
  {w \in Works : /\ StaffLaboratory(u) # None
                 /\ work[w].disciplines \cap ManagedDisciplines(u) # {}
                 /\ StaffLaboratory(u) \notin work[w].laboratories}
BindablePeople(u) == {p \in Staff : RoleOf[p] \in {"LAB_ADMIN", "TEACHER"}} \ StaffPeople(u)

(* Mutated form of LabHeadRooms: the rooms of every centre.                  *)
RoomsAnywhere(u) == {r \in Room : StaffCenter(u) # None}

LabHeadRooms(u) == {r \in Room : CenterOfRoom[r] = StaffCenter(u)}
LabHeadStands(u) == {s \in Stands : CenterOfStand[s] = StaffCenter(u)}
LabHeadLaboratories(u) == {l \in Laboratory : CenterOfLab[l] = StaffCenter(u)}
LabHeadFolders(u) ==
  {f \in Folders : \/ StaffLaboratory(u) = None
                   \/ FacultyOfLab[StaffLaboratory(u)] = None
                   \/ folder[f].faculty \in {FacultyOfLab[StaffLaboratory(u)], None}}
LabHeadTeachers(u) ==
  {t \in Staff : /\ RoleOf[t] = "TEACHER"
                 /\ IF StaffLaboratory(u) # None
                    THEN profile[t].laboratory = StaffLaboratory(u)
                    ELSE profile[t].center = StaffCenter(u)}
================================================================================
