-------------------------------- MODULE LabHead --------------------------------
(*****************************************************************************)
(* The lab head's pages (bookings/views/lab_head.py) over the services of    *)
(* bookings/services/lab_head.py.  A request is not a transaction: binding a *)
(* discipline or a lab work to a laboratory writes the laboratory first,     *)
(* then reads the training centres of all its laboratories, then writes      *)
(* them, and other heads work, or the worker dies, between those steps.      *)
(*****************************************************************************)
EXTENDS AccessScope

CONSTANT WorkersDie     \* whether a worker may die between two steps of a request

ASSUME LabHeadAssumption == WorkersDie \in BOOLEAN

VARIABLES
  binding,    \* what is left to do of each head's request
  schedule,   \* ScheduleEntry rows
  unsynced    \* history: objects whose last binding was disturbed or cut short
headVars == <<binding, schedule, unsynced>>

Object == ({"discipline"} \X Discipline) \cup ({"work"} \X LabWork)
NoRequest == [step |-> "idle"]
Request == [step : {"read", "save"}, object : Object, centers : SUBSET Center,
            room : Room \cup {None}, disciplines : SUBSET Discipline]
ScheduleRow == [work : LabWork, room : Room, teacher : Staff \cup {None}, by : Staff]

LabHeadTypeOK ==
  /\ binding \in [Staff -> Request \cup {NoRequest}]
  /\ schedule \subseteq ScheduleRow
  /\ unsynced \subseteq Object

LabsOf(object) == IF object[1] = "work" THEN work[object[2]].laboratories
                  ELSE discipline[object[2]].laboratories
CentersOf(object) == IF object[1] = "work" THEN work[object[2]].centers
                     ELSE discipline[object[2]].centers
CentersOfLabs(object) == {CenterOfLab[l] : l \in LabsOf(object)}

(* LabHeadRequiredMixin; a head waits for one answer before the next page.   *)
Serves(u) == IsLabHead(u) /\ binding[u].step = "idle"

Busy(object) == \E u \in Staff : binding[u].step # "idle" /\ binding[u].object = object

(* The laboratories of object are about to be synchronised by u.             *)
Begin(u, object, room_, disciplines) ==
  /\ binding' = [binding EXCEPT ![u] = [step |-> "read", object |-> object, centers |-> {},
                                        room |-> room_, disciplines |-> disciplines]]
  /\ unsynced' = IF Busy(object) THEN unsynced \cup {object} ELSE unsynced \ {object}

-------------------------------------------------------------------------------
(* Bindings                                                                  *)

BindDiscipline(u, d) ==
  /\ Serves(u)
  /\ d \in BindableDisciplines(u)
  /\ discipline' = [discipline EXCEPT ![d].laboratories = @ \cup {StaffLaboratory(u)}]
  /\ Begin(u, <<"discipline", d>>, None, {})
  /\ UNCHANGED <<profile, work, room, stand, folder, group, booking, schedule>>

UnbindDiscipline(u, d) ==
  /\ Serves(u)
  /\ d \in ManagedDisciplines(u)
  /\ StaffLaboratory(u) # None
  /\ discipline' = [discipline EXCEPT ![d].laboratories = @ \ {StaffLaboratory(u)}]
  /\ Begin(u, <<"discipline", d>>, None, {})
  /\ UNCHANGED <<profile, work, room, stand, folder, group, booking, schedule>>

BindWork(u, w) ==
  /\ Serves(u)
  /\ w \in BindableWorks(u)
  /\ work' = [work EXCEPT ![w].laboratories = @ \cup {StaffLaboratory(u)}]
  /\ Begin(u, <<"work", w>>, None, {})
  /\ UNCHANGED <<profile, discipline, room, stand, folder, group, booking, schedule>>

UnbindWork(u, w) ==
  /\ Serves(u)
  /\ w \in ManagedWorks(u)
  /\ StaffLaboratory(u) # None
  /\ work' = [work EXCEPT ![w].laboratories = @ \ {StaffLaboratory(u)}]
  /\ Begin(u, <<"work", w>>, None, {})
  /\ UNCHANGED <<profile, discipline, room, stand, folder, group, booking, schedule>>

(* Mutated form of ReadCenters: only the centre of the head's laboratory.    *)
ReadOwnCenter(u) ==
  /\ binding[u].step = "read"
  /\ binding' = [binding EXCEPT ![u].step = "save",
                                ![u].centers = {StaffCenter(u)} \cap CentersOfLabs(binding[u].object)]
  /\ UNCHANGED <<catalogue, schedule, unsynced>>

(* sync_training_centers_for_laboratories: the query, then the set().        *)
ReadCenters(u) ==
  /\ binding[u].step = "read"
  /\ binding' = [binding EXCEPT ![u] =
                   [@ EXCEPT !.step = "save", !.centers = CentersOfLabs(binding[u].object)]]
  /\ UNCHANGED <<catalogue, schedule, unsynced>>

(* Saving a lab work ends with its disciplines added to its room's; a lab    *)
(* work deleted meanwhile takes nothing.                                     *)
SaveCenters(u) ==
  LET request == binding[u]  id == request.object[2]
  IN /\ request.step = "save"
     /\ IF request.object[1] = "work"
        THEN /\ work' = IF id \in Works THEN [work EXCEPT ![id].centers = request.centers] ELSE work
             /\ room' = IF request.room # None /\ id \in Works
                        THEN [room EXCEPT ![request.room].disciplines = @ \cup request.disciplines]
                        ELSE room
             /\ UNCHANGED discipline
        ELSE /\ discipline' = [discipline EXCEPT ![id].centers = request.centers]
             /\ UNCHANGED <<work, room>>
     /\ binding' = [binding EXCEPT ![u] = NoRequest]
     /\ UNCHANGED <<profile, stand, folder, group, booking, schedule, unsynced>>

(* The worker dies between two steps; nothing undoes what it has written.    *)
Abandon(u) ==
  /\ WorkersDie
  /\ binding[u].step # "idle"
  /\ binding' = [binding EXCEPT ![u] = NoRequest]
  /\ unsynced' = unsynced \cup {binding[u].object}
  /\ UNCHANGED <<catalogue, schedule>>

-------------------------------------------------------------------------------
(* Lab works                                                                 *)

(* What the page offers to choose from, and what the service accepts of it.  *)
WorkChoices(u) ==
  [disciplines : SUBSET ManagedDisciplines(u), laboratory : LabHeadLaboratories(u),
   room : LabHeadRooms(u) \cup {None}, stand : LabHeadStands(u) \cup {None}]
WorkForm(u) ==
  {form \in WorkChoices(u) :
     /\ form.disciplines # {}
     /\ form.room # None => CenterOfRoom[form.room] = CenterOfLab[form.laboratory]
     /\ form.stand # None => CenterOfStand[form.stand] = CenterOfLab[form.laboratory]}

(* lab_head_update_lab_work: the form's disciplines and its one laboratory   *)
(* replace whatever the lab work had.                                        *)
SaveWork(u, w, form, published) ==
  /\ form \in WorkForm(u)
  /\ work' = [work EXCEPT ![w] =
       [status |-> "LIVE", disciplines |-> form.disciplines, laboratories |-> {form.laboratory},
        centers |-> @.centers, published |-> published, room |-> form.room, stand |-> form.stand]]
  /\ Begin(u, <<"work", w>>, form.room, form.disciplines)
  /\ UNCHANGED <<profile, discipline, room, stand, folder, group, booking, schedule>>

UpdateWork(u, w, form, published) ==
  /\ Serves(u)
  /\ w \in ManagedWorks(u)
  /\ SaveWork(u, w, form, published)

(* lab_head_create_lab_work: an empty row, saved as an edited one is.        *)
SaveNewWork(u, w, form) == work[w].status = "NEW" /\ SaveWork(u, w, form, TRUE)
CreateWork(u, w, form) == Serves(u) /\ SaveNewWork(u, w, form)

(* Refused while a booking is active; the cancelled ones go with the work,   *)
(* and so do its sessions, its schedule entries and its curriculum rows.     *)
RemoveWork(u, w) ==
  /\ w \in ManagedWorks(u)
  /\ \A b \in DOMAIN booking : booking[b].work = w => booking[b].status = "CANCELLED"
  /\ work' = [work EXCEPT ![w] = [@ EXCEPT !.status = "DELETED", !.disciplines = {},
                                           !.laboratories = {}, !.centers = {}]]
  /\ booking' = [b \in {x \in DOMAIN booking : booking[x].work # w} |-> booking[b]]
  /\ group' = [g \in Group |-> [group[g] EXCEPT !.works = @ \ {w}]]
  /\ schedule' = {e \in schedule : e.work # w}
  /\ UNCHANGED <<profile, discipline, room, stand, folder, binding, unsynced>>
DeleteWork(u, w) == Serves(u) /\ RemoveWork(u, w)

-------------------------------------------------------------------------------
(* Rooms, stands, folders, the schedule and people: a page, then the service *)

(* The disciplines other heads gave the room are not in the form.            *)
SaveRoom(u, r, lab, disciplines) ==
  /\ r \in LabHeadRooms(u)
  /\ lab \in LabHeadLaboratories(u) \cup {None}
  /\ disciplines \subseteq ManagedDisciplines(u)
  /\ room' = [room EXCEPT ![r] = [laboratory |-> lab, disciplines |-> disciplines]]
  /\ UNCHANGED <<profile, discipline, work, stand, folder, group, booking, headVars>>
UpdateRoom(u, r, lab, disciplines) == Serves(u) /\ SaveRoom(u, r, lab, disciplines)

CreateStand(u, s, r) ==
  /\ Serves(u)
  /\ ~stand[s].exists /\ CenterOfStand[s] = StaffCenter(u)
  /\ r \in LabHeadRooms(u)
  /\ stand' = [stand EXCEPT ![s] = [exists |-> TRUE, room |-> r]]
  /\ UNCHANGED <<profile, discipline, work, room, folder, group, booking, headVars>>

SaveStand(u, s, r) ==
  /\ s \in LabHeadStands(u)
  /\ r \in LabHeadRooms(u)
  /\ stand' = [stand EXCEPT ![s].room = r]
  /\ UNCHANGED <<profile, discipline, work, room, folder, group, booking, headVars>>
UpdateStand(u, s, r) == Serves(u) /\ SaveStand(u, s, r)

RemoveStand(u, s) ==
  /\ s \in LabHeadStands(u)
  /\ stand' = [stand EXCEPT ![s] = [exists |-> FALSE, room |-> None]]
  /\ work' = [w \in LabWork |-> [work[w] EXCEPT !.stand = IF @ = s THEN None ELSE @]]
  /\ UNCHANGED <<profile, discipline, room, folder, group, booking, headVars>>
DeleteStand(u, s) == Serves(u) /\ RemoveStand(u, s)

(* get_or_create by title: a folder without a faculty takes the head's.      *)
SaveFolder(u, f) ==
  LET own == IF StaffLaboratory(u) = None THEN None ELSE FacultyOfLab[StaffLaboratory(u)]
  IN /\ folder' = [folder EXCEPT ![f] =
          [exists |-> TRUE,
           faculty |-> IF @.exists /\ @.faculty # None THEN @.faculty ELSE own]]
     /\ UNCHANGED <<profile, discipline, work, room, stand, group, booking, headVars>>
CreateFolder(u, f) == Serves(u) /\ SaveFolder(u, f)

(* Mutated form of RemoveFolder: its disciplines keep it.                    *)
DropFolder(u, f) ==
  /\ f \in LabHeadFolders(u)
  /\ folder' = [folder EXCEPT ![f] = [exists |-> FALSE, faculty |-> None]]
  /\ UNCHANGED <<profile, discipline, work, room, stand, group, booking, headVars>>

RemoveFolder(u, f) ==
  /\ f \in LabHeadFolders(u)
  /\ folder' = [folder EXCEPT ![f] = [exists |-> FALSE, faculty |-> None]]
  /\ discipline' = [d \in Discipline |-> [discipline[d] EXCEPT !.folder = IF @ = f THEN None ELSE @]]
  /\ UNCHANGED <<profile, work, room, stand, group, booking, headVars>>
DeleteFolder(u, f) == Serves(u) /\ RemoveFolder(u, f)

MoveToFolder(u, d, f) ==
  /\ d \in ManagedDisciplines(u)
  /\ f \in LabHeadFolders(u) \cup {None}
  /\ discipline' = [discipline EXCEPT ![d].folder = f]
  /\ UNCHANGED <<profile, work, room, stand, folder, group, booking, headVars>>
AssignFolder(u, d, f) == Serves(u) /\ MoveToFolder(u, d, f)

AddScheduleEntry(u, w, r, t) ==
  /\ Serves(u)
  /\ w \in ManagedWorks(u)
  /\ r \in LabHeadRooms(u)
  /\ t \in LabHeadTeachers(u) \cup {None}
  /\ schedule' = schedule \cup {[work |-> w, room |-> r, teacher |-> t, by |-> u]}
  /\ UNCHANGED <<catalogue, binding, unsynced>>

(* A person of another laboratory is taken over without asking its head.     *)
TakePerson(u, p) ==
  /\ p \in BindablePeople(u)
  /\ profile' = [profile EXCEPT ![p] =
       [laboratory |-> IF StaffLaboratory(u) # None THEN StaffLaboratory(u) ELSE @.laboratory,
        center |-> StaffCenter(u), disciplines |-> @.disciplines]]
  /\ UNCHANGED <<discipline, work, room, stand, folder, group, booking, headVars>>
BindPerson(u, p) == Serves(u) /\ TakePerson(u, p)

SetPersonDisciplines(u, p, disciplines) ==
  /\ Serves(u)
  /\ p \in StaffPeople(u)
  /\ disciplines \subseteq ManagedDisciplines(u)
  /\ profile' = [profile EXCEPT ![p].disciplines = disciplines]
  /\ UNCHANGED <<discipline, work, room, stand, folder, group, booking, headVars>>

-------------------------------------------------------------------------------
HeadRequest ==
  \E u \in Staff :
    \/ \E d \in Discipline : BindDiscipline(u, d) \/ UnbindDiscipline(u, d)
    \/ \E w \in LabWork : BindWork(u, w) \/ UnbindWork(u, w) \/ DeleteWork(u, w)
    \/ \E form \in WorkForm(u), w \in LabWork :
         (\E published \in BOOLEAN : UpdateWork(u, w, form, published)) \/ CreateWork(u, w, form)
    \/ \E r \in Room, lab \in Laboratory \cup {None}, ds \in SUBSET Discipline : UpdateRoom(u, r, lab, ds)
    \/ \E s \in Stand, r \in Room : CreateStand(u, s, r) \/ UpdateStand(u, s, r)
    \/ \E s \in Stand : DeleteStand(u, s)
    \/ \E f \in Folder : CreateFolder(u, f) \/ DeleteFolder(u, f)
    \/ \E d \in Discipline, f \in Folder \cup {None} : AssignFolder(u, d, f)
    \/ \E w \in LabWork, r \in Room, t \in Staff \cup {None} : AddScheduleEntry(u, w, r, t)
    \/ \E p \in Staff : BindPerson(u, p) \/ (\E ds \in SUBSET Discipline : SetPersonDisciplines(u, p, ds))

Continue == \E u \in Staff : ReadCenters(u) \/ SaveCenters(u) \/ Abandon(u)

-------------------------------------------------------------------------------
(* The training centres of a discipline or a lab work, by which people       *)
(* without a laboratory and students' support pages find it, are those of    *)
(* its laboratories, whatever heads of several centres do, unless its last   *)
(* binding overlapped with another or was cut short; the next undisturbed    *)
(* binding repairs it.                                                       *)
CentersFollowLabs ==
  \A object \in Object :
    object \in unsynced \/ Busy(object) \/ CentersOf(object) = CentersOfLabs(object)

(* A stand stands in a room of its training centre, a room belongs to a      *)
(* laboratory of its own, and a lab work never asks for a room and a stand   *)
(* of two centres: heads of several centres edit them in turn, and the       *)
(* booking locks assume that a stand's sessions share a site.                *)
EquipmentInOneCenter ==
  /\ \A s \in Stands : CenterOfRoom[stand[s].room] = CenterOfStand[s]
  /\ \A r \in Room : room[r].laboratory # None => CenterOfLab[room[r].laboratory] = CenterOfRoom[r]
  /\ \A w \in Works : work[w].room # None /\ work[w].stand # None =>
                        CenterOfRoom[work[w].room] = CenterOfStand[work[w].stand]
================================================================================
