-------------------------------- MODULE Campus --------------------------------
(*****************************************************************************)
(* Lab heads, staff, students and the support desk over one catalogue: every *)
(* page decides what its user sees from rows that others are editing.        *)
(*****************************************************************************)
EXTENDS Pages, SupportDesk

CONSTANTS
  StartProfile, StartDiscipline, StartWork, StartGroup,   \* the first catalogue
  MaxWork, CatalogueWork, SupportWork   \* bounds: the work of a run, and what a request about
                                        \* the catalogue or a booking, or a ticket's, takes of it

ASSUME CampusAssumption ==
  /\ MaxWork \in Nat /\ CatalogueWork \in Nat /\ SupportWork \in Nat
  /\ StartProfile \in [Staff -> ProfileRow]
  /\ StartDiscipline \in [Discipline -> DisciplineRow]
  /\ StartWork \in [LabWork -> WorkRow]
  /\ StartGroup \in [Group -> GroupRow]
  /\ \A d \in Discipline :
       /\ StartDiscipline[d].folder = None
       /\ StartDiscipline[d].centers = {CenterOfLab[l] : l \in StartDiscipline[d].laboratories}
  /\ \A w \in LabWork :
       /\ StartWork[w].stand = None
       /\ StartWork[w].centers = {CenterOfLab[l] : l \in StartWork[w].laboratories}
       /\ StartWork[w].status # "LIVE" => StartWork[w].laboratories = {}

VARIABLE workDone      \* the requests so far (bound)
vars == <<catalogue, headVars, supportVars, workDone>>

TypeOK ==
  /\ profile \in [Staff -> ProfileRow]
  /\ discipline \in [Discipline -> DisciplineRow]
  /\ work \in [LabWork -> WorkRow]
  /\ room \in [Room -> RoomRow]
  /\ stand \in [Stand -> StandRow]
  /\ \A s \in Stand : stand[s].exists <=> stand[s].room # None
  /\ folder \in [Folder -> FolderRow]
  /\ \A f \in Folder : folder[f].faculty # None => folder[f].exists
  /\ \A d \in Discipline : discipline[d].folder # None => folder[discipline[d].folder].exists
  /\ group \in [Group -> GroupRow]
  /\ \A b \in DOMAIN booking : booking[b] \in BookingRow /\ booking[b].work \in Works
  /\ LabHeadTypeOK
  /\ SupportTypeOK

(* Rooms and stands are not yet given to anybody.                            *)
Init ==
  /\ profile = StartProfile
  /\ discipline = StartDiscipline
  /\ work = StartWork
  /\ room = [r \in Room |-> [laboratory |-> None, disciplines |-> {}]]
  /\ stand = [s \in Stand |-> [exists |-> FALSE, room |-> None]]
  /\ folder = [f \in Folder |-> [exists |-> FALSE, faculty |-> None]]
  /\ group = StartGroup
  /\ booking = <<>>
  /\ binding = [u \in Staff |-> NoRequest] /\ schedule = {} /\ unsynced = {}
  /\ SupportInit
  /\ workDone = 0

Within(cost) == workDone + cost <= MaxWork /\ workDone' = workDone + cost     \* bound

Next ==
  \/ Within(CatalogueWork) /\ HeadRequest /\ UNCHANGED supportVars
  \/ Within(CatalogueWork) /\ DeskRequest /\ UNCHANGED <<headVars, supportVars>>
  \/ Within(SupportWork) /\ SupportRequest /\ UNCHANGED <<catalogue, headVars>>
  \/ Continue /\ UNCHANGED <<supportVars, workDone>>
  \/ SupportContinue /\ UNCHANGED <<catalogue, headVars, workDone>>

Spec == Init /\ [][Next]_vars
================================================================================
