------------------------------ MODULE CampusProofs ------------------------------
(*****************************************************************************)
(* Proofs about Campus for any number of laboratories, centres, users, lab   *)
(* works and tickets: types, the training centres that follow laboratories,  *)
(* equipment in one centre, the status of a ticket, and what the pages show. *)
(*****************************************************************************)
EXTENDS Campus, FiniteSetTheorems, WellFoundedInduction, TLAPS

-------------------------------------------------------------------------------
(* Types                                                                     *)

CatalogueOK ==
  /\ profile \in [Staff -> ProfileRow]
  /\ discipline \in [Discipline -> DisciplineRow]
  /\ work \in [LabWork -> WorkRow]
  /\ room \in [Room -> RoomRow]
  /\ group \in [Group -> GroupRow]

ToolsOK ==
  /\ stand \in [Stand -> StandRow]
  /\ \A s \in Stand : stand[s].exists <=> stand[s].room # None
  /\ folder \in [Folder -> FolderRow]
  /\ \A f \in Folder : folder[f].faculty # None => folder[f].exists
  /\ \A d \in Discipline : discipline[d].folder # None => folder[discipline[d].folder].exists

BookingsOK == \A b \in DOMAIN booking : booking[b] \in BookingRow /\ booking[b].work \in Works

LEMMA TypeParts ==
  TypeOK <=> CatalogueOK /\ ToolsOK /\ BookingsOK /\ LabHeadTypeOK /\ SupportTypeOK
BY DEF TypeOK, CatalogueOK, ToolsOK, BookingsOK

(* What a user's queries return lies in the tables.                          *)
LEMMA StaffTypes ==
  ASSUME profile \in [Staff -> ProfileRow], NEW u \in Staff
  PROVE  /\ StaffCenter(u) \in Center \cup {None}
         /\ StaffLaboratory(u) \in Laboratory \cup {None}
         /\ StaffLaboratory(u) # None => CenterOfLab[StaffLaboratory(u)] = StaffCenter(u)
<1>1. profile[u].laboratory \in Laboratory \cup {None} /\ profile[u].center \in Center \cup {None}
  BY DEF ProfileRow
<1>2. StaffCenter(u) \in Center \cup {None}
  BY <1>1, ScopeAssumption DEF StaffCenter
<1> DEFINE here == {l \in Laboratory : CenterOfLab[l] = profile[u].center}
<1>3. CASE profile[u].laboratory # None
  BY <1>1, <1>2, <1>3 DEF StaffLaboratory, StaffCenter
<1>4. CASE profile[u].laboratory = None /\ here # {}
  <2>1. \E l \in here : \A m \in here : l <= m
    BY <1>4, ScopeAssumption
  <2>2. StaffLaboratory(u) = CHOOSE l \in here : \A m \in here : l <= m
    BY <1>4 DEF StaffLaboratory
  <2> QED BY <1>2, <1>4, <2>1, <2>2 DEF StaffCenter
<1>5. CASE profile[u].laboratory = None /\ here = {}
  BY <1>2, <1>5 DEF StaffLaboratory
<1> QED BY <1>3, <1>4, <1>5

LEMMA ScopeTypes ==
  ASSUME NEW u \in Staff
  PROVE  /\ ManagedDisciplines(u) \subseteq Discipline
         /\ ManagedWorks(u) \subseteq Works
         /\ StaffDisciplines(u) \subseteq Discipline
<1>1. ManagedDisciplines(u) \subseteq Discipline
  BY DEF ManagedDisciplines, Scoped
<1>2. ManagedWorks(u) \subseteq Works
  BY DEF ManagedWorks, Scoped
<1>3. StaffDisciplines(u) \subseteq Discipline
  BY ScopeAssumption DEF StaffDisciplines, Scoped, PublishedDisciplines
<1> QED BY <1>1, <1>2, <1>3

(* A request that leaves the other tables alone keeps their types.           *)
LEMMA CatalogueUnchanged ==
  ASSUME CatalogueOK, ToolsOK, BookingsOK, UNCHANGED catalogue
  PROVE  CatalogueOK' /\ ToolsOK' /\ BookingsOK'
BY DEF CatalogueOK, ToolsOK, BookingsOK, catalogue, Works

LEMMA BeginTypes ==
  ASSUME LabHeadTypeOK, NEW u \in Staff, NEW object \in Object, NEW r \in Room \cup {None},
         NEW ds \in SUBSET Discipline, Begin(u, object, r, ds), UNCHANGED schedule
  PROVE  LabHeadTypeOK'
<1>1. [step |-> "read", object |-> object, centers |-> {}, room |-> r, disciplines |-> ds] \in Request
  BY DEF Request
<1>2. binding' \in [Staff -> Request \cup {NoRequest}]
  BY <1>1 DEF LabHeadTypeOK, Begin
<1>3. unsynced' \subseteq Object
  BY DEF LabHeadTypeOK, Begin
<1> QED BY <1>2, <1>3 DEF LabHeadTypeOK

HeadOK == CatalogueOK /\ ToolsOK /\ BookingsOK /\ LabHeadTypeOK

(* One row of the disciplines or of the lab works is written.                *)
LEMMA DisciplineSaved ==
  ASSUME HeadOK, NEW d \in Discipline, NEW row \in DisciplineRow, row.folder = discipline[d].folder,
         discipline' = [discipline EXCEPT ![d] = row],
         UNCHANGED <<profile, work, room, stand, folder, group, booking>>
  PROVE  CatalogueOK' /\ ToolsOK' /\ BookingsOK'
<1>1. discipline \in [Discipline -> DisciplineRow]
  BY DEF HeadOK, CatalogueOK
<1>2. discipline' \in [Discipline -> DisciplineRow]
  BY <1>1
<1>3. \A e \in Discipline : discipline'[e].folder = discipline[e].folder
  BY <1>1
<1> QED BY <1>2, <1>3 DEF HeadOK, CatalogueOK, ToolsOK, BookingsOK, Works

LEMMA WorkSaved ==
  ASSUME HeadOK, NEW w \in LabWork, NEW row \in WorkRow, row.status = "LIVE",
         work' = [work EXCEPT ![w] = row],
         UNCHANGED <<profile, discipline, stand, folder, group, booking>>,
         room' \in [Room -> RoomRow]
  PROVE  CatalogueOK' /\ ToolsOK' /\ BookingsOK'
<1>1. work \in [LabWork -> WorkRow]
  BY DEF HeadOK, CatalogueOK
<1>2. work' \in [LabWork -> WorkRow] /\ Works \subseteq Works'
  BY <1>1 DEF Works
<1> QED BY <1>2 DEF HeadOK, CatalogueOK, ToolsOK, BookingsOK

(* The columns a binding writes.                                             *)
WithLabs(row, labs) == [row EXCEPT !.laboratories = labs]

LEMMA DisciplineRelabelled ==
  ASSUME NEW row \in DisciplineRow, NEW labs \in SUBSET Laboratory
  PROVE  /\ WithLabs(row, labs) \in DisciplineRow
         /\ WithLabs(row, labs).folder = row.folder
         /\ WithLabs(row, labs).laboratories = labs
         /\ WithLabs(row, labs).centers = row.centers
BY DEF DisciplineRow, WithLabs

LEMMA WorkRelabelled ==
  ASSUME NEW row \in WorkRow, NEW labs \in SUBSET Laboratory
  PROVE  /\ WithLabs(row, labs) \in WorkRow
         /\ WithLabs(row, labs).status = row.status
         /\ WithLabs(row, labs).laboratories = labs
         /\ WithLabs(row, labs).centers = row.centers
         /\ WithLabs(row, labs).room = row.room /\ WithLabs(row, labs).stand = row.stand
BY DEF WorkRow, WithLabs

(* The requests that begin a binding.                                        *)
LEMMA DisciplineBound ==
  ASSUME HeadOK, NEW u \in Staff, NEW d \in Discipline, BindDiscipline(u, d) \/ UnbindDiscipline(u, d)
  PROVE  /\ HeadOK'
         /\ \E labs \in SUBSET Laboratory :
              discipline' = [discipline EXCEPT ![d] = WithLabs(discipline[d], labs)]
<1>1. StaffLaboratory(u) \in Laboratory \/ UnbindDiscipline(u, d)
  BY StaffTypes DEF HeadOK, CatalogueOK, BindDiscipline, BindableDisciplines
<1>2. discipline[d].laboratories \subseteq Laboratory
  BY DEF HeadOK, CatalogueOK, DisciplineRow
<1>3. PICK labs \in SUBSET Laboratory :
        discipline' = [discipline EXCEPT ![d] = WithLabs(discipline[d], labs)]
  BY <1>1, <1>2 DEF BindDiscipline, UnbindDiscipline, WithLabs
<1> DEFINE row == WithLabs(discipline[d], labs)
<1>4. row \in DisciplineRow /\ row.folder = discipline[d].folder
  <2>1. discipline[d] \in DisciplineRow
    BY DEF HeadOK, CatalogueOK
  <2> QED BY <2>1, DisciplineRelabelled
<1>5. discipline' = [discipline EXCEPT ![d] = row]
  BY <1>3
<1>6. UNCHANGED <<profile, work, room, stand, folder, group, booking, schedule>>
  BY DEF BindDiscipline, UnbindDiscipline
<1>7. Begin(u, <<"discipline", d>>, None, {}) /\ <<"discipline", d>> \in Object
  BY DEF BindDiscipline, UnbindDiscipline, Object
<1> HIDE DEF row
<1>8. CatalogueOK' /\ ToolsOK' /\ BookingsOK'
  BY <1>4, <1>5, <1>6, DisciplineSaved
<1>9. LabHeadTypeOK'
  BY <1>6, <1>7, BeginTypes DEF HeadOK
<1> QED BY <1>3, <1>8, <1>9 DEF HeadOK

LEMMA WorkBound ==
  ASSUME HeadOK, NEW u \in Staff, NEW w \in LabWork, BindWork(u, w) \/ UnbindWork(u, w)
  PROVE  /\ HeadOK' /\ w \in Works
         /\ \E labs \in SUBSET Laboratory :
              work' = [work EXCEPT ![w] = WithLabs(work[w], labs)]
<1>1. StaffLaboratory(u) \in Laboratory \/ UnbindWork(u, w)
  BY StaffTypes DEF HeadOK, CatalogueOK, BindWork, BindableWorks
<1>2. work[w].laboratories \subseteq Laboratory
  BY DEF HeadOK, CatalogueOK, WorkRow
<1>3. PICK labs \in SUBSET Laboratory :
        work' = [work EXCEPT ![w] = WithLabs(work[w], labs)]
  BY <1>1, <1>2 DEF BindWork, UnbindWork, WithLabs
<1>4. w \in Works
  BY ScopeTypes DEF BindWork, UnbindWork, BindableWorks
<1> DEFINE row == WithLabs(work[w], labs)
<1>5. row \in WorkRow /\ row.status = "LIVE"
  <2>1. work[w] \in WorkRow /\ work[w].status = "LIVE"
    BY <1>4 DEF HeadOK, CatalogueOK, Works
  <2> QED BY <2>1, WorkRelabelled
<1>6. work' = [work EXCEPT ![w] = row]
  BY <1>3
<1>7. UNCHANGED <<profile, discipline, room, stand, folder, group, booking, schedule>>
  BY DEF BindWork, UnbindWork
<1>8. Begin(u, <<"work", w>>, None, {}) /\ <<"work", w>> \in Object
  BY DEF BindWork, UnbindWork, Object
<1> HIDE DEF row
<1>9. room' \in [Room -> RoomRow]
  BY <1>7 DEF HeadOK, CatalogueOK
<1>10. CatalogueOK' /\ ToolsOK' /\ BookingsOK'
  BY <1>5, <1>6, <1>7, <1>9, WorkSaved
<1>11. LabHeadTypeOK'
  BY <1>7, <1>8, BeginTypes DEF HeadOK
<1> QED BY <1>3, <1>4, <1>10, <1>11 DEF HeadOK

LEMMA FormTypes ==
  ASSUME CatalogueOK, NEW u \in Staff, NEW form \in WorkForm(u)
  PROVE  /\ form.disciplines \in SUBSET Discipline
         /\ form.laboratory \in Laboratory
         /\ form.room \in Room \cup {None} /\ form.stand \in Stand \cup {None}
BY ScopeTypes DEF WorkForm, WorkChoices, LabHeadLaboratories, LabHeadRooms, LabHeadStands, Stands

(* What a form makes of a lab work.                                          *)
SavedWork(w, form, published) ==
  [status |-> "LIVE", disciplines |-> form.disciplines, laboratories |-> {form.laboratory},
   centers |-> work[w].centers, published |-> published, room |-> form.room, stand |-> form.stand]

LEMMA WorkFormSaved ==
  ASSUME HeadOK, NEW u \in Staff, NEW w \in LabWork, NEW form \in WorkForm(u),
         NEW published \in BOOLEAN, SaveWork(u, w, form, published)
  PROVE  HeadOK' /\ work' = [work EXCEPT ![w] = SavedWork(w, form, published)]
<1> DEFINE row == SavedWork(w, form, published)
<1>1. row \in WorkRow /\ row.status = "LIVE"
  BY FormTypes DEF HeadOK, CatalogueOK, SavedWork, WorkRow
<1>2. work' = [work EXCEPT ![w] = row]
  BY DEF SaveWork, SavedWork
<1>3. UNCHANGED <<profile, discipline, room, stand, folder, group, booking, schedule>>
  BY DEF SaveWork
<1>4. /\ Begin(u, <<"work", w>>, form.room, form.disciplines) /\ <<"work", w>> \in Object
      /\ form.room \in Room \cup {None} /\ form.disciplines \in SUBSET Discipline
  BY FormTypes DEF SaveWork, Object, HeadOK
<1> HIDE DEF row
<1>5. room' \in [Room -> RoomRow]
  BY <1>3 DEF HeadOK, CatalogueOK
<1>6. CatalogueOK' /\ ToolsOK' /\ BookingsOK'
  BY <1>1, <1>2, <1>3, <1>5, WorkSaved
<1>7. LabHeadTypeOK'
  BY <1>3, <1>4, BeginTypes DEF HeadOK
<1> QED BY <1>2, <1>6, <1>7 DEF HeadOK, row

(* A lab work removed, or its training centres written.                      *)
Removed(row) ==
  [row EXCEPT !.status = "DELETED", !.disciplines = {}, !.laboratories = {}, !.centers = {}]
WithCenters(row, cs) == [row EXCEPT !.centers = cs]
WithoutStand(row, s) == [row EXCEPT !.stand = IF @ = s THEN None ELSE @]
WithoutFolder(row, f) == [row EXCEPT !.folder = IF @ = f THEN None ELSE @]

LEMMA RowRemoved ==
  ASSUME NEW row \in WorkRow
  PROVE  /\ Removed(row) \in WorkRow /\ Removed(row).status = "DELETED"
         /\ Removed(row).laboratories = {} /\ Removed(row).centers = {}
BY DEF WorkRow, Removed

LEMMA WorkCentered ==
  ASSUME NEW row \in WorkRow, NEW cs \in SUBSET Center
  PROVE  /\ WithCenters(row, cs) \in WorkRow /\ WithCenters(row, cs).centers = cs
         /\ WithCenters(row, cs).status = row.status
         /\ WithCenters(row, cs).laboratories = row.laboratories
         /\ WithCenters(row, cs).room = row.room /\ WithCenters(row, cs).stand = row.stand
BY DEF WorkRow, WithCenters

LEMMA StandTaken ==
  ASSUME NEW row \in WorkRow, NEW s
  PROVE  /\ WithoutStand(row, s) \in WorkRow /\ WithoutStand(row, s).status = row.status
         /\ WithoutStand(row, s).laboratories = row.laboratories
         /\ WithoutStand(row, s).centers = row.centers /\ WithoutStand(row, s).room = row.room
         /\ WithoutStand(row, s).stand \in {row.stand, None}
BY DEF WorkRow, WithoutStand

LEMMA DisciplineCentered ==
  ASSUME NEW row \in DisciplineRow, NEW cs \in SUBSET Center
  PROVE  /\ WithCenters(row, cs) \in DisciplineRow /\ WithCenters(row, cs).centers = cs
         /\ WithCenters(row, cs).laboratories = row.laboratories
         /\ WithCenters(row, cs).folder = row.folder
BY DEF DisciplineRow, WithCenters

LEMMA FolderTaken ==
  ASSUME NEW row \in DisciplineRow, NEW f
  PROVE  /\ WithoutFolder(row, f) \in DisciplineRow
         /\ WithoutFolder(row, f).folder = IF row.folder = f THEN None ELSE row.folder
         /\ WithoutFolder(row, f).laboratories = row.laboratories
         /\ WithoutFolder(row, f).centers = row.centers
BY DEF DisciplineRow, WithoutFolder

LEMMA WorkRemoved ==
  ASSUME HeadOK, NEW u \in Staff, NEW w \in LabWork, RemoveWork(u, w)
  PROVE  HeadOK' /\ work' = [work EXCEPT ![w] = Removed(work[w])]
<1>1. work' = [work EXCEPT ![w] = Removed(work[w])]
  BY DEF RemoveWork, Removed
<1>2. work \in [LabWork -> WorkRow] /\ work[w] \in WorkRow
  BY DEF HeadOK, CatalogueOK
<1>3. work' \in [LabWork -> WorkRow] /\ work'[w].status = "DELETED"
      /\ \A v \in LabWork \ {w} : work'[v] = work[v]
  BY <1>1, <1>2, RowRemoved
<1>4. \A g \in Group : group[g] \in GroupRow
  BY DEF HeadOK, CatalogueOK
<1>5. group' \in [Group -> GroupRow]
  <2>1. ASSUME NEW row \in GroupRow PROVE [row EXCEPT !.works = @ \ {w}] \in GroupRow
    BY DEF GroupRow
  <2> QED BY <1>4, <2>1 DEF RemoveWork
<1>6. CatalogueOK'
  BY <1>3, <1>5 DEF HeadOK, CatalogueOK, RemoveWork
<1>7. ToolsOK'
  BY DEF HeadOK, ToolsOK, RemoveWork
<1>8. \A b \in DOMAIN booking' : b \in DOMAIN booking /\ booking'[b] = booking[b] /\ booking[b].work # w
  BY DEF RemoveWork
<1>9. BookingsOK'
  BY <1>3, <1>8 DEF HeadOK, BookingsOK, Works
<1>10. LabHeadTypeOK'
  BY DEF HeadOK, LabHeadTypeOK, RemoveWork
<1> QED BY <1>1, <1>6, <1>7, <1>9, <1>10 DEF HeadOK

LEMMA RoomSaved ==
  ASSUME HeadOK, NEW u \in Staff, NEW r \in Room, NEW lab, NEW ds, SaveRoom(u, r, lab, ds)
  PROVE  HeadOK' /\ lab \in LabHeadLaboratories(u) \cup {None}
         /\ room' = [room EXCEPT ![r] = [laboratory |-> lab, disciplines |-> ds]]
<1>1. [laboratory |-> lab, disciplines |-> ds] \in RoomRow
  BY ScopeTypes DEF SaveRoom, RoomRow, LabHeadLaboratories
<1>2. room' \in [Room -> RoomRow]
  BY <1>1 DEF HeadOK, CatalogueOK, SaveRoom
<1>3. CatalogueOK' /\ ToolsOK' /\ BookingsOK' /\ LabHeadTypeOK'
  BY <1>2 DEF HeadOK, CatalogueOK, ToolsOK, BookingsOK, LabHeadTypeOK, SaveRoom, headVars, Works
<1> QED BY <1>3 DEF HeadOK, SaveRoom

LEMMA StandPlaced ==
  ASSUME HeadOK, NEW u \in Staff, NEW s \in Stand, NEW r \in Room, CreateStand(u, s, r) \/ SaveStand(u, s, r)
  PROVE  /\ HeadOK'
         /\ stand'[s].room = r /\ CenterOfRoom[r] = CenterOfStand[s]
         /\ \A x \in Stand \ {s} : stand'[x] = stand[x]
<1>1. stand \in [Stand -> StandRow] /\ stand[s] \in StandRow
  BY DEF HeadOK, ToolsOK
<1>2. /\ stand' \in [Stand -> StandRow] /\ stand'[s].room = r /\ stand'[s].exists
      /\ \A x \in Stand \ {s} : stand'[x] = stand[x]
  <2>1. ASSUME NEW row \in StandRow, stand' = [stand EXCEPT ![s] = row], row.room = r, row.exists
        PROVE  /\ stand' \in [Stand -> StandRow] /\ stand'[s].room = r /\ stand'[s].exists
               /\ \A x \in Stand \ {s} : stand'[x] = stand[x]
    BY <1>1, <2>1
  <2>2. CASE CreateStand(u, s, r)
    <3>1. [exists |-> TRUE, room |-> r] \in StandRow
      BY DEF StandRow
    <3> QED BY <2>1, <2>2, <3>1 DEF CreateStand
  <2>3. CASE SaveStand(u, s, r)
    <3> DEFINE In(row) == [row EXCEPT !.room = r]
    <3>1. ASSUME NEW row \in StandRow
          PROVE  In(row) \in StandRow /\ In(row).room = r /\ In(row).exists = row.exists
      BY DEF StandRow
    <3>2. stand[s].exists
      BY <2>3 DEF SaveStand, LabHeadStands, Stands
    <3>3. stand' = [stand EXCEPT ![s] = In(stand[s])]
      BY <2>3 DEF SaveStand
    <3> HIDE DEF In
    <3> QED BY <1>1, <2>1, <3>1, <3>2, <3>3
  <2> QED BY <2>2, <2>3
<1>3. \A x \in Stand : stand'[x].exists <=> stand'[x].room # None
  BY <1>2, ScopeAssumption DEF HeadOK, ToolsOK
<1>4. UNCHANGED <<profile, discipline, work, room, folder, group, booking, headVars>>
  BY DEF CreateStand, SaveStand
<1>5. CatalogueOK' /\ ToolsOK' /\ BookingsOK' /\ LabHeadTypeOK'
  BY <1>2, <1>3, <1>4 DEF HeadOK, CatalogueOK, ToolsOK, BookingsOK, LabHeadTypeOK, headVars, Works
<1>6. CenterOfRoom[r] = CenterOfStand[s]
  BY DEF CreateStand, SaveStand, LabHeadRooms, LabHeadStands
<1> QED BY <1>2, <1>5, <1>6 DEF HeadOK

LEMMA StandRemoved ==
  ASSUME HeadOK, NEW u \in Staff, NEW s \in Stand, RemoveStand(u, s)
  PROVE  HeadOK' /\ Stands' = Stands \ {s}
         /\ \A x \in Stand \ {s} : stand'[x] = stand[x]
         /\ work' = [w \in LabWork |-> WithoutStand(work[w], s)]
<1>1. work' = [w \in LabWork |-> WithoutStand(work[w], s)]
  BY DEF RemoveStand, WithoutStand
<1>2. \A w \in LabWork : work[w] \in WorkRow
  BY DEF HeadOK, CatalogueOK
<1>3. work' \in [LabWork -> WorkRow] /\ \A w \in LabWork : work'[w].status = work[w].status
  BY <1>1, <1>2, StandTaken
<1>4. stand \in [Stand -> StandRow]
  BY DEF HeadOK, ToolsOK
<1>5. stand' \in [Stand -> StandRow]
  <2>1. [exists |-> FALSE, room |-> None] \in StandRow
    BY DEF StandRow
  <2> QED BY <1>4, <2>1 DEF RemoveStand
<1>6. /\ \A x \in Stand : stand'[x].exists <=> stand'[x].room # None
      /\ Stands' = Stands \ {s} /\ \A x \in Stand \ {s} : stand'[x] = stand[x]
  BY <1>4 DEF RemoveStand, HeadOK, ToolsOK, Stands
<1>7. UNCHANGED <<profile, discipline, room, folder, group, booking, headVars>>
  BY DEF RemoveStand
<1>8. CatalogueOK' /\ ToolsOK' /\ BookingsOK' /\ LabHeadTypeOK'
  BY <1>3, <1>5, <1>6, <1>7
     DEF HeadOK, CatalogueOK, ToolsOK, BookingsOK, LabHeadTypeOK, headVars, Works
<1> QED BY <1>1, <1>6, <1>8 DEF HeadOK

LEMMA FolderSaved ==
  ASSUME HeadOK, NEW u \in Staff, NEW f \in Folder, SaveFolder(u, f)
  PROVE  HeadOK'
<1> DEFINE own == IF StaffLaboratory(u) = None THEN None ELSE FacultyOfLab[StaffLaboratory(u)]
           row == [exists |-> TRUE,
                   faculty |-> IF folder[f].exists /\ folder[f].faculty # None
                               THEN folder[f].faculty ELSE own]
<1>1. StaffLaboratory(u) \in Laboratory \cup {None}
  BY StaffTypes DEF HeadOK, CatalogueOK
<1>2. folder \in [Folder -> FolderRow] /\ folder[f] \in FolderRow
  BY DEF HeadOK, ToolsOK
<1>3. row \in FolderRow /\ row.exists
  BY <1>1, <1>2 DEF FolderRow
<1>4. folder' = [folder EXCEPT ![f] = row]
  BY DEF SaveFolder
<1> HIDE DEF row
<1>5. folder' \in [Folder -> FolderRow] /\ \A g \in Folder : folder[g].exists => folder'[g].exists
  BY <1>2, <1>3, <1>4
<1>6. \A g \in Folder : folder'[g].faculty # None => folder'[g].exists
  BY <1>2, <1>3, <1>4 DEF HeadOK, ToolsOK
<1>7. UNCHANGED <<profile, discipline, work, room, stand, group, booking, headVars>>
  BY DEF SaveFolder
<1>8. \A d \in Discipline : discipline'[d].folder # None => folder'[discipline'[d].folder].exists
  BY <1>5, <1>7 DEF HeadOK, ToolsOK, CatalogueOK, DisciplineRow
<1>9. CatalogueOK' /\ ToolsOK' /\ BookingsOK' /\ LabHeadTypeOK'
  BY <1>5, <1>6, <1>7, <1>8
     DEF HeadOK, CatalogueOK, ToolsOK, BookingsOK, LabHeadTypeOK, headVars, Works
<1> QED BY <1>9 DEF HeadOK

LEMMA FolderRemoved ==
  ASSUME HeadOK, NEW u \in Staff, NEW f \in Folder, RemoveFolder(u, f)
  PROVE  HeadOK' /\ discipline' = [d \in Discipline |-> WithoutFolder(discipline[d], f)]
<1>1. discipline' = [d \in Discipline |-> WithoutFolder(discipline[d], f)]
  BY DEF RemoveFolder, WithoutFolder
<1>2. \A d \in Discipline : discipline[d] \in DisciplineRow
  BY DEF HeadOK, CatalogueOK
<1>3. discipline' \in [Discipline -> DisciplineRow]
      /\ \A d \in Discipline : discipline'[d].folder = IF discipline[d].folder = f THEN None
                                                       ELSE discipline[d].folder
  BY <1>1, <1>2, FolderTaken
<1>4. folder \in [Folder -> FolderRow]
  BY DEF HeadOK, ToolsOK
<1>5. folder' \in [Folder -> FolderRow] /\ \A g \in Folder \ {f} : folder'[g] = folder[g]
  <2>1. [exists |-> FALSE, faculty |-> None] \in FolderRow
    BY DEF FolderRow
  <2> QED BY <1>4, <2>1 DEF RemoveFolder
<1>6. \A g \in Folder : folder'[g].faculty # None => folder'[g].exists
  BY <1>4 DEF RemoveFolder, HeadOK, ToolsOK
<1>7. UNCHANGED <<profile, work, room, stand, group, booking, headVars>>
  BY DEF RemoveFolder
<1>8. \A d \in Discipline : discipline'[d].folder # None => folder'[discipline'[d].folder].exists
  BY <1>2, <1>3, <1>5 DEF HeadOK, ToolsOK, DisciplineRow
<1>9. CatalogueOK' /\ ToolsOK' /\ BookingsOK' /\ LabHeadTypeOK'
  BY <1>3, <1>5, <1>6, <1>7, <1>8
     DEF HeadOK, CatalogueOK, ToolsOK, BookingsOK, LabHeadTypeOK, headVars, Works
<1> QED BY <1>1, <1>9 DEF HeadOK

LEMMA DisciplineMoved ==
  ASSUME HeadOK, NEW u \in Staff, NEW d \in Discipline, NEW f, MoveToFolder(u, d, f)
  PROVE  /\ HeadOK'
         /\ \A e \in Discipline : /\ discipline'[e].laboratories = discipline[e].laboratories
                                  /\ discipline'[e].centers = discipline[e].centers
<1> DEFINE Moved(row) == [row EXCEPT !.folder = f]
<1>1. ASSUME NEW row \in DisciplineRow
      PROVE  /\ Moved(row) \in DisciplineRow /\ Moved(row).folder = f
             /\ Moved(row).laboratories = row.laboratories /\ Moved(row).centers = row.centers
  BY DEF DisciplineRow, MoveToFolder, LabHeadFolders, Folders
<1>2. discipline \in [Discipline -> DisciplineRow] /\ discipline[d] \in DisciplineRow
  BY DEF HeadOK, CatalogueOK
<1>3. discipline' = [discipline EXCEPT ![d] = Moved(discipline[d])]
  BY DEF MoveToFolder
<1> HIDE DEF Moved
<1>4. /\ discipline' \in [Discipline -> DisciplineRow]
      /\ discipline'[d].folder = f /\ \A e \in Discipline \ {d} : discipline'[e] = discipline[e]
      /\ discipline'[d].laboratories = discipline[d].laboratories
      /\ discipline'[d].centers = discipline[d].centers
  BY <1>1, <1>2, <1>3
<1>5. UNCHANGED <<profile, work, room, stand, folder, group, booking, headVars>>
      /\ (f # None => folder[f].exists)
  BY DEF MoveToFolder, LabHeadFolders, Folders
<1>6. CatalogueOK' /\ ToolsOK' /\ BookingsOK' /\ LabHeadTypeOK'
  BY <1>4, <1>5 DEF HeadOK, CatalogueOK, ToolsOK, BookingsOK, LabHeadTypeOK, headVars, Works
<1> QED BY <1>4, <1>6 DEF HeadOK

LEMMA PeopleSaved ==
  ASSUME HeadOK, NEW u \in Staff, NEW p \in Staff,
         \/ TakePerson(u, p)
         \/ \E ds \in SUBSET Discipline : SetPersonDisciplines(u, p, ds)
  PROVE  HeadOK'
<1>1. profile \in [Staff -> ProfileRow] /\ profile[p] \in ProfileRow
  BY DEF HeadOK, CatalogueOK
<1>2. StaffCenter(u) \in Center \cup {None} /\ StaffLaboratory(u) \in Laboratory \cup {None}
  BY <1>1, StaffTypes
<1>3. /\ \A row \in ProfileRow, ds \in SUBSET Discipline : [row EXCEPT !.disciplines = ds] \in ProfileRow
      /\ \A row \in ProfileRow, c \in Center \cup {None}, l \in Laboratory \cup {None} :
           [laboratory |-> l, center |-> c, disciplines |-> row.disciplines] \in ProfileRow
  BY DEF ProfileRow
<1>4. profile' \in [Staff -> ProfileRow]
  <2>1. CASE TakePerson(u, p)
    <3> DEFINE row == [laboratory |-> IF StaffLaboratory(u) # None THEN StaffLaboratory(u)
                                      ELSE profile[p].laboratory,
                       center |-> StaffCenter(u), disciplines |-> profile[p].disciplines]
    <3>1. profile' = [profile EXCEPT ![p] = row]
      BY <2>1 DEF TakePerson
    <3>2. (IF StaffLaboratory(u) # None THEN StaffLaboratory(u) ELSE profile[p].laboratory)
            \in Laboratory \cup {None}
      BY <1>1, <1>2 DEF ProfileRow
    <3>3. row \in ProfileRow
      BY <1>1, <1>2, <1>3, <3>2
    <3> HIDE DEF row
    <3> QED BY <1>1, <3>1, <3>3
  <2>2. ASSUME NEW ds \in SUBSET Discipline, SetPersonDisciplines(u, p, ds)
        PROVE  profile' \in [Staff -> ProfileRow]
    <3> DEFINE row == [profile[p] EXCEPT !.disciplines = ds]
    <3>1. profile' = [profile EXCEPT ![p] = row]
      BY <2>2 DEF SetPersonDisciplines
    <3>2. row \in ProfileRow
      BY <1>1, <1>3
    <3> HIDE DEF row
    <3> QED BY <1>1, <3>1, <3>2
  <2> QED BY <2>1, <2>2
<1>5. UNCHANGED <<discipline, work, room, stand, folder, group, booking, headVars>>
  BY DEF TakePerson, SetPersonDisciplines
<1>6. CatalogueOK' /\ ToolsOK' /\ BookingsOK' /\ LabHeadTypeOK'
  BY <1>4, <1>5 DEF HeadOK, CatalogueOK, ToolsOK, BookingsOK, LabHeadTypeOK, headVars, Works
<1> QED BY <1>6 DEF HeadOK

LEMMA EntryAdded ==
  ASSUME HeadOK, NEW u \in Staff, NEW w \in LabWork, NEW r \in Room, NEW t \in Staff \cup {None},
         AddScheduleEntry(u, w, r, t)
  PROVE  HeadOK'
<1>1. [work |-> w, room |-> r, teacher |-> t, by |-> u] \in ScheduleRow
  BY DEF ScheduleRow
<1>2. LabHeadTypeOK'
  BY <1>1 DEF HeadOK, LabHeadTypeOK, AddScheduleEntry
<1>3. CatalogueOK' /\ ToolsOK' /\ BookingsOK'
  BY CatalogueUnchanged DEF HeadOK, AddScheduleEntry
<1> QED BY <1>2, <1>3 DEF HeadOK

-------------------------------------------------------------------------------
(* The later steps of a binding                                              *)

LEMMA CentersTypes ==
  ASSUME CatalogueOK, NEW object \in Object
  PROVE  CentersOfLabs(object) \in SUBSET Center
<1>1. LabsOf(object) \subseteq Laboratory
  BY DEF CatalogueOK, Object, LabsOf, DisciplineRow, WorkRow
<1> QED BY <1>1, ScopeAssumption DEF CentersOfLabs

LEMMA CentersRead ==
  ASSUME HeadOK, NEW u \in Staff, ReadCenters(u)
  PROVE  /\ HeadOK' /\ binding[u] \in Request /\ binding'[u] \in Request
         /\ binding'[u].step = "save" /\ binding'[u].object = binding[u].object
         /\ binding'[u].centers = CentersOfLabs(binding[u].object)
         /\ \A p \in Staff \ {u} : binding'[p] = binding[p]
<1>1. binding \in [Staff -> Request \cup {NoRequest}]
  BY DEF HeadOK, LabHeadTypeOK
<1>2. binding[u] \in Request
  BY <1>1 DEF ReadCenters, NoRequest
<1>3. CentersOfLabs(binding[u].object) \in SUBSET Center
  BY <1>2, CentersTypes DEF HeadOK, Request
<1> DEFINE Saving(row, cs) == [row EXCEPT !.step = "save", !.centers = cs]
<1>4. \A row \in Request, cs \in SUBSET Center :
        /\ Saving(row, cs) \in Request /\ Saving(row, cs).step = "save"
        /\ Saving(row, cs).object = row.object /\ Saving(row, cs).centers = cs
  BY DEF Request
<1>5. binding' = [binding EXCEPT ![u] = Saving(binding[u], CentersOfLabs(binding[u].object))]
  BY DEF ReadCenters
<1> HIDE DEF Saving
<1>6. /\ binding' \in [Staff -> Request \cup {NoRequest}]
      /\ binding'[u] = Saving(binding[u], CentersOfLabs(binding[u].object))
      /\ \A p \in Staff \ {u} : binding'[p] = binding[p]
  BY <1>1, <1>2, <1>3, <1>4, <1>5
<1>7. HeadOK'
  BY <1>6, CatalogueUnchanged DEF HeadOK, LabHeadTypeOK, ReadCenters
<1> QED BY <1>2, <1>3, <1>4, <1>6, <1>7

LEMMA CentersSaved ==
  ASSUME HeadOK, NEW u \in Staff, SaveCenters(u)
  PROVE  /\ HeadOK' /\ binding[u] \in Request
         /\ LET id == binding[u].object[2]  cs == binding[u].centers
            IN IF binding[u].object[1] = "work"
               THEN /\ work' = IF id \in Works THEN [work EXCEPT ![id] = WithCenters(work[id], cs)] ELSE work
                    /\ UNCHANGED discipline
               ELSE /\ discipline' = [discipline EXCEPT ![id] = WithCenters(discipline[id], cs)]
                    /\ UNCHANGED work
         /\ binding'[u] = NoRequest /\ \A p \in Staff \ {u} : binding'[p] = binding[p]
<1> DEFINE id == binding[u].object[2]
           cs == binding[u].centers
<1>1. binding \in [Staff -> Request \cup {NoRequest}]
  BY DEF HeadOK, LabHeadTypeOK
<1>2. binding[u] \in Request
  BY <1>1 DEF SaveCenters, NoRequest
<1>3. binding[u].object \in Object /\ cs \in SUBSET Center /\ binding[u].room \in Room \cup {None}
      /\ binding[u].disciplines \in SUBSET Discipline
  BY <1>2 DEF Request
<1>4. /\ binding' \in [Staff -> Request \cup {NoRequest}]
      /\ binding'[u] = NoRequest /\ \A p \in Staff \ {u} : binding'[p] = binding[p]
  BY <1>1 DEF SaveCenters
<1>5. LabHeadTypeOK'
  BY <1>4 DEF HeadOK, LabHeadTypeOK, SaveCenters
<1>6. UNCHANGED <<profile, stand, folder, group, booking, schedule, unsynced>>
  BY DEF SaveCenters
<1>7. CASE binding[u].object[1] = "work"
  <2>1. id \in LabWork
    BY <1>3, <1>7 DEF Object
  <2>2. /\ work' = IF id \in Works THEN [work EXCEPT ![id] = WithCenters(work[id], cs)] ELSE work
        /\ UNCHANGED discipline
    BY <1>7 DEF SaveCenters, WithCenters
  <2>3. work \in [LabWork -> WorkRow]
    BY DEF HeadOK, CatalogueOK
  <2>4. WithCenters(work[id], cs) \in WorkRow /\ WithCenters(work[id], cs).status = work[id].status
    BY <1>3, <2>1, <2>3, WorkCentered
  <2>5. work' \in [LabWork -> WorkRow] /\ Works' = Works
    BY <2>1, <2>2, <2>3, <2>4 DEF Works
  <2>6. room' \in [Room -> RoomRow]
    <3> DEFINE With(row) == [row EXCEPT !.disciplines = @ \cup binding[u].disciplines]
    <3>1. \A row \in RoomRow : With(row) \in RoomRow
      BY <1>3 DEF RoomRow
    <3>2. \/ room' = room
          \/ /\ binding[u].room \in Room
             /\ room' = [room EXCEPT ![binding[u].room] = With(room[binding[u].room])]
      BY <1>3, <1>7 DEF SaveCenters
    <3> HIDE DEF With
    <3> QED BY <3>1, <3>2 DEF HeadOK, CatalogueOK
  <2>7. CatalogueOK' /\ ToolsOK' /\ BookingsOK'
    BY <1>6, <2>2, <2>5, <2>6 DEF HeadOK, CatalogueOK, ToolsOK, BookingsOK
  <2> QED BY <1>2, <1>4, <1>5, <1>7, <2>2, <2>7 DEF HeadOK
<1>8. CASE binding[u].object[1] # "work"
  <2>1. id \in Discipline
    BY <1>3, <1>8 DEF Object
  <2>2. /\ discipline' = [discipline EXCEPT ![id] = WithCenters(discipline[id], cs)]
        /\ UNCHANGED <<work, room>>
    BY <1>8 DEF SaveCenters, WithCenters
  <2>3. discipline[id] \in DisciplineRow
    BY <2>1 DEF HeadOK, CatalogueOK
  <2>4. WithCenters(discipline[id], cs) \in DisciplineRow
        /\ WithCenters(discipline[id], cs).folder = discipline[id].folder
    BY <1>3, <2>3, DisciplineCentered
  <2>5. CatalogueOK' /\ ToolsOK' /\ BookingsOK'
    BY <1>6, <2>1, <2>2, <2>4, DisciplineSaved
  <2> QED BY <1>2, <1>4, <1>5, <1>8, <2>2, <2>5 DEF HeadOK
<1> QED BY <1>7, <1>8

LEMMA Abandoned ==
  ASSUME HeadOK, NEW u \in Staff, Abandon(u)
  PROVE  /\ HeadOK' /\ binding[u] \in Request
         /\ binding'[u] = NoRequest /\ \A p \in Staff \ {u} : binding'[p] = binding[p]
<1>1. binding \in [Staff -> Request \cup {NoRequest}]
  BY DEF HeadOK, LabHeadTypeOK
<1>2. binding[u] \in Request /\ binding[u].object \in Object
  BY <1>1 DEF Abandon, NoRequest, Request
<1>3. /\ binding' \in [Staff -> Request \cup {NoRequest}]
      /\ binding'[u] = NoRequest /\ \A p \in Staff \ {u} : binding'[p] = binding[p]
  BY <1>1 DEF Abandon
<1>4. LabHeadTypeOK'
  BY <1>2, <1>3 DEF HeadOK, LabHeadTypeOK, Abandon
<1>5. CatalogueOK' /\ ToolsOK' /\ BookingsOK'
  BY CatalogueUnchanged DEF HeadOK, Abandon
<1> QED BY <1>2, <1>3, <1>4, <1>5 DEF HeadOK

-------------------------------------------------------------------------------
(* Bookings                                                                  *)

LEMMA BookingInserted ==
  ASSUME HeadOK, NEW st \in Student, NEW s \in Session, NEW d \in Discipline,
         NEW by \in Staff \cup Student, NEW via \in {"WEB", "API"}, Insert(st, s, d, by, via)
  PROVE  CatalogueOK' /\ ToolsOK' /\ BookingsOK'
<1> DEFINE row == [student |-> st, work |-> SessionWork[s], discipline |-> d, room |-> SessionRoom[s],
                   status |-> "BOOKED", by |-> by, via |-> via]
<1>1. SessionWork[s] \in Works /\ SessionWork[s] \in LabWork /\ SessionRoom[s] \in Room
  BY ScopeAssumption DEF Insert, MayBook, StudentWorks, PublishedWorks
<1>2. row \in BookingRow /\ row.work \in Works
  BY <1>1 DEF BookingRow
<1>3. \A b \in DOMAIN booking' : booking'[b] = row \/ (b \in DOMAIN booking /\ booking'[b] = booking[b])
  BY DEF Insert
<1> HIDE DEF row
<1>4. UNCHANGED <<profile, discipline, work, room, stand, folder, group>>
  BY DEF Insert
<1> QED BY <1>2, <1>3, <1>4 DEF HeadOK, CatalogueOK, ToolsOK, BookingsOK, Works

LEMMA BookingStatusSet ==
  ASSUME HeadOK, NEW b \in DOMAIN booking, SetStatus(b, "CANCELLED") \/ \E new \in StaffStatuses : SetStatus(b, new)
  PROVE  CatalogueOK' /\ ToolsOK' /\ BookingsOK'
<1> DEFINE Set(row, new) == [row EXCEPT !.status = new]
<1>1. PICK new \in {"BOOKED", "VISITED", "NO_SHOW", "REACCESS", "CANCELLED"} : SetStatus(b, new)
  BY DeskAssumption
<1>2. \A row \in BookingRow : Set(row, new) \in BookingRow /\ Set(row, new).work = row.work
  BY DEF BookingRow
<1>3. /\ booking' = [booking EXCEPT ![b] = Set(booking[b], new)]
      /\ UNCHANGED <<profile, discipline, work, room, stand, folder, group>>
  BY <1>1 DEF SetStatus
<1> HIDE DEF Set
<1>4. /\ DOMAIN booking' = DOMAIN booking /\ booking'[b] = Set(booking[b], new)
      /\ \A c \in DOMAIN booking \ {b} : booking'[c] = booking[c]
  BY <1>3
<1>5. BookingsOK'
  BY <1>2, <1>3, <1>4 DEF HeadOK, BookingsOK, Works
<1> QED BY <1>3, <1>5 DEF HeadOK, CatalogueOK, ToolsOK

LEMMA DeskTypes ==
  ASSUME HeadOK, DeskRequest, UNCHANGED headVars
  PROVE  HeadOK'
<1>1. ASSUME NEW st \in Student, NEW s \in Session, NEW d \in Discipline,
             \/ BookOnline(st, s, d) \/ BookByApi(st, s, d)
             \/ \E u \in Staff : ManualBooking(u, st, s, d) \/ ManualBookingByApi(u, st, s, d)
      PROVE  CatalogueOK' /\ ToolsOK' /\ BookingsOK'
  BY <1>1, BookingInserted DEF BookOnline, BookByApi, ManualBooking, ManualBookingByApi
<1>2. ASSUME NEW b \in DOMAIN booking,
             \/ \E st \in Student : CancelOwn(st, b)
             \/ \E u \in Staff : CancelByStaff(u, b) \/ \E new \in StaffStatuses : ChangeStatus(u, b, new)
      PROVE  CatalogueOK' /\ ToolsOK' /\ BookingsOK'
  BY <1>2, BookingStatusSet DEF CancelOwn, CancelByStaff, ChangeStatus
<1>3. CatalogueOK' /\ ToolsOK' /\ BookingsOK'
  BY <1>1, <1>2 DEF DeskRequest
<1> QED BY <1>3 DEF HeadOK, LabHeadTypeOK, headVars

-------------------------------------------------------------------------------
(* Tickets                                                                   *)

(* Messages whose status is not saved belong to a ticket that exists; if the *)
(* ticket's last replies were made one at a time, there is at most one, it   *)
(* is the last, and a ticket nobody is answering shows whose turn it is.     *)
ReplyOK(t) ==
  /\ \A p, q \in Person : reply[p].ticket = t /\ reply[q].ticket = t => p = q
  /\ \A p \in Person : reply[p].ticket = t =>
       ticket[t].last # "NOBODY" /\ (reply[p].status = "ANSWERED" <=> ticket[t].last = "STAFF")
  /\ ~Answering(t) /\ ticket[t].last # "NOBODY"
       => (ticket[t].status = "ANSWERED" <=> ticket[t].last = "STAFF")

ReplyInv ==
  /\ SupportTypeOK
  /\ \A p \in Person : reply[p] # NoReply => reply[p].ticket \in DOMAIN ticket
  /\ \A t \in DOMAIN ticket \ overlapped : ReplyOK(t)

LEMMA TicketCreated ==
  ASSUME ReplyInv, NEW p \in Person, NEW c \in Center \cup {None}, Create(p, c)
  PROVE  ReplyInv'
<1>1. PICK t \in Ticket \ DOMAIN ticket :
        ticket' = [x \in DOMAIN ticket \cup {t} |->
          IF x = t THEN [student |-> p, center |-> c, status |-> "OPEN", created |-> clock,
                         last |-> "NOBODY"]
          ELSE ticket[x]]
  BY DEF Create
<1>2. /\ DOMAIN ticket' = DOMAIN ticket \cup {t} /\ UNCHANGED <<reply, clock, overlapped>>
      /\ \A x \in DOMAIN ticket : ticket'[x] = ticket[x]
  BY <1>1 DEF Create
<1>3. ticket'[t] \in TicketRow /\ ticket'[t].last = "NOBODY"
  BY <1>1 DEF TicketRow, ReplyInv, SupportTypeOK
<1>4. SupportTypeOK'
  BY <1>2, <1>3 DEF ReplyInv, SupportTypeOK, TicketRow
<1>5. \A q \in Person : reply[q].ticket # t
  BY <1>1, SupportAssumption DEF ReplyInv, NoReply
<1>6. ReplyOK(t)'
  BY <1>2, <1>3, <1>5 DEF ReplyOK, Answering
<1>7. \A x \in DOMAIN ticket \ overlapped : ReplyOK(x)'
  BY <1>2 DEF ReplyInv, ReplyOK, Answering
<1> QED BY <1>2, <1>4, <1>6, <1>7 DEF ReplyInv

LEMMA TicketMoved ==
  ASSUME ReplyInv, NEW p \in Person, NEW t \in DOMAIN ticket, NEW c \in Center \cup {None},
         MoveTicket(p, t, c)
  PROVE  ReplyInv'
<1> DEFINE Moved(row) == [row EXCEPT !.center = c]
<1>1. \A row \in TicketRow : /\ Moved(row) \in TicketRow
                             /\ Moved(row).status = row.status /\ Moved(row).last = row.last
  BY DEF TicketRow
<1>2. ticket' = [ticket EXCEPT ![t] = Moved(ticket[t])] /\ UNCHANGED <<reply, clock, overlapped>>
  BY DEF MoveTicket
<1> HIDE DEF Moved
<1>3. /\ DOMAIN ticket' = DOMAIN ticket /\ ticket'[t] = Moved(ticket[t])
      /\ \A x \in DOMAIN ticket \ {t} : ticket'[x] = ticket[x]
  BY <1>2
<1>4. ticket[t] \in TicketRow
  BY DEF ReplyInv, SupportTypeOK
<1>5. \A x \in DOMAIN ticket : ticket'[x].status = ticket[x].status /\ ticket'[x].last = ticket[x].last
  BY <1>1, <1>3, <1>4
<1>6. SupportTypeOK'
  BY <1>1, <1>2, <1>3, <1>4 DEF ReplyInv, SupportTypeOK
<1>7. \A x \in DOMAIN ticket \ overlapped : ReplyOK(x)'
  BY <1>2, <1>5 DEF ReplyInv, ReplyOK, Answering
<1> QED BY <1>2, <1>3, <1>6, <1>7 DEF ReplyInv

LEMMA TicketDeleted ==
  ASSUME ReplyInv, NEW p \in Person, NEW t \in DOMAIN ticket, DeleteTicket(p, t)
  PROVE  ReplyInv'
<1>1. /\ DOMAIN ticket' = DOMAIN ticket \ {t} /\ \A x \in DOMAIN ticket \ {t} : ticket'[x] = ticket[x]
      /\ overlapped' = overlapped \ {t} /\ UNCHANGED clock
  BY DEF DeleteTicket
<1>2. reply \in [Person -> Reply \cup {NoReply}] /\ t \in Ticket
  BY DEF ReplyInv, SupportTypeOK
<1>3. reply' \in [Person -> Reply \cup {NoReply}]
      /\ \A q \in Person : reply'[q] = NoReply \/ (reply'[q] = reply[q] /\ reply[q].ticket # t)
  BY <1>2 DEF DeleteTicket
<1>4. SupportTypeOK'
  BY <1>1, <1>3 DEF ReplyInv, SupportTypeOK
<1>5. \A x \in Ticket \ {t} : \A q \in Person : reply'[q].ticket = x <=> reply[q].ticket = x
  BY <1>2, SupportAssumption DEF DeleteTicket, NoReply
<1>6. \A x \in DOMAIN ticket' \ overlapped' : x \in Ticket \ {t} /\ x \in DOMAIN ticket \ overlapped
  BY <1>1 DEF ReplyInv, SupportTypeOK
<1>7. ASSUME NEW x \in DOMAIN ticket' \ overlapped' PROVE ReplyOK(x)'
  <2>1. ReplyOK(x) /\ ticket'[x] = ticket[x] /\ x \in Ticket
    BY <1>1, <1>6 DEF ReplyInv
  <2>2. \A q \in Person : reply'[q].ticket = x => reply'[q] = reply[q]
    BY <1>3, <2>1, SupportAssumption DEF NoReply
  <2> QED BY <1>5, <1>6, <2>1, <2>2 DEF ReplyOK, Answering
<1>8. \A q \in Person : reply'[q] # NoReply => reply'[q].ticket \in DOMAIN ticket'
  BY <1>1, <1>3 DEF ReplyInv
<1> QED BY <1>4, <1>7, <1>8 DEF ReplyInv

LEMMA MessageWritten ==
  ASSUME ReplyInv, NEW p \in Person, NEW t \in DOMAIN ticket, NEW side \in {"STUDENT", "STAFF"},
         Write(p, t, side)
  PROVE  ReplyInv'
<1> DEFINE Last(row) == [row EXCEPT !.last = side]
           answer == [ticket |-> t, status |-> IF side = "STAFF" THEN "ANSWERED" ELSE "OPEN"]
<1>1. \A row \in TicketRow : /\ Last(row) \in TicketRow /\ Last(row).last = side
                             /\ Last(row).status = row.status
  BY DEF TicketRow
<1>2. /\ ticket' = [ticket EXCEPT ![t] = Last(ticket[t])] /\ reply[p] = NoReply
      /\ reply' = [reply EXCEPT ![p] = answer] /\ UNCHANGED clock
  BY DEF Write
<1>3. /\ t \in Ticket /\ ticket[t] \in TicketRow /\ reply \in [Person -> Reply \cup {NoReply}]
      /\ answer \in Reply /\ answer # NoReply /\ answer.ticket = t
      /\ (answer.status = "ANSWERED" <=> side = "STAFF")
  BY DEF ReplyInv, SupportTypeOK, Reply, NoReply
<1> HIDE DEF Last, answer
<1>4. /\ DOMAIN ticket' = DOMAIN ticket /\ ticket'[t] \in TicketRow /\ ticket'[t].last = side
      /\ \A x \in DOMAIN ticket \ {t} : ticket'[x] = ticket[x]
      /\ reply' \in [Person -> Reply \cup {NoReply}]
      /\ reply'[p] = answer /\ \A q \in Person \ {p} : reply'[q] = reply[q]
  BY <1>1, <1>2, <1>3
<1>5. SupportTypeOK'
  BY <1>2, <1>3, <1>4 DEF ReplyInv, SupportTypeOK, Write
<1>6. t \notin overlapped' => ReplyOK(t)'
  <2>1. t \notin overlapped' => \A q \in Person \ {p} : reply'[q].ticket # t
    BY <1>4 DEF Write
  <2> QED BY <1>3, <1>4, <2>1 DEF ReplyOK, Answering
<1>7. ASSUME NEW x \in DOMAIN ticket \ overlapped', x # t PROVE ReplyOK(x)'
  <2>1. x \in DOMAIN ticket \ overlapped /\ ReplyOK(x) /\ ticket'[x] = ticket[x] /\ x \in Ticket
    BY <1>4, <1>7 DEF ReplyInv, Write, SupportTypeOK
  <2>2. \A q \in Person : reply'[q].ticket = x <=> reply[q].ticket = x
    BY <1>2, <1>3, <1>4, <1>7, <2>1, SupportAssumption DEF NoReply
  <2>3. \A q \in Person : reply'[q].ticket = x => reply'[q] = reply[q]
    BY <1>3, <1>4, <1>7
  <2> QED BY <2>1, <2>2, <2>3 DEF ReplyOK, Answering
<1>8. \A q \in Person : reply'[q] # NoReply => reply'[q].ticket \in DOMAIN ticket'
  BY <1>3, <1>4 DEF ReplyInv
<1> QED BY <1>4, <1>5, <1>6, <1>7, <1>8 DEF ReplyInv

LEMMA StatusSaved ==
  ASSUME ReplyInv, NEW p \in Person, SaveStatus(p)
  PROVE  ReplyInv'
<1> DEFINE With(row) == [row EXCEPT !.status = reply[p].status]
<1>0. PICK t : t = reply[p].ticket
  OBVIOUS
<1>1. /\ reply \in [Person -> Reply \cup {NoReply}] /\ reply[p] \in Reply
      /\ reply[p].status \in {"OPEN", "ANSWERED"} /\ t \in Ticket /\ t \in DOMAIN ticket
      /\ ticket[t] \in TicketRow
  BY <1>0 DEF ReplyInv, SupportTypeOK, SaveStatus, Reply
<1>2. \A row \in TicketRow : /\ With(row) \in TicketRow /\ With(row).status = reply[p].status
                             /\ With(row).last = row.last
  BY <1>1 DEF TicketRow
<1>3. /\ ticket' = [ticket EXCEPT ![t] = With(ticket[t])]
      /\ reply' = [reply EXCEPT ![p] = NoReply] /\ UNCHANGED <<clock, overlapped>>
  BY <1>0 DEF SaveStatus
<1> HIDE DEF With
<1>4. /\ DOMAIN ticket' = DOMAIN ticket /\ ticket'[t] \in TicketRow
      /\ ticket'[t].status = reply[p].status /\ ticket'[t].last = ticket[t].last
      /\ \A x \in DOMAIN ticket \ {t} : ticket'[x] = ticket[x]
      /\ reply' \in [Person -> Reply \cup {NoReply}]
      /\ reply'[p] = NoReply /\ \A q \in Person \ {p} : reply'[q] = reply[q]
  BY <1>1, <1>2, <1>3
<1>5. SupportTypeOK'
  BY <1>1, <1>3, <1>4 DEF ReplyInv, SupportTypeOK
<1>6. reply'[p].ticket \notin Ticket
  BY <1>4, SupportAssumption DEF NoReply
<1>7. t \notin overlapped' => ReplyOK(t)'
  <2>1. t \notin overlapped' => ReplyOK(t)
    BY <1>1, <1>3 DEF ReplyInv
  <2>2. t \notin overlapped' => \A q \in Person : reply'[q].ticket # t
    BY <1>0, <1>1, <1>4, <1>6, <2>1 DEF ReplyOK
  <2> QED BY <1>0, <1>1, <1>4, <2>1, <2>2 DEF ReplyOK, Answering
<1>8. ASSUME NEW x \in DOMAIN ticket \ overlapped', x # t PROVE ReplyOK(x)'
  <2>1. ReplyOK(x) /\ ticket'[x] = ticket[x] /\ x \in Ticket
    BY <1>3, <1>4, <1>8 DEF ReplyInv, SupportTypeOK
  <2>2. \A q \in Person : reply'[q].ticket = x => reply'[q] = reply[q]
    BY <1>4, <1>6, <2>1
  <2>3. \A q \in Person : reply'[q].ticket = x <=> reply[q].ticket = x
    BY <1>0, <1>4, <1>6, <1>8, <2>1
  <2> QED BY <2>1, <2>2, <2>3 DEF ReplyOK, Answering
<1>9. \A q \in Person : reply'[q] # NoReply => reply'[q].ticket \in DOMAIN ticket'
  BY <1>4 DEF ReplyInv
<1> QED BY <1>4, <1>5, <1>7, <1>8, <1>9 DEF ReplyInv

LEMMA StatusLost ==
  ASSUME ReplyInv, NEW p \in Person, LoseStatus(p)
  PROVE  ReplyInv'
<1>1. /\ reply \in [Person -> Reply \cup {NoReply}] /\ reply[p] \in Reply /\ reply[p].ticket \in Ticket
  BY DEF ReplyInv, SupportTypeOK, LoseStatus, Reply
<1>2. /\ reply' \in [Person -> Reply \cup {NoReply}] /\ UNCHANGED <<ticket, clock>>
      /\ reply'[p] = NoReply /\ \A q \in Person \ {p} : reply'[q] = reply[q]
      /\ overlapped' = overlapped \cup {reply[p].ticket}
  BY <1>1 DEF LoseStatus
<1>3. SupportTypeOK'
  BY <1>1, <1>2 DEF ReplyInv, SupportTypeOK
<1>4. ASSUME NEW x \in DOMAIN ticket' \ overlapped' PROVE ReplyOK(x)'
  <2>1. ReplyOK(x) /\ ticket' = ticket /\ x \in Ticket /\ x # reply[p].ticket
    BY <1>2, <1>4 DEF ReplyInv, SupportTypeOK
  <2>2. \A q \in Person : /\ reply'[q].ticket = x => reply'[q] = reply[q]
                          /\ reply'[q].ticket = x <=> reply[q].ticket = x
    BY <1>2, <2>1, SupportAssumption DEF NoReply
  <2> QED BY <2>1, <2>2 DEF ReplyOK, Answering
<1>5. \A q \in Person : reply'[q] # NoReply => reply'[q].ticket \in DOMAIN ticket'
  BY <1>2 DEF ReplyInv
<1> QED BY <1>3, <1>4, <1>5 DEF ReplyInv

-------------------------------------------------------------------------------
(* Training centres                                                          *)

On(u, object) == binding[u].step # "idle" /\ binding[u].object = object
Gone(object) == object[1] = "work" /\ object[2] \notin Works

(* An object whose bindings come one after another: one head is at work on   *)
(* it, has read the centres of its laboratories as they are now, and when    *)
(* nobody is, they are the object's.                                         *)
SyncOK(object) ==
  /\ \A u, v \in Staff : On(u, object) /\ On(v, object) => u = v
  /\ \A u \in Staff : On(u, object) /\ binding[u].step = "save" =>
       Gone(object) \/ binding[u].centers = CentersOfLabs(object)
  /\ ~Busy(object) => CentersOf(object) = CentersOfLabs(object)

SyncInv ==
  /\ \A w \in LabWork \ Works : work[w].laboratories = {} /\ work[w].centers = {}
  /\ \A object \in Object \ unsynced : SyncOK(object)

LEMMA SyncInvImplies == SyncInv => CentersFollowLabs
BY DEF SyncInv, SyncOK, CentersFollowLabs

(* A step that leaves what matters about an object alone.                    *)
Same(object) ==
  /\ LabsOf(object)' = LabsOf(object) /\ CentersOf(object)' = CentersOf(object)
  /\ Gone(object) => Gone(object)'

LEMMA SameSync ==
  ASSUME NEW object \in Object, SyncOK(object), Same(object), UNCHANGED binding
  PROVE  SyncOK(object)'
<1>1. CentersOfLabs(object)' = CentersOfLabs(object)
  BY DEF Same, CentersOfLabs
<1>2. \A u \in Staff : On(u, object)' <=> On(u, object)
  BY DEF On
<1>3. Busy(object)' <=> Busy(object)
  BY DEF Busy
<1> QED BY <1>1, <1>2, <1>3 DEF SyncOK, Same

LEMMA SyncFrame ==
  ASSUME SyncInv, UNCHANGED <<binding, unsynced>>, \A object \in Object : Same(object),
         \A w \in LabWork \ Works' : work[w].laboratories' = {} /\ work[w].centers' = {}
  PROVE  SyncInv'
<1>1. \A object \in Object \ unsynced' : SyncOK(object)'
  BY SameSync DEF SyncInv
<1> QED BY <1>1 DEF SyncInv

LEMMA SyncUnchanged ==
  ASSUME SyncInv, UNCHANGED <<binding, unsynced, discipline, work>>
  PROVE  SyncInv'
BY SyncFrame DEF Same, LabsOf, CentersOf, Gone, Works, SyncInv

(* A head begins a binding: the other objects are not concerned.             *)
LEMMA SyncBegun ==
  ASSUME SyncInv, LabHeadTypeOK, NEW u \in Staff, binding[u].step = "idle",
         NEW object \in Object, NEW r, NEW ds, Begin(u, object, r, ds),
         \A other \in Object \ {object} : Same(other),
         \A w \in LabWork \ Works' : work[w].laboratories' = {} /\ work[w].centers' = {}
  PROVE  SyncInv'
<1>1. /\ binding'[u].step = "read" /\ binding'[u].object = object
      /\ \A v \in Staff \ {u} : binding'[v] = binding[v]
  BY DEF Begin, LabHeadTypeOK
<1>2. ASSUME NEW other \in Object \ unsynced', other # object
      PROVE  SyncOK(other)'
  <2>1. SyncOK(other) /\ Same(other)
    BY <1>2 DEF SyncInv, Begin
  <2>2. \A v \in Staff : On(v, other)' <=> On(v, other)
    BY <1>1, <1>2 DEF On
  <2>3. Busy(other)' <=> Busy(other)
    BY <2>2 DEF On, Busy
  <2>4. \A v \in Staff : On(v, other) => binding'[v] = binding[v]
    BY <1>1 DEF On
  <2>5. CentersOfLabs(other)' = CentersOfLabs(other)
    BY <2>1 DEF Same, CentersOfLabs
  <2> QED BY <2>1, <2>2, <2>3, <2>4, <2>5 DEF SyncOK, Same
<1>3. object \notin unsynced' => SyncOK(object)'
  <2>1. object \notin unsynced' => \A v \in Staff : On(v, object)' <=> v = u
    BY <1>1 DEF Begin, On, Busy
  <2> QED BY <1>1, <2>1 DEF SyncOK, On, Busy
<1> QED BY <1>2, <1>3 DEF SyncInv

LEMMA DisciplineBoundSync ==
  ASSUME HeadOK, SyncInv, NEW u \in Staff, NEW d \in Discipline,
         BindDiscipline(u, d) \/ UnbindDiscipline(u, d)
  PROVE  SyncInv'
<1> DEFINE object == <<"discipline", d>>
<1>1. PICK labs \in SUBSET Laboratory :
        discipline' = [discipline EXCEPT ![d] = WithLabs(discipline[d], labs)]
  BY DisciplineBound
<1>2. /\ object \in Object /\ binding[u].step = "idle" /\ Begin(u, object, None, {}) /\ work' = work
  BY DEF Object, BindDiscipline, UnbindDiscipline, Serves
<1>3. \A e \in Discipline \ {d} : discipline'[e] = discipline[e]
  BY <1>1 DEF HeadOK, CatalogueOK
<1>4. \A other \in Object \ {object} : Same(other)
  BY <1>2, <1>3 DEF Object, Same, LabsOf, CentersOf, Gone, Works
<1> HIDE DEF object
<1> QED BY <1>2, <1>4, SyncBegun DEF HeadOK, SyncInv, Works

LEMMA WorkRowBegun ==
  ASSUME HeadOK, SyncInv, NEW u \in Staff, NEW w \in LabWork, NEW row, row.status = "LIVE",
         work' = [work EXCEPT ![w] = row], discipline' = discipline, binding[u].step = "idle",
         NEW r, NEW ds, Begin(u, <<"work", w>>, r, ds)
  PROVE  SyncInv'
<1> DEFINE object == <<"work", w>>
<1>1. work'[w] = row /\ \A v \in LabWork \ {w} : work'[v] = work[v]
  BY DEF HeadOK, CatalogueOK
<1>2. Works' = Works \cup {w}
  BY <1>1 DEF Works
<1>3. \A other \in Object \ {object} : Same(other)
  BY <1>1, <1>2 DEF Object, Same, LabsOf, CentersOf, Gone
<1>4. object \in Object /\ Begin(u, object, r, ds)
  BY DEF Object
<1>5. \A v \in LabWork \ Works' : work[v].laboratories' = {} /\ work[v].centers' = {}
  BY <1>1, <1>2 DEF SyncInv
<1> HIDE DEF object
<1> QED BY <1>3, <1>4, <1>5, SyncBegun DEF HeadOK

LEMMA WorkBoundSync ==
  ASSUME HeadOK, SyncInv, NEW u \in Staff, NEW w \in LabWork, BindWork(u, w) \/ UnbindWork(u, w)
  PROVE  SyncInv'
<1>1. PICK labs \in SUBSET Laboratory : work' = [work EXCEPT ![w] = WithLabs(work[w], labs)]
  BY WorkBound
<1>2. work[w] \in WorkRow /\ work[w].status = "LIVE"
  BY WorkBound DEF HeadOK, CatalogueOK, Works
<1>3. WithLabs(work[w], labs).status = "LIVE"
  BY <1>2, WorkRelabelled
<1>4. /\ binding[u].step = "idle" /\ Begin(u, <<"work", w>>, None, {}) /\ discipline' = discipline
  BY DEF BindWork, UnbindWork, Serves
<1> QED BY <1>1, <1>3, <1>4, WorkRowBegun

LEMMA WorkFormSync ==
  ASSUME HeadOK, SyncInv, NEW u \in Staff, NEW w \in LabWork, NEW form \in WorkForm(u),
         NEW published \in BOOLEAN, SaveWork(u, w, form, published), Serves(u)
  PROVE  SyncInv'
<1>1. work' = [work EXCEPT ![w] = SavedWork(w, form, published)]
  BY WorkFormSaved
<1>2. SavedWork(w, form, published).status = "LIVE"
  BY DEF SavedWork
<1>3. /\ binding[u].step = "idle" /\ Begin(u, <<"work", w>>, form.room, form.disciplines)
      /\ discipline' = discipline
  BY DEF SaveWork, Serves
<1> QED BY <1>1, <1>2, <1>3, WorkRowBegun

LEMMA WorkRemovedSync ==
  ASSUME HeadOK, SyncInv, NEW u \in Staff, NEW w \in LabWork, RemoveWork(u, w)
  PROVE  SyncInv'
<1> DEFINE object == <<"work", w>>
<1>1. work[w] \in WorkRow /\ work' = [work EXCEPT ![w] = Removed(work[w])]
  BY WorkRemoved DEF HeadOK, CatalogueOK
<1>2. /\ work'[w].status = "DELETED" /\ work'[w].laboratories = {} /\ work'[w].centers = {}
      /\ \A v \in LabWork \ {w} : work'[v] = work[v]
  BY <1>1, RowRemoved DEF HeadOK, CatalogueOK
<1>3. Works' = Works \ {w} /\ UNCHANGED <<discipline, binding, unsynced>>
  BY <1>2 DEF Works, RemoveWork
<1>4. \A v \in LabWork \ Works' : work[v].laboratories' = {} /\ work[v].centers' = {}
  BY <1>2, <1>3 DEF SyncInv
<1>5. \A other \in Object \ {object} : Same(other)
  BY <1>2, <1>3 DEF Object, Same, LabsOf, CentersOf, Gone
<1>6. ASSUME NEW other \in Object \ unsynced' PROVE SyncOK(other)'
  <2>1. CASE other # object
    BY <1>3, <1>5, <1>6, <2>1, SameSync DEF SyncInv
  <2>2. CASE other = object
    <3>1. SyncOK(other)
      BY <1>3, <1>6 DEF SyncInv
    <3>2. LabsOf(other)' = {} /\ CentersOf(other)' = {} /\ Gone(other)'
      BY <1>2, <1>3, <2>2 DEF LabsOf, CentersOf, Gone
    <3>3. CentersOfLabs(other)' = {}
      BY <3>2 DEF CentersOfLabs
    <3>4. \A v \in Staff : On(v, other)' <=> On(v, other)
      BY <1>3 DEF On
    <3> QED BY <3>1, <3>2, <3>3, <3>4 DEF SyncOK
  <2> QED BY <2>1, <2>2
<1> QED BY <1>4, <1>6 DEF SyncInv

LEMMA StandRemovedSync ==
  ASSUME HeadOK, SyncInv, NEW u \in Staff, NEW s \in Stand, RemoveStand(u, s)
  PROVE  SyncInv'
<1>0. work' = [w \in LabWork |-> WithoutStand(work[w], s)]
  BY DEF RemoveStand, WithoutStand
<1>1. \A w \in LabWork : work[w] \in WorkRow
  BY DEF HeadOK, CatalogueOK
<1>2. \A w \in LabWork : /\ work'[w].status = work[w].status
                         /\ work'[w].laboratories = work[w].laboratories
                         /\ work'[w].centers = work[w].centers
  BY <1>0, <1>1, StandTaken
<1>3. Works' = Works /\ UNCHANGED <<discipline, binding, unsynced>>
  BY <1>2 DEF Works, RemoveStand, headVars
<1>4. \A object \in Object : Same(object)
  BY <1>2, <1>3 DEF Object, Same, LabsOf, CentersOf, Gone
<1>5. \A w \in LabWork \ Works' : work[w].laboratories' = {} /\ work[w].centers' = {}
  BY <1>2, <1>3 DEF SyncInv
<1> QED BY <1>3, <1>4, <1>5, SyncFrame

LEMMA FoldersSync ==
  ASSUME HeadOK, SyncInv, NEW u \in Staff,
         \/ \E f \in Folder : RemoveFolder(u, f)
         \/ \E d \in Discipline, f \in Folder \cup {None} : MoveToFolder(u, d, f)
  PROVE  SyncInv'
<1>1. \A d \in Discipline : /\ discipline'[d].laboratories = discipline[d].laboratories
                            /\ discipline'[d].centers = discipline[d].centers
  <2>1. ASSUME NEW f \in Folder, RemoveFolder(u, f)
        PROVE  \A d \in Discipline : /\ discipline'[d].laboratories = discipline[d].laboratories
                                     /\ discipline'[d].centers = discipline[d].centers
    <3>1. discipline' = [d \in Discipline |-> WithoutFolder(discipline[d], f)]
      BY <2>1, FolderRemoved
    <3>2. \A d \in Discipline : discipline[d] \in DisciplineRow
      BY DEF HeadOK, CatalogueOK
    <3> QED BY <3>1, <3>2, FolderTaken
  <2> QED BY <2>1, DisciplineMoved
<1>2. UNCHANGED <<work, binding, unsynced>>
  BY DEF RemoveFolder, MoveToFolder, headVars
<1>3. \A object \in Object : Same(object)
  BY <1>1, <1>2 DEF Object, Same, LabsOf, CentersOf, Gone, Works
<1> QED BY <1>2, <1>3, SyncFrame DEF SyncInv, Works

LEMMA CentersReadSync ==
  ASSUME HeadOK, SyncInv, NEW u \in Staff, ReadCenters(u)
  PROVE  SyncInv'
<1>1. /\ binding'[u].step = "save" /\ binding'[u].object = binding[u].object
      /\ binding'[u].centers = CentersOfLabs(binding[u].object)
      /\ \A v \in Staff \ {u} : binding'[v] = binding[v]
      /\ binding[u].step = "read"
  BY CentersRead DEF ReadCenters
<1>2. UNCHANGED <<discipline, work, unsynced>>
  BY DEF ReadCenters, catalogue
<1>3. \A object \in Object : /\ CentersOfLabs(object)' = CentersOfLabs(object)
                             /\ CentersOf(object)' = CentersOf(object)
                             /\ Gone(object)' <=> Gone(object)
  BY <1>2 DEF CentersOfLabs, CentersOf, LabsOf, Gone, Works
<1>4. ASSUME NEW object \in Object \ unsynced PROVE SyncOK(object)'
  <2>1. SyncOK(object)
    BY <1>4 DEF SyncInv
  <2>2. \A v \in Staff : On(v, object)' <=> On(v, object)
    BY <1>1 DEF On
  <2>3. Busy(object)' <=> Busy(object)
    BY <2>2 DEF On, Busy
  <2>4. \A v \in Staff : On(v, object)' /\ binding'[v].step = "save" =>
          Gone(object)' \/ binding'[v].centers = CentersOfLabs(object)'
    <3>1. ASSUME NEW v \in Staff, On(v, object)', binding'[v].step = "save"
          PROVE  Gone(object)' \/ binding'[v].centers = CentersOfLabs(object)'
      <4>1. CASE v = u
        <5>1. binding[u].object = object
          BY <1>1, <3>1, <4>1 DEF On
        <5> QED BY <1>1, <1>3, <4>1, <5>1
      <4>2. CASE v # u
        BY <1>1, <1>3, <2>1, <2>2, <3>1, <4>2 DEF SyncOK
      <4> QED BY <4>1, <4>2
    <3> QED BY <3>1
  <2> QED BY <1>3, <2>1, <2>2, <2>3, <2>4 DEF SyncOK
<1> QED BY <1>2, <1>4 DEF SyncInv, Works

(* Saving writes the centres of one object, and leaves its laboratories.     *)
LEMMA OneCentered ==
  ASSUME HeadOK, SyncInv, NEW u \in Staff, SaveCenters(u), NEW object \in Object, object = binding[u].object
  PROVE  /\ \A other \in Object \ {object} : Same(other)
         /\ LabsOf(object)' = LabsOf(object)
         /\ Works' = Works
         /\ Gone(object) => CentersOf(object)' = CentersOf(object)
         /\ ~Gone(object) => CentersOf(object)' = binding[u].centers
         /\ \A w \in LabWork \ Works : work'[w] = work[w]
<1> DEFINE id == object[2]
<1>0. PICK cs \in SUBSET Center : cs = binding[u].centers
  BY CentersSaved DEF Request
<1>1. CASE object[1] = "work"
  <2>1. id \in LabWork /\ object = <<"work", id>>
    BY <1>1 DEF Object
  <2>2. /\ work' = IF id \in Works THEN [work EXCEPT ![id] = WithCenters(work[id], cs)] ELSE work
        /\ UNCHANGED discipline
    BY <1>0, <1>1, CentersSaved
  <2>3. work \in [LabWork -> WorkRow] /\ work[id] \in WorkRow
    BY <2>1 DEF HeadOK, CatalogueOK
  <2>4. /\ WithCenters(work[id], cs).centers = cs
        /\ WithCenters(work[id], cs).status = work[id].status
        /\ WithCenters(work[id], cs).laboratories = work[id].laboratories
    BY <2>3, WorkCentered
  <2>5. /\ \A w \in LabWork \ {id} : work'[w] = work[w]
        /\ work'[id].status = work[id].status /\ work'[id].laboratories = work[id].laboratories
        /\ id \notin Works => work'[id] = work[id]
        /\ id \in Works => work'[id].centers = cs
    BY <2>1, <2>2, <2>3, <2>4
  <2>6. Works' = Works
    BY <2>1, <2>5 DEF Works
  <2>7. \A other \in Object \ {object} : Same(other)
    BY <2>1, <2>2, <2>5, <2>6 DEF Object, Same, LabsOf, CentersOf, Gone
  <2>8. LabsOf(object)' = LabsOf(object)
    BY <2>1, <2>5 DEF LabsOf
  <2>9. /\ Gone(object) => CentersOf(object)' = CentersOf(object)
        /\ ~Gone(object) => CentersOf(object)' = cs
    BY <1>1, <2>1, <2>5 DEF Gone, CentersOf
  <2>10. \A w \in LabWork \ Works : work'[w] = work[w]
    BY <2>5
  <2> QED BY <1>0, <2>6, <2>7, <2>8, <2>9, <2>10
<1>2. CASE object[1] # "work"
  <2>1. id \in Discipline /\ object = <<"discipline", id>>
    BY <1>2 DEF Object
  <2>2. /\ discipline' = [discipline EXCEPT ![id] = WithCenters(discipline[id], cs)]
        /\ UNCHANGED work
    BY <1>0, <1>2, CentersSaved
  <2>3. discipline \in [Discipline -> DisciplineRow] /\ discipline[id] \in DisciplineRow
    BY <2>1 DEF HeadOK, CatalogueOK
  <2>4. /\ WithCenters(discipline[id], cs).centers = cs
        /\ WithCenters(discipline[id], cs).laboratories = discipline[id].laboratories
    BY <2>3, DisciplineCentered
  <2>5. /\ \A d \in Discipline \ {id} : discipline'[d] = discipline[d]
        /\ discipline'[id].laboratories = discipline[id].laboratories
        /\ discipline'[id].centers = cs
    BY <2>1, <2>2, <2>3, <2>4
  <2>6. Works' = Works
    BY <2>2 DEF Works
  <2>7. \A other \in Object \ {object} : Same(other)
    BY <2>1, <2>2, <2>5, <2>6 DEF Object, Same, LabsOf, CentersOf, Gone
  <2>8. LabsOf(object)' = LabsOf(object) /\ ~Gone(object) /\ CentersOf(object)' = cs
    BY <1>2, <2>1, <2>5 DEF LabsOf, Gone, CentersOf
  <2> QED BY <1>0, <2>2, <2>6, <2>7, <2>8
<1> QED BY <1>1, <1>2

LEMMA CentersSavedSync ==
  ASSUME HeadOK, SyncInv, NEW u \in Staff, SaveCenters(u)
  PROVE  SyncInv'
<1>0. binding[u] \in Request
  BY CentersSaved
<1>1. PICK object \in Object : object = binding[u].object
  BY <1>0 DEF Request
<1>2. /\ binding'[u] = NoRequest /\ \A v \in Staff \ {u} : binding'[v] = binding[v]
      /\ binding[u].step = "save" /\ unsynced' = unsynced
  BY CentersSaved DEF SaveCenters
<1>3. /\ \A other \in Object \ {object} : Same(other)
      /\ LabsOf(object)' = LabsOf(object)
      /\ Works' = Works
      /\ Gone(object) => CentersOf(object)' = CentersOf(object)
      /\ ~Gone(object) => CentersOf(object)' = binding[u].centers
      /\ \A w \in LabWork \ Works : work'[w] = work[w]
  BY <1>1, OneCentered
<1>4. \A w \in LabWork \ Works' : work[w].laboratories' = {} /\ work[w].centers' = {}
  BY <1>3 DEF SyncInv
<1>5. ASSUME NEW other \in Object \ unsynced, other # object PROVE SyncOK(other)'
  <2>1. SyncOK(other) /\ Same(other)
    BY <1>3, <1>5 DEF SyncInv
  <2>2. \A v \in Staff : On(v, other)' <=> On(v, other)
    BY <1>1, <1>2, <1>5 DEF On, NoRequest
  <2>3. Busy(other)' <=> Busy(other)
    BY <2>2 DEF On, Busy
  <2>4. \A v \in Staff : On(v, other) => binding'[v] = binding[v]
    BY <1>1, <1>2, <1>5 DEF On
  <2>5. CentersOfLabs(other)' = CentersOfLabs(other)
    BY <2>1 DEF Same, CentersOfLabs
  <2> QED BY <2>1, <2>2, <2>3, <2>4, <2>5 DEF SyncOK, Same
<1>6. ASSUME object \notin unsynced PROVE SyncOK(object)'
  <2>1. SyncOK(object)
    BY <1>6 DEF SyncInv
  <2>2. On(u, object)
    BY <1>1, <1>2 DEF On
  <2>3. \A v \in Staff : ~On(v, object)'
    BY <1>2, <2>1, <2>2 DEF SyncOK, On, NoRequest
  <2>4. CentersOfLabs(object)' = CentersOfLabs(object)
    BY <1>3 DEF CentersOfLabs
  <2>5. CentersOf(object)' = CentersOfLabs(object)
    <3>1. CASE Gone(object)
      <4>1. CentersOf(object) = {} /\ LabsOf(object) = {}
        <5>1. object[1] = "work" /\ object[2] \in LabWork \ Works
          BY <3>1 DEF Gone, Object
        <5> QED BY <5>1 DEF SyncInv, CentersOf, LabsOf
      <4> QED BY <1>3, <3>1, <4>1 DEF CentersOfLabs
    <3>2. CASE ~Gone(object)
      BY <1>2, <1>3, <2>1, <2>2, <3>2 DEF SyncOK
    <3> QED BY <3>1, <3>2
  <2> QED BY <2>3, <2>4, <2>5 DEF SyncOK
<1> QED BY <1>2, <1>4, <1>5, <1>6 DEF SyncInv

LEMMA AbandonedSync ==
  ASSUME HeadOK, SyncInv, NEW u \in Staff, Abandon(u)
  PROVE  SyncInv'
<1>0. binding[u] \in Request
  BY Abandoned
<1>1. PICK object \in Object : object = binding[u].object
  BY <1>0 DEF Request
<1>2. /\ binding'[u] = NoRequest /\ \A v \in Staff \ {u} : binding'[v] = binding[v]
      /\ unsynced' = unsynced \cup {object} /\ UNCHANGED <<discipline, work>>
  BY <1>1, Abandoned DEF Abandon, catalogue
<1>3. ASSUME NEW other \in Object \ unsynced' PROVE SyncOK(other)'
  <2>1. SyncOK(other) /\ other # object
    BY <1>2, <1>3 DEF SyncInv
  <2>2. \A v \in Staff : On(v, other)' <=> On(v, other)
    BY <1>1, <1>2, <2>1 DEF On, NoRequest
  <2>3. Busy(other)' <=> Busy(other)
    BY <2>2 DEF On, Busy
  <2>4. \A v \in Staff : On(v, other) => binding'[v] = binding[v]
    BY <1>1, <1>2, <2>1 DEF On
  <2>5. /\ CentersOfLabs(other)' = CentersOfLabs(other) /\ CentersOf(other)' = CentersOf(other)
        /\ Gone(other)' <=> Gone(other)
    BY <1>2 DEF CentersOfLabs, CentersOf, LabsOf, Gone, Works
  <2> QED BY <2>1, <2>2, <2>3, <2>4, <2>5 DEF SyncOK
<1> QED BY <1>2, <1>3 DEF SyncInv, Works

-------------------------------------------------------------------------------
(* Equipment                                                                 *)

StandsInPlace == \A s \in Stands : CenterOfRoom[stand[s].room] = CenterOfStand[s]
RoomsInPlace ==
  \A r \in Room : room[r].laboratory # None => CenterOfLab[room[r].laboratory] = CenterOfRoom[r]
WorkInPlace(row) ==
  row.status = "LIVE" /\ row.room # None /\ row.stand # None
    => CenterOfRoom[row.room] = CenterOfStand[row.stand]

LEMMA EquipmentParts ==
  EquipmentInOneCenter <=> StandsInPlace /\ RoomsInPlace /\ \A w \in LabWork : WorkInPlace(work[w])
BY DEF EquipmentInOneCenter, StandsInPlace, RoomsInPlace, WorkInPlace, Works

LEMMA EquipmentUnchanged ==
  ASSUME EquipmentInOneCenter, UNCHANGED <<stand, room, work>>
  PROVE  EquipmentInOneCenter'
BY DEF EquipmentInOneCenter, Stands, Works

(* One row of the lab works is written.                                      *)
LEMMA WorkRowInPlace ==
  ASSUME HeadOK, EquipmentInOneCenter, NEW w \in LabWork, NEW row, WorkInPlace(row),
         work' = [work EXCEPT ![w] = row], UNCHANGED <<stand, room>>
  PROVE  EquipmentInOneCenter'
<1>1. work'[w] = row /\ \A v \in LabWork \ {w} : work'[v] = work[v]
  BY DEF HeadOK, CatalogueOK
<1>2. \A v \in LabWork : WorkInPlace(work'[v])
  BY <1>1, EquipmentParts
<1>3. \A v \in Works' : work'[v].room # None /\ work'[v].stand # None =>
                          CenterOfRoom[work'[v].room] = CenterOfStand[work'[v].stand]
  BY <1>2 DEF Works, WorkInPlace
<1> QED BY <1>3 DEF EquipmentInOneCenter, Stands

LEMMA WorkBoundInPlace ==
  ASSUME HeadOK, EquipmentInOneCenter, NEW u \in Staff, NEW w \in LabWork, BindWork(u, w) \/ UnbindWork(u, w)
  PROVE  EquipmentInOneCenter'
<1>1. PICK labs \in SUBSET Laboratory : work' = [work EXCEPT ![w] = WithLabs(work[w], labs)]
  BY WorkBound
<1>2. work[w] \in WorkRow /\ WorkInPlace(work[w])
  BY EquipmentParts DEF HeadOK, CatalogueOK
<1>3. WorkInPlace(WithLabs(work[w], labs))
  BY <1>2, WorkRelabelled DEF WorkInPlace
<1>4. UNCHANGED <<stand, room>>
  BY DEF BindWork, UnbindWork
<1> QED BY <1>1, <1>3, <1>4, WorkRowInPlace

LEMMA WorkFormInPlace ==
  ASSUME HeadOK, EquipmentInOneCenter, NEW u \in Staff, NEW w \in LabWork, NEW form \in WorkForm(u),
         NEW published \in BOOLEAN, SaveWork(u, w, form, published)
  PROVE  EquipmentInOneCenter'
<1>1. work' = [work EXCEPT ![w] = SavedWork(w, form, published)]
  BY WorkFormSaved
<1>2. WorkInPlace(SavedWork(w, form, published))
  BY DEF WorkForm, WorkInPlace, SavedWork
<1>3. UNCHANGED <<stand, room>>
  BY DEF SaveWork
<1> QED BY <1>1, <1>2, <1>3, WorkRowInPlace

LEMMA WorkRemovedInPlace ==
  ASSUME HeadOK, EquipmentInOneCenter, NEW u \in Staff, NEW w \in LabWork, RemoveWork(u, w)
  PROVE  EquipmentInOneCenter'
<1>1. work' = [work EXCEPT ![w] = Removed(work[w])]
  BY WorkRemoved
<1>2. work[w] \in WorkRow
  BY DEF HeadOK, CatalogueOK
<1>3. WorkInPlace(Removed(work[w]))
  BY <1>2, RowRemoved DEF WorkInPlace
<1>4. UNCHANGED <<stand, room>>
  BY DEF RemoveWork
<1> QED BY <1>1, <1>3, <1>4, WorkRowInPlace

LEMMA RoomInPlace ==
  ASSUME HeadOK, EquipmentInOneCenter, NEW u \in Staff, NEW r \in Room, NEW lab, NEW ds, SaveRoom(u, r, lab, ds)
  PROVE  EquipmentInOneCenter'
<1>1. lab # None => CenterOfLab[lab] = CenterOfRoom[r]
  BY DEF SaveRoom, LabHeadLaboratories, LabHeadRooms
<1>2. /\ room'[r].laboratory = lab /\ \A x \in Room \ {r} : room'[x] = room[x]
  BY RoomSaved DEF HeadOK, CatalogueOK
<1>3. RoomsInPlace'
  BY <1>1, <1>2, EquipmentParts DEF RoomsInPlace
<1>4. UNCHANGED <<stand, work>>
  BY DEF SaveRoom
<1> QED BY <1>3, <1>4 DEF EquipmentInOneCenter, RoomsInPlace, Stands, Works

LEMMA StandInPlace ==
  ASSUME HeadOK, EquipmentInOneCenter, NEW u \in Staff, NEW s \in Stand, NEW r \in Room,
         CreateStand(u, s, r) \/ SaveStand(u, s, r)
  PROVE  EquipmentInOneCenter'
<1>1. /\ stand'[s].room = r /\ CenterOfRoom[r] = CenterOfStand[s]
      /\ \A x \in Stand \ {s} : stand'[x] = stand[x]
  BY StandPlaced
<1>2. UNCHANGED <<room, work>>
  BY DEF CreateStand, SaveStand
<1>3. \A x \in Stands' : CenterOfRoom[stand'[x].room] = CenterOfStand[x]
  BY <1>1 DEF Stands, EquipmentInOneCenter
<1> QED BY <1>2, <1>3 DEF EquipmentInOneCenter, Works

LEMMA StandRemovedInPlace ==
  ASSUME HeadOK, EquipmentInOneCenter, NEW u \in Staff, NEW s \in Stand, RemoveStand(u, s)
  PROVE  EquipmentInOneCenter'
<1>1. Stands' = Stands \ {s} /\ \A x \in Stand \ {s} : stand'[x] = stand[x]
  BY StandRemoved
<1>2. work' = [w \in LabWork |-> WithoutStand(work[w], s)] /\ UNCHANGED room
  BY DEF RemoveStand, WithoutStand
<1>3. \A w \in LabWork : work[w] \in WorkRow
  BY DEF HeadOK, CatalogueOK
<1>4. \A w \in LabWork : /\ work'[w].status = work[w].status /\ work'[w].room = work[w].room
                         /\ work'[w].stand \in {work[w].stand, None}
  BY <1>2, <1>3, StandTaken
<1>5. \A w \in Works' : work'[w].room # None /\ work'[w].stand # None =>
                          CenterOfRoom[work'[w].room] = CenterOfStand[work'[w].stand]
  BY <1>4 DEF Works, EquipmentInOneCenter
<1>6. \A x \in Stands' : CenterOfRoom[stand'[x].room] = CenterOfStand[x]
  BY <1>1 DEF EquipmentInOneCenter, Stands
<1> QED BY <1>2, <1>5, <1>6 DEF EquipmentInOneCenter

LEMMA CentersSavedInPlace ==
  ASSUME HeadOK, EquipmentInOneCenter, NEW u \in Staff, SaveCenters(u)
  PROVE  EquipmentInOneCenter'
<1>0. binding[u] \in Request
  BY CentersSaved
<1> DEFINE id == binding[u].object[2]
<1>1. PICK cs \in SUBSET Center, ds \in SUBSET Discipline, r \in Room \cup {None} :
        cs = binding[u].centers /\ ds = binding[u].disciplines /\ r = binding[u].room
  BY <1>0 DEF Request
<1> DEFINE With(row) == [row EXCEPT !.disciplines = @ \cup ds]
<1>2. \A row \in RoomRow : With(row).laboratory = row.laboratory
  BY DEF RoomRow
<1>3. room' = room \/ (r \in Room /\ room' = [room EXCEPT ![r] = With(room[r])])
  BY <1>1 DEF SaveCenters
<1> HIDE DEF With
<1>4. \A x \in Room : room'[x].laboratory = room[x].laboratory
  BY <1>2, <1>3 DEF HeadOK, CatalogueOK
<1>5. /\ work' = work \/ (id \in Works /\ work' = [work EXCEPT ![id] = WithCenters(work[id], cs)])
      /\ UNCHANGED stand
  BY <1>1, CentersSaved DEF SaveCenters
<1>6. \A row \in WorkRow : /\ WithCenters(row, cs).status = row.status
                           /\ WithCenters(row, cs).room = row.room
                           /\ WithCenters(row, cs).stand = row.stand
  BY WorkCentered
<1>7. \A w \in LabWork : /\ work'[w].status = work[w].status
                         /\ work'[w].room = work[w].room /\ work'[w].stand = work[w].stand
  BY <1>5, <1>6 DEF HeadOK, CatalogueOK, Works
<1> QED BY <1>4, <1>5, <1>7 DEF EquipmentInOneCenter, Stands, Works

-------------------------------------------------------------------------------
(* Every step                                                                *)

HeadInv == HeadOK /\ SyncInv /\ EquipmentInOneCenter

LEMMA HeadUnchanged ==
  ASSUME HeadInv, UNCHANGED <<catalogue, headVars>>
  PROVE  HeadInv'
<1>1. HeadOK'
  BY CatalogueUnchanged DEF HeadInv, HeadOK, LabHeadTypeOK, headVars
<1>2. SyncInv'
  BY SyncUnchanged DEF HeadInv, headVars, catalogue
<1>3. EquipmentInOneCenter'
  BY EquipmentUnchanged DEF HeadInv, catalogue
<1> QED BY <1>1, <1>2, <1>3 DEF HeadInv

LEMMA HeadRequestStep ==
  ASSUME HeadInv, HeadRequest
  PROVE  HeadInv'
<1> USE DEF HeadInv
<1>1. ASSUME NEW u \in Staff, NEW d \in Discipline, BindDiscipline(u, d) \/ UnbindDiscipline(u, d)
      PROVE  HeadInv'
  <2>1. UNCHANGED <<stand, room, work>>
    BY <1>1 DEF BindDiscipline, UnbindDiscipline
  <2> QED BY <1>1, <2>1, DisciplineBound, DisciplineBoundSync, EquipmentUnchanged
<1>2. ASSUME NEW u \in Staff, NEW w \in LabWork, BindWork(u, w) \/ UnbindWork(u, w)
      PROVE  HeadInv'
  BY <1>2, WorkBound, WorkBoundSync, WorkBoundInPlace
<1>3. ASSUME NEW u \in Staff, NEW w \in LabWork, RemoveWork(u, w)
      PROVE  HeadInv'
  BY <1>3, WorkRemoved, WorkRemovedSync, WorkRemovedInPlace
<1>4. ASSUME NEW u \in Staff, NEW w \in LabWork, NEW form \in WorkForm(u), NEW published \in BOOLEAN,
             SaveWork(u, w, form, published), Serves(u)
      PROVE  HeadInv'
  BY <1>4, WorkFormSaved, WorkFormSync, WorkFormInPlace
<1>5. ASSUME NEW u \in Staff, NEW r \in Room, NEW lab, NEW ds, SaveRoom(u, r, lab, ds)
      PROVE  HeadInv'
  <2>1. UNCHANGED <<binding, unsynced, discipline, work>>
    BY <1>5 DEF SaveRoom, headVars
  <2> QED BY <1>5, <2>1, RoomSaved, SyncUnchanged, RoomInPlace
<1>6. ASSUME NEW u \in Staff, NEW s \in Stand, NEW r \in Room, CreateStand(u, s, r) \/ SaveStand(u, s, r)
      PROVE  HeadInv'
  <2>1. UNCHANGED <<binding, unsynced, discipline, work>>
    BY <1>6 DEF CreateStand, SaveStand, headVars
  <2> QED BY <1>6, <2>1, StandPlaced, SyncUnchanged, StandInPlace
<1>7. ASSUME NEW u \in Staff, NEW s \in Stand, RemoveStand(u, s)
      PROVE  HeadInv'
  BY <1>7, StandRemoved, StandRemovedSync, StandRemovedInPlace
<1>8. ASSUME NEW u \in Staff, NEW f \in Folder, SaveFolder(u, f)
      PROVE  HeadInv'
  <2>1. UNCHANGED <<binding, unsynced, discipline, work, stand, room>>
    BY <1>8 DEF SaveFolder, headVars
  <2> QED BY <1>8, <2>1, FolderSaved, SyncUnchanged, EquipmentUnchanged
<1>9. ASSUME NEW u \in Staff, NEW f \in Folder, RemoveFolder(u, f)
      PROVE  HeadInv'
  <2>1. UNCHANGED <<stand, room, work>>
    BY <1>9 DEF RemoveFolder
  <2> QED BY <1>9, <2>1, FolderRemoved, FoldersSync, EquipmentUnchanged
<1>10. ASSUME NEW u \in Staff, NEW d \in Discipline, NEW f \in Folder \cup {None}, MoveToFolder(u, d, f)
       PROVE  HeadInv'
  <2>1. UNCHANGED <<stand, room, work>>
    BY <1>10 DEF MoveToFolder
  <2> QED BY <1>10, <2>1, DisciplineMoved, FoldersSync, EquipmentUnchanged
<1>11. ASSUME NEW u \in Staff, NEW w \in LabWork, NEW r \in Room, NEW t \in Staff \cup {None},
              AddScheduleEntry(u, w, r, t)
       PROVE  HeadInv'
  <2>1. UNCHANGED <<binding, unsynced, discipline, work, stand, room>>
    BY <1>11 DEF AddScheduleEntry, catalogue
  <2> QED BY <1>11, <2>1, EntryAdded, SyncUnchanged, EquipmentUnchanged
<1>12. ASSUME NEW u \in Staff, NEW p \in Staff,
              TakePerson(u, p) \/ \E ds \in SUBSET Discipline : SetPersonDisciplines(u, p, ds)
       PROVE  HeadInv'
  <2>1. UNCHANGED <<binding, unsynced, discipline, work, stand, room>>
    BY <1>12 DEF TakePerson, SetPersonDisciplines, headVars
  <2> QED BY <1>12, <2>1, PeopleSaved, SyncUnchanged, EquipmentUnchanged
<1> QED
  <2>1. PICK u \in Staff :
          \/ \E d \in Discipline : BindDiscipline(u, d) \/ UnbindDiscipline(u, d)
          \/ \E w \in LabWork : BindWork(u, w) \/ UnbindWork(u, w) \/ DeleteWork(u, w)
          \/ \E form \in WorkForm(u), w \in LabWork :
               (\E published \in BOOLEAN : UpdateWork(u, w, form, published)) \/ CreateWork(u, w, form)
          \/ \E r \in Room, lab \in Laboratory \cup {None}, ds \in SUBSET Discipline : UpdateRoom(u, r, lab, ds)
          \/ \E s \in Stand, r \in Room : CreateStand(u, s, r) \/ UpdateStand(u, s, r)
          \/ \E s \in Stand : DeleteStand(u, s)
          \/ \E f \in Folder : CreateFolder(u, f) \/ DeleteFolder(u, f)
          \/ \E d \in Discipline, f \in Folder \cup {None} : AssignFolder(u, d, f)
          \/ \E w \in LabWork, r \in Room, t \in Staff \cup {None} : AddScheduleEntry(u, w, r, t)
          \/ \E p \in Staff : BindPerson(u, p) \/ (\E ds \in SUBSET Discipline : SetPersonDisciplines(u, p, ds))
    BY DEF HeadRequest
  <2>2. CASE \E d \in Discipline : BindDiscipline(u, d) \/ UnbindDiscipline(u, d)
    BY <1>1, <2>2
  <2>3. CASE \E w \in LabWork : BindWork(u, w) \/ UnbindWork(u, w) \/ DeleteWork(u, w)
    BY <1>2, <1>3, <2>3 DEF DeleteWork
  <2>4. CASE \E form \in WorkForm(u), w \in LabWork :
               (\E published \in BOOLEAN : UpdateWork(u, w, form, published)) \/ CreateWork(u, w, form)
    <3>1. PICK form \in WorkForm(u), w \in LabWork :
            (\E published \in BOOLEAN : UpdateWork(u, w, form, published)) \/ CreateWork(u, w, form)
      BY <2>4
    <3>2. \E published \in BOOLEAN : SaveWork(u, w, form, published) /\ Serves(u)
      BY <3>1 DEF UpdateWork, CreateWork, SaveNewWork
    <3> HIDE DEF HeadInv
    <3> QED BY <1>4, <3>1, <3>2
  <2>5. CASE \E r \in Room, lab \in Laboratory \cup {None}, ds \in SUBSET Discipline : UpdateRoom(u, r, lab, ds)
    BY <1>5, <2>5 DEF UpdateRoom
  <2>6. CASE \E s \in Stand, r \in Room : CreateStand(u, s, r) \/ UpdateStand(u, s, r)
    BY <1>6, <2>6 DEF UpdateStand
  <2>7. CASE \E s \in Stand : DeleteStand(u, s)
    BY <1>7, <2>7 DEF DeleteStand
  <2>8. CASE \E f \in Folder : CreateFolder(u, f) \/ DeleteFolder(u, f)
    BY <1>8, <1>9, <2>8 DEF CreateFolder, DeleteFolder
  <2>9. CASE \E d \in Discipline, f \in Folder \cup {None} : AssignFolder(u, d, f)
    BY <1>10, <2>9 DEF AssignFolder
  <2>10. CASE \E w \in LabWork, r \in Room, t \in Staff \cup {None} : AddScheduleEntry(u, w, r, t)
    BY <1>11, <2>10
  <2>11. CASE \E p \in Staff : BindPerson(u, p) \/ (\E ds \in SUBSET Discipline : SetPersonDisciplines(u, p, ds))
    BY <1>12, <2>11 DEF BindPerson
  <2> HIDE DEF HeadInv
  <2> QED BY <2>1, <2>2, <2>3, <2>4, <2>5, <2>6, <2>7, <2>8, <2>9, <2>10, <2>11

LEMMA DeskStep ==
  ASSUME HeadInv, DeskRequest, UNCHANGED headVars
  PROVE  HeadInv'
<1>1. UNCHANGED <<discipline, work, stand, room>>
  <2>1. ASSUME NEW st \in Student, NEW s \in Session, NEW d \in Discipline,
               \/ BookOnline(st, s, d) \/ BookByApi(st, s, d)
               \/ \E u \in Staff : ManualBooking(u, st, s, d) \/ ManualBookingByApi(u, st, s, d)
        PROVE  UNCHANGED <<discipline, work, stand, room>>
    BY <2>1 DEF BookOnline, BookByApi, ManualBooking, ManualBookingByApi, Insert
  <2>2. ASSUME NEW b \in DOMAIN booking,
               \/ \E st \in Student : CancelOwn(st, b)
               \/ \E u \in Staff : CancelByStaff(u, b) \/ \E new \in StaffStatuses : ChangeStatus(u, b, new)
        PROVE  UNCHANGED <<discipline, work, stand, room>>
    BY <2>2 DEF CancelOwn, CancelByStaff, ChangeStatus, SetStatus
  <2> QED BY <2>1, <2>2 DEF DeskRequest
<1>2. UNCHANGED <<binding, unsynced>>
  BY DEF headVars
<1>3. HeadOK'
  BY DeskTypes DEF HeadInv
<1>4. SyncInv' /\ EquipmentInOneCenter'
  BY <1>1, <1>2, SyncUnchanged, EquipmentUnchanged DEF HeadInv
<1> QED BY <1>3, <1>4 DEF HeadInv

LEMMA ContinueStep ==
  ASSUME HeadInv, Continue
  PROVE  HeadInv'
<1>1. ASSUME NEW u \in Staff, ReadCenters(u) PROVE HeadInv'
  <2>1. UNCHANGED <<stand, room, work>>
    BY <1>1 DEF ReadCenters, catalogue
  <2> QED BY <1>1, <2>1, CentersRead, CentersReadSync, EquipmentUnchanged DEF HeadInv
<1>2. ASSUME NEW u \in Staff, SaveCenters(u) PROVE HeadInv'
  <2>1. HeadOK'
    BY <1>2, CentersSaved DEF HeadInv
  <2> QED BY <1>2, <2>1, CentersSavedSync, CentersSavedInPlace DEF HeadInv
<1>3. ASSUME NEW u \in Staff, Abandon(u) PROVE HeadInv'
  <2>1. UNCHANGED <<stand, room, work>>
    BY <1>3 DEF Abandon, catalogue
  <2>2. HeadOK'
    BY <1>3, Abandoned DEF HeadInv
  <2> QED BY <1>3, <2>1, <2>2, AbandonedSync, EquipmentUnchanged DEF HeadInv
<1> QED BY <1>1, <1>2, <1>3 DEF Continue

LEMMA ReplyUnchanged ==
  ASSUME ReplyInv, UNCHANGED <<ticket, reply, overlapped>>, clock' \in Hours
  PROVE  ReplyInv'
<1>1. SupportTypeOK'
  BY DEF ReplyInv, SupportTypeOK
<1>2. \A t \in DOMAIN ticket \ overlapped : ReplyOK(t)'
  BY DEF ReplyInv, ReplyOK, Answering
<1> QED BY <1>1, <1>2 DEF ReplyInv

LEMMA SupportStep ==
  ASSUME ReplyInv, SupportRequest \/ SupportContinue
  PROVE  ReplyInv'
<1>1. ASSUME NEW p \in Person, NEW c \in Center \cup {None},
             CreateByApi(p, c) \/ CreateTicket(p, c)
      PROVE  ReplyInv'
  BY <1>1, TicketCreated DEF CreateByApi, CreateTicket
<1>2. ASSUME NEW p \in Person, NEW t \in DOMAIN ticket,
             StaffReply(p, t) \/ FollowUp(p, t) \/ MessageByApi(p, t)
      PROVE  ReplyInv'
  <2>1. \E side \in {"STUDENT", "STAFF"} : Write(p, t, side)
    BY <1>2 DEF StaffReply, FollowUp, MessageByApi
  <2> QED BY <2>1, MessageWritten
<1>3. ASSUME NEW p \in Person, NEW t \in DOMAIN ticket,
             DeleteTicket(p, t) \/ \E c \in Center \cup {None} : MoveTicket(p, t, c)
      PROVE  ReplyInv'
  BY <1>3, TicketDeleted, TicketMoved
<1>4. CASE Wait
  BY <1>4, ReplyUnchanged DEF Wait
<1>5. CASE SupportContinue
  BY <1>5, StatusSaved, StatusLost DEF SupportContinue
<1>6. CASE SupportRequest
  BY <1>1, <1>2, <1>3, <1>4, <1>6 DEF SupportRequest
<1> QED BY <1>5, <1>6

-------------------------------------------------------------------------------
(* The invariant                                                             *)

CampusInv == HeadInv /\ ReplyInv

LEMMA CampusInvImplies ==
  CampusInv => TypeOK /\ CentersFollowLabs /\ EquipmentInOneCenter /\ StatusFollowsLastMessage
<1>1. CampusInv => TypeOK
  BY TypeParts DEF CampusInv, HeadInv, HeadOK, ReplyInv
<1>2. ReplyInv => StatusFollowsLastMessage
  BY DEF ReplyInv, ReplyOK, StatusFollowsLastMessage
<1> QED BY <1>1, <1>2, SyncInvImplies DEF CampusInv, HeadInv

LEMMA CampusInit ==
  ASSUME Init
  PROVE  CampusInv
<1>1. CatalogueOK
  BY CampusAssumption DEF Init, CatalogueOK, RoomRow
<1>2. ToolsOK
  BY CampusAssumption DEF Init, ToolsOK, StandRow, FolderRow
<1>3. BookingsOK
  BY DEF Init, BookingsOK
<1>4. LabHeadTypeOK
  BY DEF Init, LabHeadTypeOK
<1>5. SyncInv
  <2>1. \A object \in Object : ~Busy(object) /\ \A u \in Staff : ~On(u, object)
    BY DEF Init, Busy, On, NoRequest
  <2>2. \A object \in Object : CentersOf(object) = CentersOfLabs(object)
    BY CampusAssumption DEF Init, CentersOf, CentersOfLabs, LabsOf, Object
  <2>3. \A w \in LabWork \ Works : work[w].laboratories = {} /\ work[w].centers = {}
    BY CampusAssumption DEF Init, Works
  <2> QED BY <2>1, <2>2, <2>3 DEF SyncInv, SyncOK
<1>6. EquipmentInOneCenter
  BY CampusAssumption, ScopeAssumption DEF Init, EquipmentInOneCenter, Stands, Works
<1>7. ReplyInv
  <2>1. clock \in Hours
    BY SupportAssumption DEF Init, SupportInit
  <2>2. SupportTypeOK
    BY <2>1 DEF Init, SupportInit, SupportTypeOK
  <2> QED BY <2>2 DEF ReplyInv, Init, SupportInit
<1> QED BY <1>1, <1>2, <1>3, <1>4, <1>5, <1>6, <1>7 DEF CampusInv, HeadInv, HeadOK

LEMMA CampusStep ==
  ASSUME CampusInv, [Next]_vars
  PROVE  CampusInv'
<1> USE DEF CampusInv
<1>1. CASE HeadRequest /\ UNCHANGED supportVars
  <2>1. ReplyInv'
    BY <1>1, ReplyUnchanged DEF supportVars, ReplyInv, SupportTypeOK
  <2> QED BY <1>1, <2>1, HeadRequestStep
<1>2. CASE DeskRequest /\ UNCHANGED <<headVars, supportVars>>
  <2>1. ReplyInv'
    BY <1>2, ReplyUnchanged DEF supportVars, ReplyInv, SupportTypeOK
  <2> QED BY <1>2, <2>1, DeskStep
<1>3. CASE (SupportRequest \/ SupportContinue) /\ UNCHANGED <<catalogue, headVars>>
  BY <1>3, HeadUnchanged, SupportStep
<1>4. CASE Continue /\ UNCHANGED supportVars
  <2>1. ReplyInv'
    BY <1>4, ReplyUnchanged DEF supportVars, ReplyInv, SupportTypeOK
  <2> QED BY <1>4, <2>1, ContinueStep
<1>5. CASE UNCHANGED vars
  <2>1. ReplyInv'
    BY <1>5, ReplyUnchanged DEF vars, supportVars, ReplyInv, SupportTypeOK
  <2> QED BY <1>5, <2>1, HeadUnchanged DEF vars
<1> QED BY <1>1, <1>2, <1>3, <1>4, <1>5 DEF Next

LEMMA CampusInvariant == Spec => []CampusInv
<1>1. Init => CampusInv
  BY CampusInit
<1>2. CampusInv /\ [Next]_vars => CampusInv'
  BY CampusStep
<1> QED BY <1>1, <1>2, PTL DEF Spec

(* Every row stays of its type: no request of a head, of staff, of a student *)
(* or of the support desk leaves a booking of a removed lab work, a          *)
(* discipline in a removed folder, or a stand that exists without a room.    *)
THEOREM TypeCorrect == Spec => []TypeOK
<1>1. CampusInv => TypeOK
  BY CampusInvImplies
<1> QED BY <1>1, CampusInvariant, PTL

(* Whatever heads of any number of centres bind and unbind, a discipline or  *)
(* a lab work whose last binding was alone and ran to its end has the        *)
(* training centres of its laboratories, though the laboratory, the query    *)
(* and the write are three steps and workers die between them.               *)
THEOREM CentersCorrect == Spec => []CentersFollowLabs
<1>1. CampusInv => CentersFollowLabs
  BY CampusInvImplies
<1> QED BY <1>1, CampusInvariant, PTL

(* Heads of different centres, who also change laboratories and rooms, never *)
(* leave a stand, a room or a lab work with equipment of two centres.        *)
THEOREM EquipmentCorrect == Spec => []EquipmentInOneCenter
<1>1. CampusInv => EquipmentInOneCenter
  BY CampusInvImplies
<1> QED BY <1>1, CampusInvariant, PTL

(* The status of a ticket tells whose turn it is, whoever else replies to    *)
(* other tickets, moves them or deletes them in between, unless two replies  *)
(* to it overlapped or one was cut short.                                    *)
THEOREM StatusCorrect == Spec => []StatusFollowsLastMessage
<1>1. CampusInv => StatusFollowsLastMessage
  BY CampusInvImplies
<1> QED BY <1>1, CampusInvariant, PTL

-------------------------------------------------------------------------------
(* Pages                                                                     *)

LEMMA RoomsFollowCenters ==
  ASSUME CampusInv
  PROVE  RoomsOfWorksListed
<1> SUFFICES ASSUME NEW st \in Student, NEW w \in StudentWorks(st), work[w].room # None,
                    CenterOfRoom[work[w].room] \in CentersOfLabs(<<"work", w>>),
                    ~Busy(<<"work", w>>), <<"work", w>> \notin unsynced
             PROVE  work[w].room \in StudentRooms(st)
  BY DEF RoomsOfWorksListed, StudentRoomsPage
<1>1. w \in LabWork /\ work[w].room \in Room
  BY DEF StudentWorks, PublishedWorks, Works, CampusInv, HeadInv, HeadOK, CatalogueOK, WorkRow
<1>2. work[w].centers = CentersOfLabs(<<"work", w>>)
  <2>1. <<"work", w>> \in Object /\ CentersFollowLabs
    BY <1>1, CampusInvImplies DEF Object
  <2> QED BY <2>1 DEF CentersFollowLabs, CentersOf
<1>3. work[w].centers \subseteq StudentSupportCenters(st)
  BY DEF StudentSupportCenters
<1> QED BY <1>1, <1>2, <1>3 DEF StudentRooms

(* A student finds a lab work under its room wherever the room stands, with  *)
(* any number of centres whose heads bind the work: the page goes by centres *)
(* that are, by CentersFollowLabs, those of the work's laboratories.         *)
THEOREM RoomsListed == Spec => []RoomsOfWorksListed
<1>1. CampusInv => RoomsOfWorksListed
  BY RoomsFollowCenters
<1> QED BY <1>1, CampusInvariant, PTL

(* Whatever the list of folders, a discipline is in exactly one group.       *)
LEMMA OneGroup ==
  ASSUME CatalogueOK, NEW ds \in SUBSET Discipline, NEW folders \in SUBSET Folder, NEW d \in ds
  PROVE  \E f \in folders \cup {None} :
           {g \in DOMAIN FolderGroups(ds, folders) : d \in FolderGroups(ds, folders)[g]} = {f}
<1>1. discipline[d].folder \in Folder \cup {None} /\ None \notin folders
  BY ScopeAssumption DEF CatalogueOK, DisciplineRow
<1>2. PICK f \in folders \cup {None} :
        f = IF discipline[d].folder \in folders THEN discipline[d].folder ELSE None
  BY <1>1
<1>3. \A g \in folders \cup {None} : d \in FolderGroups(ds, folders)[g] <=> g = f
  BY <1>1, <1>2 DEF FolderGroups
<1> QED BY <1>3, ScopeAssumption DEF FolderGroups

LEMMA FoldersKeepAll ==
  ASSUME CatalogueOK
  PROVE  FoldersHideNothing
<1>1. ASSUME NEW p \in Student \cup Staff, NEW d \in DisciplinesOf(p)
      PROVE  LET page == DisciplinesPage(p)  on == FoldersWith(page, d)
             IN Cardinality(on) = 1 /\ \A f \in on : page[f][d] = LabWorksPage(p, d)
  <2> DEFINE ds == DisciplinesOf(p)
             groups == FolderGroups(ds, OwnFolders(ds))
             page == DisciplinesPage(p)
  <2>1. ds \in SUBSET Discipline
    BY ScopeAssumption DEF DisciplinesOf, StudentDisciplines, PublishedDisciplines, StaffDisciplines, Scoped
  <2>2. OwnFolders(ds) \in SUBSET Folder
    BY <2>1 DEF OwnFolders, CatalogueOK, DisciplineRow
  <2>3. PICK f \in OwnFolders(ds) \cup {None} : {g \in DOMAIN groups : d \in groups[g]} = {f}
    <3> HIDE DEF ds
    <3>1. d \in ds
      BY DEF ds
    <3> QED BY <2>1, <2>2, <3>1, OneGroup
  <2>4. page = [g \in DOMAIN groups |-> [e \in groups[g] |-> WorksFor(p, e)]]
    BY DEF DisciplinesPage
  <2> HIDE DEF groups, page
  <2>5. FoldersWith(page, d) = {f}
    BY <2>3, <2>4 DEF FoldersWith
  <2>6. Cardinality({f}) = 1
    BY FS_Singleton
  <2>7. \A g \in FoldersWith(page, d) : page[g][d] = LabWorksPage(p, d)
    BY <2>4 DEF FoldersWith, LabWorksPage
  <2> QED BY <2>5, <2>6, <2>7 DEF page
<1>2. ASSUME NEW u \in Staff
      PROVE  LET page == BindingsPage(u)
             IN /\ \A d \in ManagedDisciplines(u) : Cardinality(FoldersWith(page, d)) = 1
                /\ \A w \in BindableWorks(u) : \E f \in DOMAIN page : \E d \in DOMAIN page[f] :
                     w \in page[f][d].bindable
  <2> DEFINE ds == ManagedDisciplines(u)
             groups == FolderGroups(ds, LabHeadFolders(u))
             page == BindingsPage(u)
  <2>1. ds \in SUBSET Discipline /\ LabHeadFolders(u) \in SUBSET Folder
    BY ScopeTypes DEF LabHeadFolders, Folders
  <2>2. \A d \in ds : \E f \in LabHeadFolders(u) \cup {None} : {g \in DOMAIN groups : d \in groups[g]} = {f}
    <3> HIDE DEF ds
    <3> QED BY <2>1, OneGroup
  <2>3. page = [g \in DOMAIN groups |-> [d \in groups[g] |->
                  [managed |-> {w \in ManagedWorks(u) : d \in work[w].disciplines},
                   bindable |-> {w \in BindableWorks(u) : d \in work[w].disciplines}]]]
    BY DEF BindingsPage
  <2> HIDE DEF groups, page
  <2>4. ASSUME NEW d \in ds PROVE Cardinality(FoldersWith(page, d)) = 1
    <3>1. PICK f : {g \in DOMAIN groups : d \in groups[g]} = {f}
      BY <2>2
    <3>2. FoldersWith(page, d) = {f}
      BY <2>3, <3>1 DEF FoldersWith
    <3> QED BY <3>2, FS_Singleton
  <2>5. ASSUME NEW w \in BindableWorks(u)
        PROVE  \E f \in DOMAIN page : \E d \in DOMAIN page[f] : w \in page[f][d].bindable
    <3>1. PICK d \in ds : d \in work[w].disciplines
      BY DEF BindableWorks
    <3>2. PICK f : {g \in DOMAIN groups : d \in groups[g]} = {f}
      BY <2>2
    <3>3. f \in DOMAIN page /\ d \in DOMAIN page[f] /\ w \in page[f][d].bindable
      BY <2>3, <3>1, <3>2
    <3> QED BY <3>3
  <2> QED BY <2>4, <2>5 DEF page
<1> QED BY <1>1, <1>2 DEF FoldersHideNothing

(* Whatever heads of other faculties do with their folders, every discipline *)
(* is in exactly one group of each page that shows it, with its lab works.   *)
THEOREM FoldersComplete == Spec => []FoldersHideNothing
<1>1. CampusInv => FoldersHideNothing
  BY FoldersKeepAll DEF CampusInv, HeadInv, HeadOK
<1> QED BY <1>1, CampusInvariant, PTL


-------------------------------------------------------------------------------
(* A member of staff's own bookings                                          *)

BookingsFinite == IsFiniteSet(DOMAIN booking)

(* A step adds at most one booking to the table.                             *)
LEMMA OneBookingMore ==
  ASSUME [Next]_vars
  PROVE  \/ DOMAIN booking' \subseteq DOMAIN booking
         \/ \E id : DOMAIN booking' = DOMAIN booking \cup {id}
<1>1. CASE HeadRequest
  <2>1. PICK u \in Staff :
          \/ UNCHANGED booking
          \/ \E w \in LabWork : RemoveWork(u, w)
    <3>1. PICK u \in Staff :
            \/ \E d \in Discipline : BindDiscipline(u, d) \/ UnbindDiscipline(u, d)
            \/ \E w \in LabWork : BindWork(u, w) \/ UnbindWork(u, w) \/ RemoveWork(u, w)
            \/ \E form \in WorkForm(u), w \in LabWork, published \in BOOLEAN :
                 SaveWork(u, w, form, published)
            \/ \E r \in Room, lab \in Laboratory \cup {None}, ds \in SUBSET Discipline :
                 SaveRoom(u, r, lab, ds)
            \/ \E s \in Stand, r \in Room : CreateStand(u, s, r) \/ SaveStand(u, s, r)
            \/ \E s \in Stand : RemoveStand(u, s)
            \/ \E f \in Folder : SaveFolder(u, f) \/ RemoveFolder(u, f)
            \/ \E d \in Discipline, f \in Folder \cup {None} : MoveToFolder(u, d, f)
            \/ \E w \in LabWork, r \in Room, t \in Staff \cup {None} : AddScheduleEntry(u, w, r, t)
            \/ \E p \in Staff : \/ TakePerson(u, p)
                                \/ \E ds \in SUBSET Discipline : SetPersonDisciplines(u, p, ds)
      BY <1>1, Zenon DEF HeadRequest, DeleteWork, UpdateWork, CreateWork, SaveNewWork, UpdateRoom,
         UpdateStand, DeleteStand, CreateFolder, DeleteFolder, AssignFolder, BindPerson
    <3>2. \A w \in LabWork : BindWork(u, w) \/ UnbindWork(u, w) => UNCHANGED booking
      BY DEF BindWork, UnbindWork
    <3>3. \A d \in Discipline : BindDiscipline(u, d) \/ UnbindDiscipline(u, d) => UNCHANGED booking
      BY DEF BindDiscipline, UnbindDiscipline
    <3>4. \A form, w, published : SaveWork(u, w, form, published) => UNCHANGED booking
      BY DEF SaveWork
    <3>5. \A r, lab, ds : SaveRoom(u, r, lab, ds) => UNCHANGED booking
      BY DEF SaveRoom
    <3>6. \A s, r : CreateStand(u, s, r) \/ SaveStand(u, s, r) \/ RemoveStand(u, s)
                      => UNCHANGED booking
      BY DEF CreateStand, SaveStand, RemoveStand
    <3>7. \A f, d : SaveFolder(u, f) \/ RemoveFolder(u, f) \/ MoveToFolder(u, d, f)
                      => UNCHANGED booking
      BY DEF SaveFolder, RemoveFolder, MoveToFolder
    <3>8. \A w, r, t : AddScheduleEntry(u, w, r, t) => UNCHANGED booking
      BY DEF AddScheduleEntry, catalogue
    <3>9. \A p, ds : TakePerson(u, p) \/ SetPersonDisciplines(u, p, ds) => UNCHANGED booking
      BY DEF TakePerson, SetPersonDisciplines
    <3> QED BY <3>1, <3>2, <3>3, <3>4, <3>5, <3>6, <3>7, <3>8, <3>9, Zenon
  <2>2. \A w \in LabWork : RemoveWork(u, w) => DOMAIN booking' \subseteq DOMAIN booking
    BY DEF RemoveWork
  <2> QED BY <2>1, <2>2
<1>2. CASE DeskRequest
  <2>1. ASSUME NEW st \in Student, NEW s \in Session, NEW d \in Discipline,
               \/ BookOnline(st, s, d) \/ BookByApi(st, s, d)
               \/ \E u \in Staff : ManualBooking(u, st, s, d) \/ ManualBookingByApi(u, st, s, d)
        PROVE  \E id : DOMAIN booking' = DOMAIN booking \cup {id}
    <3>1. PICK by, via : Insert(st, s, d, by, via)
      BY <2>1 DEF BookOnline, BookByApi, ManualBooking, ManualBookingByApi
    <3> QED BY <3>1 DEF Insert
  <2>2. ASSUME NEW b \in DOMAIN booking,
               \/ \E st \in Student : CancelOwn(st, b)
               \/ \E u \in Staff : CancelByStaff(u, b) \/ \E new \in StaffStatuses : ChangeStatus(u, b, new)
        PROVE  DOMAIN booking' \subseteq DOMAIN booking
    <3>1. PICK new : SetStatus(b, new)
      BY <2>2 DEF CancelOwn, CancelByStaff, ChangeStatus
    <3> QED BY <3>1 DEF SetStatus
  <2> QED BY <1>2, <2>1, <2>2 DEF DeskRequest
<1>3. CASE Continue
  BY <1>3 DEF Continue, ReadCenters, SaveCenters, Abandon, catalogue
<1>4. CASE UNCHANGED catalogue
  BY <1>4 DEF catalogue
<1> QED BY <1>1, <1>2, <1>3, <1>4 DEF Next, vars

LEMMA TableFinite == Spec => []BookingsFinite
<1>1. Init => BookingsFinite
  <2>1. Init => DOMAIN booking = {}
    BY DEF Init
  <2> QED BY <2>1, FS_EmptySet DEF BookingsFinite
<1>2. BookingsFinite /\ [Next]_vars => BookingsFinite'
  BY OneBookingMore, FS_Subset, FS_AddElement DEF BookingsFinite
<1> QED BY <1>1, <1>2, PTL DEF Spec

(* The pages and the reports are all cut from staff_booking_filter, which    *)
(* goes by the room or by the laboratories of the lab work.                  *)
LEMMA OwnBookingsKept ==
  ASSUME BookingsOK, BookingsFinite
  PROVE  OwnManualBookingsListed
<1> SUFFICES ASSUME NEW b \in DOMAIN booking,
                    NEW u, u = booking[b].by, u \in Staff, booking[b].via = "WEB",
                    profile[u].laboratory # None,
                    profile[u].laboratory \in work[booking[b].work].laboratories,
                    NEW status, status = booking[b].status,
                    NEW d, d = booking[b].discipline,
                    NEW itself, itself = [status |-> status, discipline |-> d]
             PROVE  /\ b \in StaffBookingsPage(u, itself) \cap AdminBookings(u, itself)
                    /\ ManagedDisciplines(u) # {} => b \in StudentsPage(u)[booking[b].student]
                    /\ status \in {"VISITED", "NO_SHOW"} => b \in Attendance(u, d)
                    /\ status \in Columns => DisciplineSummary(u)[d][status] > 0
  BY DEF OwnManualBookingsListed
<1>1. b \in StaffBookings(u)
  BY DEF StaffBookings, InLabRoom
<1>2. b \in StaffBookingsPage(u, itself) \cap AdminBookings(u, itself)
  BY <1>1 DEF StaffBookingsPage, AdminBookings, Filtered
<1>3. ASSUME ManagedDisciplines(u) # {} PROVE b \in StudentsPage(u)[booking[b].student]
  <2>1. booking[b].student \in Student
    BY DEF BookingsOK, BookingRow
  <2>2. booking[b].student \in StaffStudents(u)
    BY <1>1, <1>3, <2>1 DEF StaffStudents
  <2> QED BY <1>1, <2>2 DEF StudentsPage
<1>4. b \in ReportBookings(u, d) /\ b \in ReportBookings(u, None)
  BY <1>1 DEF ReportBookings, Filtered, NoFilter
<1>5. ASSUME status \in {"VISITED", "NO_SHOW"} PROVE b \in Attendance(u, d)
  BY <1>4, <1>5 DEF Attendance
<1>6. ASSUME status \in Columns PROVE DisciplineSummary(u)[d][status] > 0
  <2> DEFINE all == ReportBookings(u, None)
             counted == {c \in all : booking[c].discipline = d /\ booking[c].status = status}
  <2>1. DisciplineSummary(u)[d][status] = Cardinality(counted)
    BY <1>4, <1>6 DEF DisciplineSummary
  <2>2. b \in counted
    BY <1>4
  <2>3. counted \subseteq DOMAIN booking
    BY DEF ReportBookings, StaffBookings
  <2> HIDE DEF counted
  <2>4. IsFiniteSet(counted)
    BY <2>3, FS_Subset DEF BookingsFinite
  <2> QED BY <2>1, <2>2, <2>4, FS_CardinalityType, FS_EmptySet
<1> QED BY <1>2, <1>3, <1>5, <1>6

(* Whatever rooms change hands and whatever others bind and unbind, a member *)
(* of staff keeps seeing, on every page and in every report, the bookings    *)
(* made by hand for lab works of the own laboratory.                         *)
THEOREM OwnBookingsListed == Spec => []OwnManualBookingsListed
<1>1. CampusInv /\ BookingsFinite => OwnManualBookingsListed
  BY OwnBookingsKept DEF CampusInv, HeadInv, HeadOK
<1> QED BY <1>1, CampusInvariant, TableFinite, PTL


-------------------------------------------------------------------------------
(* Working hours                                                             *)

LEMMA LeastNat ==
  ASSUME NEW S, S \subseteq Nat, S # {}
  PROVE  \E n \in S : \A m \in S : n <= m
<1> DEFINE R == {p \in Nat \X Nat : p[1] < p[2]}
<1>1. IsWellFoundedOn(R, Nat)
  BY NatLessThanWellFounded DEF OpToRel
<1>2. \A x, y \in Nat : x < y => <<x, y>> \in R
  OBVIOUS
<1> HIDE DEF R
<1>3. PICK n \in S : \A m \in S : <<m, n>> \notin R
  BY <1>1, WFMin
<1>4. \A m \in S : n \in Nat /\ m \in Nat /\ ~(m < n)
  BY <1>2, <1>3
<1> QED BY <1>4

LEMMA DayAndHour ==
  ASSUME NEW h \in Nat
  PROVE  \E d \in Nat, r \in 0..23 : h = 24 * d + r /\ d = (h \div 24)
<1>1. PICK d, r : d = (h \div 24) /\ r = (h % 24)
  OBVIOUS
<1>2. d \in Nat /\ r \in 0..23 /\ h = 24 * d + r
  BY <1>1
<1> QED BY <1>1, <1>2

LEMMA WeekdayOf ==
  ASSUME NEW h \in Nat, NEW d \in Nat, 24 * d <= h, h < 24 * (d + 1)
  PROVE  Weekday(h) = d % 7
<1>1. PICK e \in Nat, r \in 0..23 : h = 24 * e + r /\ e = (h \div 24)
  BY DayAndHour
<1>2. e = d
  BY <1>1
<1> QED BY <1>1, <1>2 DEF Weekday

LEMMA DaysOfWeek ==
  ASSUME NEW d \in Nat
  PROVE  /\ (d % 7) \in 0..6
         /\ d % 7 = 5 => (d + 1) % 7 = 6 /\ (d + 2) % 7 = 0
         /\ d % 7 = 6 => (d + 1) % 7 = 0
OBVIOUS

(* To midnight a day stays the day it is.                                    *)
LEMMA RestOfDay ==
  ASSUME NEW c \in Nat
  PROVE  /\ NextMidnight(c) \in Nat /\ NextMidnight(c) > c
         /\ \A h \in c..NextMidnight(c) - 1 : Weekday(h) = Weekday(c)
<1>1. PICK d \in Nat, r \in 0..23 : c = 24 * d + r /\ d = (c \div 24)
  BY DayAndHour
<1>2. NextMidnight(c) = 24 * (d + 1)
  BY <1>1 DEF NextMidnight
<1>3. \A h \in c..24 * (d + 1) - 1 : Weekday(h) = d % 7
  BY <1>1, WeekdayOf
<1>4. Weekday(c) = d % 7
  BY <1>1, WeekdayOf
<1> QED BY <1>1, <1>2, <1>3, <1>4

(* Only hours of a weekend are skipped, and all of them.                     *)
LEMMA SkipsWeekends ==
  ASSUME NEW at \in Nat
  PROVE  LET c == SkipToNextWeekday(at)
         IN /\ c \in Nat /\ c >= at /\ Weekday(c) < 5
            /\ \A h \in at..c - 1 : Weekday(h) >= 5
<1>1. PICK d \in Nat, r \in 0..23 : at = 24 * d + r /\ d = (at \div 24)
  BY DayAndHour
<1>2. NextMidnight(at) = 24 * (d + 1)
  BY <1>1 DEF NextMidnight
<1>3. Weekday(at) = d % 7 /\ (d % 7) \in 0..6
  BY <1>1, WeekdayOf, DaysOfWeek
<1>4. PICK c : c = SkipToNextWeekday(at)
  OBVIOUS
<1>5. CASE d % 7 = 5
  <2>1. c = 24 * (d + 2)
    BY <1>2, <1>3, <1>4, <1>5 DEF SkipToNextWeekday
  <2>2. Weekday(c) = 0
    BY <1>5, <2>1, WeekdayOf, DaysOfWeek
  <2>3. ASSUME NEW h \in at..c - 1 PROVE Weekday(h) >= 5
    <3>1. CASE h < 24 * (d + 1)
      BY <1>1, <1>5, <3>1, WeekdayOf
    <3>2. CASE h >= 24 * (d + 1)
      <4>1. h \in Nat /\ h < 24 * ((d + 1) + 1)
        BY <1>1, <2>1
      <4>2. Weekday(h) = (d + 1) % 7
        BY <3>2, <4>1, WeekdayOf
      <4> QED BY <1>5, <4>2, DaysOfWeek
    <3> QED BY <1>1, <2>1, <3>1, <3>2
  <2> QED BY <1>1, <1>4, <2>1, <2>2, <2>3
<1>6. CASE d % 7 = 6
  <2>1. c = 24 * (d + 1)
    BY <1>2, <1>3, <1>4, <1>6 DEF SkipToNextWeekday
  <2>2. Weekday(c) = 0
    BY <1>6, <2>1, WeekdayOf, DaysOfWeek
  <2>3. ASSUME NEW h \in at..c - 1 PROVE Weekday(h) >= 5
    BY <1>1, <1>6, <2>1, WeekdayOf
  <2> QED BY <1>1, <1>4, <2>1, <2>2, <2>3
<1>7. CASE d % 7 < 5
  <2>1. c = at
    BY <1>3, <1>4, <1>7 DEF SkipToNextWeekday
  <2> QED BY <1>3, <1>4, <1>7, <2>1
<1> QED BY <1>3, <1>5, <1>6, <1>7

LEMMA HoursFinite ==
  ASSUME NEW a \in Int, NEW b \in Int
  PROVE  /\ IsFiniteSet({h \in a..b - 1 : Weekday(h) < 5})
         /\ WeekdayHours(a, b) \in Nat
<1>1. IsFiniteSet(a..b - 1)
  BY FS_Interval
<1>2. IsFiniteSet({h \in a..b - 1 : Weekday(h) < 5})
  BY <1>1, FS_Subset
<1> QED BY <1>2, FS_CardinalityType DEF WeekdayHours

LEMMA HoursNat ==
  ASSUME NEW a \in Int, NEW b \in Int
  PROVE  WeekdayHours(a, b) \in Nat
BY HoursFinite

LEMMA HoursSplit ==
  ASSUME NEW a \in Int, NEW b \in Int, NEW c \in Int, a <= b, b <= c
  PROVE  WeekdayHours(a, c) = WeekdayHours(a, b) + WeekdayHours(b, c)
<1> DEFINE H(from, to) == {h \in from..to - 1 : Weekday(h) < 5}
<1>1. H(a, c) = H(a, b) \cup H(b, c) /\ H(a, b) \cap H(b, c) = {}
  OBVIOUS
<1>2. IsFiniteSet(H(a, b)) /\ IsFiniteSet(H(b, c))
  BY HoursFinite
<1>3. /\ WeekdayHours(a, c) = Cardinality(H(a, c)) /\ WeekdayHours(a, b) = Cardinality(H(a, b))
      /\ WeekdayHours(b, c) = Cardinality(H(b, c))
  BY DEF WeekdayHours
<1> HIDE DEF H
<1>4. Cardinality(H(a, b) \cap H(b, c)) = 0
  BY <1>1, FS_EmptySet
<1>5. Cardinality(H(a, c)) = Cardinality(H(a, b)) + Cardinality(H(b, c)) - 0
  BY <1>1, <1>2, <1>4, FS_Union
<1>6. WeekdayHours(a, b) \in Nat /\ WeekdayHours(b, c) \in Nat
  BY HoursFinite
<1> QED BY <1>3, <1>5, <1>6

LEMMA HoursOfWeekdays ==
  ASSUME NEW a \in Int, NEW b \in Int, a <= b, \A h \in a..b - 1 : Weekday(h) < 5
  PROVE  WeekdayHours(a, b) = b - a
<1>1. {h \in a..b - 1 : Weekday(h) < 5} = a..b - 1
  OBVIOUS
<1>2. Cardinality(a..b - 1) = b - a
  <2>1. a..b - 1 = {} => a = b
    OBVIOUS
  <2>2. Cardinality(a..b - 1) = IF a > b - 1 THEN 0 ELSE (b - 1) - a + 1
    BY FS_Interval
  <2> QED BY <2>1, <2>2
<1> QED BY <1>1, <1>2 DEF WeekdayHours

LEMMA HoursOfWeekends ==
  ASSUME NEW a \in Int, NEW b \in Int, \A h \in a..b - 1 : ~(Weekday(h) < 5)
  PROVE  WeekdayHours(a, b) = 0
<1>1. {h \in a..b - 1 : Weekday(h) < 5} = {}
  OBVIOUS
<1> QED BY <1>1, FS_EmptySet DEF WeekdayHours


(* The moment e at which so many hours of weekdays have passed since at.     *)
Passed(at, left, e) ==
  /\ e \in Nat
  /\ left = 0 => e = at
  /\ left # 0 => e > at /\ WeekdayHours(at, e) = left /\ Weekday(e - 1) < 5

(* An hour before such a moment there is an hour less.                       *)
LEMMA NotEarlier ==
  ASSUME NEW at \in Nat, NEW left \in Nat, left # 0, NEW e, Passed(at, left, e),
         NEW f \in Int, at <= f, f < e
  PROVE  WeekdayHours(at, f) < left
<1>1. e \in Nat /\ e > at /\ WeekdayHours(at, e) = left /\ Weekday(e - 1) < 5
  BY DEF Passed
<1>2. WeekdayHours(at, e) = WeekdayHours(at, f) + WeekdayHours(f, e)
  BY <1>1, HoursSplit
<1>3. WeekdayHours(f, e) = WeekdayHours(f, e - 1) + WeekdayHours(e - 1, e)
  BY <1>1, HoursSplit
<1>4. WeekdayHours(e - 1, e) = 1
  <2>1. \A h \in e - 1..e - 1 : Weekday(h) < 5
    BY <1>1
  <2>2. WeekdayHours(e - 1, e) = e - (e - 1)
    BY <1>1, <2>1, HoursOfWeekdays
  <2> QED BY <1>1, <2>2
<1>5. WeekdayHours(at, f) \in Nat /\ WeekdayHours(f, e - 1) \in Nat
  <2>1. e - 1 \in Int /\ at \in Int
    BY <1>1
  <2> QED BY <2>1, HoursNat
<1> QED BY <1>1, <1>2, <1>3, <1>4, <1>5

LEMMA PassedOnce ==
  ASSUME NEW at \in Nat, NEW left \in Nat, NEW e, Passed(at, left, e), NEW f, Passed(at, left, f)
  PROVE  e = f
<1>1. CASE left = 0
  BY <1>1 DEF Passed
<1>2. CASE left # 0
  <2>1. /\ e \in Nat /\ e > at /\ WeekdayHours(at, e) = left
        /\ f \in Nat /\ f > at /\ WeekdayHours(at, f) = left
    BY <1>2 DEF Passed
  <2>2. ~(e < f)
    <3>1. ASSUME e < f PROVE WeekdayHours(at, e) < left
      BY <1>2, <2>1, <3>1, NotEarlier
    <3> QED BY <2>1, <3>1
  <2>3. ~(f < e)
    <3>1. ASSUME f < e PROVE WeekdayHours(at, f) < left
      BY <1>2, <2>1, <3>1, NotEarlier
    <3> QED BY <2>1, <3>1
  <2> QED BY <2>1, <2>2, <2>3
<1> QED BY <1>1, <1>2

(* One turn of the loop: what is left to add after it, and from where.       *)
Chunk(at, left) ==
  LET rest == NextMidnight(SkipToNextWeekday(at)) - SkipToNextWeekday(at)
  IN IF left < rest THEN left ELSE rest

LEMMA OneChunk ==
  ASSUME NEW at \in Nat, NEW left \in Nat, left # 0
  PROVE  /\ Chunk(at, left) \in Nat /\ 0 < Chunk(at, left) /\ Chunk(at, left) <= left
         /\ SkipToNextWeekday(at) + Chunk(at, left) \in Nat /\ left - Chunk(at, left) \in Nat
         /\ \A e : Passed(SkipToNextWeekday(at) + Chunk(at, left), left - Chunk(at, left), e)
                     => Passed(at, left, e)
<1>1. PICK c : c = SkipToNextWeekday(at)
  OBVIOUS
<1>2. c \in Nat /\ c >= at /\ Weekday(c) < 5 /\ \A h \in at..c - 1 : Weekday(h) >= 5
  BY <1>1, SkipsWeekends
<1>3. PICK midnight : midnight = NextMidnight(c)
  OBVIOUS
<1>4. midnight \in Nat /\ midnight > c /\ \A h \in c..midnight - 1 : Weekday(h) = Weekday(c)
  BY <1>2, <1>3, RestOfDay
<1>5. PICK k : k = Chunk(at, left)
  OBVIOUS
<1>6. k \in Nat /\ 0 < k /\ k <= left /\ k <= midnight - c
  BY <1>1, <1>2, <1>3, <1>4, <1>5 DEF Chunk
<1>7. WeekdayHours(at, c + k) = k
  <2>1. \A h \in at..c - 1 : ~(Weekday(h) < 5)
    <3>1. \A h \in at..c - 1 : Weekday(h) \in Int
      BY <1>2 DEF Weekday
    <3> QED BY <1>2, <3>1
  <2>2. WeekdayHours(at, c) = 0
    BY <1>2, <2>1, HoursOfWeekends
  <2>3. \A h \in c..c + k - 1 : Weekday(h) < 5
    BY <1>2, <1>4, <1>6
  <2>4. WeekdayHours(c, c + k) = k
    BY <1>2, <1>6, <2>3, HoursOfWeekdays
  <2>5. WeekdayHours(at, c + k) = WeekdayHours(at, c) + WeekdayHours(c, c + k)
    BY <1>2, <1>6, HoursSplit
  <2> QED BY <1>6, <2>2, <2>4, <2>5
<1>8. ASSUME NEW e, Passed(c + k, left - k, e) PROVE Passed(at, left, e)
  <2>1. CASE left = k
    <3>1. e = c + k /\ e \in Nat
      BY <1>6, <1>8, <2>1 DEF Passed
    <3>2. Weekday(e - 1) < 5
      BY <1>2, <1>4, <1>6, <3>1
    <3>3. e > at
      BY <1>2, <1>6, <3>1
    <3> QED BY <1>7, <2>1, <3>1, <3>2, <3>3 DEF Passed
  <2>2. CASE left # k
    <3>1. left - k # 0
      BY <1>6, <2>2
    <3>2. e \in Nat /\ e > c + k /\ WeekdayHours(c + k, e) = left - k /\ Weekday(e - 1) < 5
      BY <1>8, <3>1 DEF Passed
    <3>3. WeekdayHours(at, e) = WeekdayHours(at, c + k) + WeekdayHours(c + k, e)
      BY <1>2, <1>6, <3>2, HoursSplit
    <3>4. WeekdayHours(at, e) = left
      BY <1>6, <1>7, <3>2, <3>3
    <3>5. e > at
      BY <1>2, <1>6, <3>2
    <3> QED BY <3>2, <3>4, <3>5 DEF Passed
  <2> QED BY <2>1, <2>2
<1> QED BY <1>1, <1>2, <1>5, <1>6, <1>8

(* There is always such a moment: otherwise take the fewest hours without.   *)
LEMMA PassedSometime ==
  ASSUME NEW at \in Nat, NEW left \in Nat
  PROVE  \E e : Passed(at, left, e)
<1> DEFINE Bad == {n \in Nat : \E a \in Nat : ~\E e : Passed(a, n, e)}
<1>1. SUFFICES ASSUME Bad # {} PROVE FALSE
  OBVIOUS
<1>2. PICK n \in Bad : \A m \in Bad : n <= m
  BY <1>1, LeastNat
<1>3. PICK a \in Nat : ~\E e : Passed(a, n, e)
  BY <1>2
<1>4. n # 0
  <2>1. Passed(a, 0, a)
    BY DEF Passed
  <2> QED BY <1>3, <2>1
<1>5. PICK b, m : b = SkipToNextWeekday(a) + Chunk(a, n) /\ m = n - Chunk(a, n)
  OBVIOUS
<1>6. b \in Nat /\ m \in Nat /\ m < n /\ \A e : Passed(b, m, e) => Passed(a, n, e)
  <2>1. n \in Nat
    BY <1>2
  <2>2. /\ Chunk(a, n) \in Nat /\ 0 < Chunk(a, n)
        /\ b \in Nat /\ m \in Nat /\ \A e : Passed(b, m, e) => Passed(a, n, e)
    BY <1>4, <1>5, <2>1, OneChunk
  <2>3. m < n
    BY <1>5, <2>1, <2>2
  <2> QED BY <2>2, <2>3
<1>7. m \notin Bad
  BY <1>2, <1>6
<1> QED BY <1>3, <1>6, <1>7

(* The loop adds the hours: its equation has a solution, and any solution    *)
(* ends at that moment.                                                      *)
Loop(f) ==
  [left \in Nat |-> [at \in Nat |->
     IF left = 0 THEN at
     ELSE f[left - Chunk(at, left)][SkipToNextWeekday(at) + Chunk(at, left)]]]

LEMMA LoopEquation == HoursAdded = CHOOSE f : f = Loop(f)
BY Zenon DEF HoursAdded, Loop, Chunk

LEMMA LoopSolved == HoursAdded = Loop(HoursAdded)
<1>1. PICK g : g = [left \in Nat |-> [at \in Nat |-> CHOOSE e : Passed(at, left, e)]]
  OBVIOUS
<1>2. \A left, at \in Nat : Passed(at, left, g[left][at])
  BY <1>1, PassedSometime
<1>3. ASSUME NEW left \in Nat, NEW at \in Nat
      PROVE  g[left][at] = IF left = 0 THEN at
               ELSE g[left - Chunk(at, left)][SkipToNextWeekday(at) + Chunk(at, left)]
  <2>1. CASE left = 0
    BY <1>2, <2>1 DEF Passed
  <2>2. CASE left # 0
    <3>1. PICK b, m : b = SkipToNextWeekday(at) + Chunk(at, left) /\ m = left - Chunk(at, left)
      OBVIOUS
    <3>2. b \in Nat /\ m \in Nat /\ \A e : Passed(b, m, e) => Passed(at, left, e)
      BY <2>2, <3>1, OneChunk
    <3>3. Passed(at, left, g[m][b])
      BY <1>2, <3>2
    <3>4. g[m][b] = g[left][at]
      BY <1>2, <3>3, PassedOnce
    <3> QED BY <2>2, <3>1, <3>4
  <2> QED BY <2>1, <2>2
<1>4. g = Loop(g)
  <2>1. Loop(g) = [left \in Nat |-> [at \in Nat |-> g[left][at]]]
    BY <1>3, Zenon DEF Loop
  <2>2. g = [left \in Nat |-> [at \in Nat |-> g[left][at]]]
    BY <1>1
  <2> QED BY <2>1, <2>2
<1> QED BY <1>4, LoopEquation

LEMMA HoursAddedRight ==
  ASSUME NEW at \in Nat, NEW left \in Nat
  PROVE  Passed(at, left, HoursAdded[left][at])
<1> DEFINE Bad == {n \in Nat : \E a \in Nat : ~Passed(a, n, HoursAdded[n][a])}
<1>1. SUFFICES ASSUME Bad # {} PROVE FALSE
  OBVIOUS
<1>2. PICK n \in Bad : \A m \in Bad : n <= m
  BY <1>1, LeastNat
<1>3. n \in Nat
  BY <1>2
<1>4. PICK a \in Nat : ~Passed(a, n, HoursAdded[n][a])
  BY <1>2
<1>5. HoursAdded[n][a] = IF n = 0 THEN a
        ELSE HoursAdded[n - Chunk(a, n)][SkipToNextWeekday(a) + Chunk(a, n)]
  <2>1. PICK f : f = HoursAdded
    OBVIOUS
  <2>2. PICK h : h = Loop(f)
    OBVIOUS
  <2>3. h = f
    BY <2>1, <2>2, LoopSolved
  <2>4. h[n][a] = IF n = 0 THEN a
          ELSE f[n - Chunk(a, n)][SkipToNextWeekday(a) + Chunk(a, n)]
    BY <1>3, <2>2 DEF Loop
  <2> QED BY <2>1, <2>3, <2>4
<1>6. n # 0
  BY <1>4, <1>5 DEF Passed
<1>7. PICK b, m : b = SkipToNextWeekday(a) + Chunk(a, n) /\ m = n - Chunk(a, n)
  OBVIOUS
<1>8. b \in Nat /\ m \in Nat /\ m < n /\ \A e : Passed(b, m, e) => Passed(a, n, e)
  BY <1>3, <1>6, <1>7, OneChunk
<1>9. m \notin Bad
  BY <1>2, <1>3, <1>8
<1>10. Passed(b, m, HoursAdded[m][b])
  BY <1>8, <1>9
<1> QED BY <1>4, <1>5, <1>6, <1>7, <1>8, <1>10

(* The clock has passed the deadline iff so many weekday hours have begun    *)
(* and ended since.                                                          *)
LEMMA DeadlinePassed ==
  ASSUME NEW at \in Nat, NEW now \in Nat
  PROVE  now > AddBusinessHours(at, 24) <=> WeekdayHours(at, now - 1) >= 24
<1>1. PICK e : e = AddBusinessHours(at, 24)
  OBVIOUS
<1>2. Passed(at, 24, e)
  BY <1>1, HoursAddedRight DEF AddBusinessHours
<1>3. e \in Nat /\ e > at /\ WeekdayHours(at, e) = 24
  BY <1>2 DEF Passed
<1>4. ASSUME now > e PROVE WeekdayHours(at, now - 1) >= 24
  <2>1. WeekdayHours(at, now - 1) = WeekdayHours(at, e) + WeekdayHours(e, now - 1)
    BY <1>3, <1>4, HoursSplit
  <2>2. WeekdayHours(e, now - 1) \in Nat
    <3>1. now - 1 \in Int /\ e \in Int
      BY <1>3
    <3> QED BY <3>1, HoursNat
  <2> QED BY <1>3, <2>1, <2>2
<1>5. ASSUME ~(now > e) PROVE WeekdayHours(at, now - 1) < 24
  <2>1. CASE now - 1 < at
    <3>1. WeekdayHours(at, now - 1) = 0
      <4>1. \A h \in at..(now - 1) - 1 : ~(Weekday(h) < 5)
        BY <2>1
      <4> QED BY <4>1, HoursOfWeekends
    <3> QED BY <3>1
  <2>2. CASE at <= now - 1
    BY <1>2, <1>3, <1>5, <2>2, NotEarlier
  <2> QED BY <2>1, <2>2
<1>6. WeekdayHours(at, now - 1) \in Nat
  BY HoursNat
<1> QED BY <1>1, <1>3, <1>4, <1>5, <1>6

(* An open ticket is overdue exactly when 24 hours of weekdays have passed   *)
(* since it was created, over any number of weekends.                        *)
THEOREM OverdueCorrect == Spec => []OverdueAfterADay
<1>1. CampusInv => OverdueAfterADay
  <2> SUFFICES ASSUME CampusInv, NEW t \in DOMAIN ticket, ticket[t].status = "OPEN"
               PROVE  IsOverdue(t) <=> WeekdayHours(ticket[t].created, clock - 1) >= 24
    BY DEF OverdueAfterADay
  <2>1. ticket[t].created \in Nat /\ clock \in Nat
    BY SupportAssumption DEF CampusInv, ReplyInv, SupportTypeOK, TicketRow
  <2> QED BY <2>1, DeadlinePassed DEF IsOverdue
<1> QED BY <1>1, CampusInvariant, PTL
================================================================================
