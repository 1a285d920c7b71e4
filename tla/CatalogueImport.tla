---------------------------- MODULE CatalogueImport ----------------------------
(*****************************************************************************)
(* What the importers do to the academic catalogue, as operators on the      *)
(* tables: import_lr_accounting_xlsx (a journal per room), the curated       *)
(* drafts (a directory per department), import_studlab_org, the catalogue    *)
(* rows of import_dekanat_csv, and repair_lab_bindings. A title is a pair    *)
(* <<name, spelling>>; normalize_lab_title forgets the spelling. A primary   *)
(* key is an index into its table; get_or_create over several matching rows  *)
(* raises, and an operator inside a transaction then sets ok to FALSE.       *)
(*****************************************************************************)
EXTENDS JournalParser

CONSTANTS
  RoomCapacity,       \* ROOMS_PAYLOAD
  DefaultCapacity,    \* --default-capacity
  Center,             \* the centre of the journals and of the drafts
  JournalLaboratory,  \* the laboratory import_lr_accounting_xlsx ensures
  TitleOrder          \* the titles of disciplines as order_by("title") has them

ASSUME CatalogueAssumption ==
  /\ \A r \in DOMAIN RoomCapacity : RoomCapacity[r] \in Nat \ {0}
  /\ DefaultCapacity \in Nat \ {0}

Put(table, i, row) == IF i > Len(table) THEN Append(table, row) ELSE [table EXCEPT ![i] = row]
Where(table, P(_)) == {i \in DOMAIN table : P(table[i])}
First(table, S) == IF S = {} THEN Len(table) + 1 ELSE Min(S)
HasColumns(row, columns) == row = [c \in columns |-> row[c]]
IsTable(table) == Len(table) \in Nat /\ table = [i \in 1..Len(table) |-> table[i]]
Table(table, Test(_)) == IsTable(table) /\ \A i \in DOMAIN table : Test(table[i])
With(f, k, v) == [x \in DOMAIN f \cup {k} |-> IF x = k THEN v ELSE f[x]]

(* The rows of a file, in order, until one of them raises.                   *)
ForEach(Row(_, _), tx, rows) == Through(LAMBDA t, row : IF t.ok THEN Row(t, row) ELSE t, tx, rows)
Raise(tx) == [tx EXCEPT !.ok = FALSE]

AllowedLabDurations == {30, 45, 60, 90}

(* Mutated form of NormalizeDuration: the minutes of the file are kept.      *)
MinutesAsGiven(minutes, default) == IF minutes = 0 THEN default ELSE minutes

(* normalize_lab_duration; 0 is no duration.                                 *)
NormalizeDuration(minutes, default) ==
  IF minutes = 0 THEN default ELSE Min({d \in AllowedLabDurations : d >= minutes} \cup {90})

(* Mutated form of Matching: the titles must be spelled alike.               *)
MatchingExactly(cat, title, room) ==
  Where(cat.works, LAMBDA w : w.room = room /\ w.title = title)

(* The lab works with the lab_work_match_key of the title and the room.      *)
Matching(cat, title, room) == Where(cat.works, LAMBDA w : w.room = room /\ w.title[1] = title[1])

-------------------------------------------------------------------------------
(* What the columns, foreign keys and constraints of the tables demand of    *)
(* them (CheckConstraint academics_labwork_allowed_duration, unique titles   *)
(* of departments), and two rules that no constraint guards.                 *)

WorkOK(w, disciplines) ==
  /\ HasColumns(w, {"title", "room", "disciplines", "minutes", "capacity", "centers",
                    "laboratories", "stand"})
  /\ w.minutes \in AllowedLabDurations /\ w.capacity \in Nat \ {0}
  /\ w.disciplines # {} /\ w.disciplines \subseteq disciplines

GroupOK(g, disciplines, works) ==
  /\ HasColumns(g, {"disciplines", "works", "department"})
  /\ g.disciplines \subseteq disciplines /\ g.works \subseteq works

DepartmentsOK(table) ==
  /\ Table(table, LAMBDA d : HasColumns(d, {"code", "title"}))
  /\ \A i, k \in DOMAIN table : table[i].title = table[k].title => i = k

DisciplinesOK(table) ==
  Table(table, LAMBDA d : HasColumns(d, {"code", "title", "semester", "centers", "laboratories"}))

RoomsOK(rooms) ==
  /\ HasColumns(rooms, DOMAIN rooms)
  /\ \A r \in DOMAIN rooms : HasColumns(rooms[r], {"capacity", "laboratory"})

CatalogueOK(cat) ==
  /\ HasColumns(cat, {"semesters", "departments", "laboratories", "rooms", "disciplines",
                      "works", "groups"})
  /\ DepartmentsOK(cat.departments) /\ RoomsOK(cat.rooms) /\ DisciplinesOK(cat.disciplines)
  /\ Table(cat.works, LAMBDA w : WorkOK(w, DOMAIN cat.disciplines))
  /\ HasColumns(cat.groups, DOMAIN cat.groups)
  /\ \A g \in DOMAIN cat.groups :
       GroupOK(cat.groups[g], DOMAIN cat.disciplines, DOMAIN cat.works)

WorksUnique(works) ==
  \A i, k \in DOMAIN works :
    works[i].room = works[k].room /\ works[i].title[1] = works[k].title[1] => i = k

PlansBookable(cat) ==
  \A g \in DOMAIN cat.groups : \A w \in cat.groups[g].works :
    cat.works[w].disciplines \cap cat.groups[g].disciplines # {}

-------------------------------------------------------------------------------
(* import_lr_accounting_xlsx. tx.done is lab_cache; tx.room and tx.group are *)
(* those of the sheet at hand, tx.d and tx.w what its row has been found to  *)
(* be.                                                                       *)

(* get_discipline                                                            *)
JournalDiscipline(tx, title) ==
  LET table == tx.cat.disciplines
      found == Where(table, LAMBDA d : d.title = title /\ d.semester = tx.semester)
      old == IF found # {} THEN table[Min(found)]
             ELSE [code |-> <<"DISCIPLINE", 0>>, title |-> title, semester |-> tx.semester,
                   centers |-> {}, laboratories |-> {}]
      row == [old EXCEPT !.centers = @ \cup {Center},
                         !.laboratories = @ \cup {JournalLaboratory}]
  IN IF Cardinality(found) > 1 THEN Raise(tx)
     ELSE [tx EXCEPT !.d = First(table, found), !.cat.disciplines = Put(@, First(table, found), row)]

Bind(work, d) ==
  [work EXCEPT !.disciplines = @ \cup {d}, !.centers = @ \cup {Center},
               !.laboratories = @ \cup {JournalLaboratory}]

PutWork(tx, i, work) == [tx EXCEPT !.w = i, !.done = @ \cup {i}, !.cat.works = Put(@, i, work)]

(* upsert_lab: a lab work met for the second time in the run is overwritten, *)
(* one that was there before the run only gets the discipline.               *)
UpsertLab(tx, item, seats, found) ==
  LET i == Min(found)
      old == tx.cat.works[i]
  IN IF ~tx.ok THEN tx
     ELSE IF found = {}
     THEN PutWork(tx, Len(tx.cat.works) + 1,
                  Bind([title |-> item.title, room |-> tx.room, disciplines |-> {}, capacity |-> seats,
                        minutes |-> NormalizeDuration(item.minutes, 90), centers |-> {},
                        laboratories |-> {}, stand |-> None], tx.d))
     ELSE IF i \notin tx.done THEN PutWork(tx, i, Bind(old, tx.d))
     ELSE PutWork(tx, i, [Bind(old, tx.d) EXCEPT !.capacity = seats,
                                                 !.minutes = NormalizeDuration(item.minutes, @)])

JournalWork(tx, item) ==
  UpsertLab(JournalDiscipline(tx, item.discipline), item,
            Min({DefaultCapacity, RoomCapacity[tx.room]}), Matching(tx.cat, item.title, tx.room))

NewGroup == [disciplines |-> {}, works |-> {}, department |-> None]
GroupRow(cat, g) == IF g \in DOMAIN cat.groups THEN cat.groups[g] ELSE NewGroup
Plan(cat, g, ds, ws) ==
  [cat EXCEPT !.groups = With(@, g, [GroupRow(cat, g) EXCEPT !.disciplines = @ \cup ds,
                                                             !.works = @ \cup ws])]

AddToPlan(tx) == IF tx.ok THEN [tx EXCEPT !.cat = Plan(@, tx.group, {tx.d}, {tx.w})] ELSE tx

(* A column of a group's sheet.                                              *)
SheetWork(tx, item) ==
  IF item.discipline = None THEN tx ELSE AddToPlan(JournalWork(tx, item))

PutStand(tx, stand) ==
  IF tx.ok /\ stand # None THEN [tx EXCEPT !.cat.works[tx.w].stand = stand] ELSE tx

(* The first of some titles, by name.                                        *)
FirstTitle(titles) == TitleOrder[Min({n \in DOMAIN TitleOrder : TitleOrder[n] \in titles})]

(* A row of the sheet of all lab works. Without a discipline it is looked up *)
(* by its exact title, and takes that lab work's first discipline.           *)
CatalogWork(tx, item) ==
  LET same == Where(tx.cat.works, LAMBDA w : w.room = tx.room /\ w.title = item.title)
      known == tx.cat.works[Min(same)].disciplines
      title == FirstTitle({tx.cat.disciplines[d].title : d \in known})
  IN IF item.discipline # None THEN PutStand(JournalWork(tx, item), item.stand)
     ELSE IF same = {} THEN tx
     ELSE IF known = {} THEN Raise(tx)
     ELSE PutStand(JournalWork(tx, [item EXCEPT !.discipline = title]), item.stand)

EnsureRooms(cat) ==
  [cat EXCEPT !.laboratories = @ \cup {JournalLaboratory},
              !.rooms = [r \in DOMAIN @ \cup DOMAIN RoomCapacity |->
                           [capacity |-> IF r \in DOMAIN RoomCapacity THEN RoomCapacity[r]
                                         ELSE @[r].capacity,
                            laboratory |-> IF r \in DOMAIN @ THEN @[r].laboratory ELSE None]]]

EnsureSemester(cat, name) ==
  [cat EXCEPT !.semesters = [s \in DOMAIN @ \cup {name} |-> s = name]]

ClearExistingData(cat) ==
  [cat EXCEPT !.groups = <<>>, !.works = <<>>, !.disciplines = <<>>, !.semesters = <<>>]

-------------------------------------------------------------------------------
(* import_department_draft                                                   *)

(* Mutated form of DraftDiscipline: disciplines are created, not looked up.  *)
DraftDisciplineAnew(tx, row) ==
  LET i == Len(tx.cat.disciplines) + 1
  IN [tx EXCEPT !.byCode = With(@, row.code, i), !.byTitle = With(@, row.title, i),
                !.cat.disciplines =
                  Append(@, [code |-> row.code, title |-> row.title, semester |-> tx.semester,
                             centers |-> {Center}, laboratories |-> {tx.laboratory}])]

(* Found by code; what else the row has overwrites it.                       *)
DraftDiscipline(tx, row) ==
  LET table == tx.cat.disciplines
      found == Where(table, LAMBDA d : d.code = row.code)
      i == First(table, found)
      old == IF found # {} THEN table[i] ELSE [centers |-> {}, laboratories |-> {}]
  IN IF Cardinality(found) > 1 THEN Raise(tx)
     ELSE [tx EXCEPT !.byCode = With(@, row.code, i), !.byTitle = With(@, row.title, i),
                     !.cat.disciplines =
                       Put(@, i, [code |-> row.code, title |-> row.title, semester |-> tx.semester,
                                  centers |-> old.centers \cup {Center},
                                  laboratories |-> old.laboratories \cup ({tx.laboratory} \ {None})])]

(* The room is created, or given to the laboratory when it has none.         *)
DraftRoom(cat, laboratory, row) ==
  LET old == IF row.room \in DOMAIN cat.rooms THEN cat.rooms[row.room]
             ELSE [capacity |-> IF row.capacity = 0 THEN 30 ELSE row.capacity, laboratory |-> None]
  IN IF row.room = None THEN cat
     ELSE [cat EXCEPT !.rooms = With(@, row.room,
             [old EXCEPT !.laboratory = IF @ = None THEN laboratory ELSE @])]

(* Capacity and duration are overwritten; the slots are not synchronised.    *)
DraftWork(tx, row) ==
  LET cat == DraftRoom(tx.cat, tx.laboratory, row)
      found == Matching(cat, row.title, row.room)
      i == First(cat.works, found)
      old == IF found # {} THEN cat.works[i]
             ELSE [title |-> row.title, disciplines |-> {}, centers |-> {}, laboratories |-> {},
                   stand |-> None]
  IN IF row.discipline \notin DOMAIN tx.byTitle THEN tx
     ELSE [tx EXCEPT !.cat = [cat EXCEPT !.works = Put(@, i,
             [title |-> old.title, room |-> row.room, stand |-> old.stand,
              disciplines |-> old.disciplines \cup {tx.byTitle[row.discipline]},
              capacity |-> IF row.capacity = 0 THEN 30 ELSE row.capacity,
              minutes |-> NormalizeDuration(row.minutes, 90),
              centers |-> old.centers \cup {Center},
              laboratories |-> old.laboratories \cup ({tx.laboratory} \ {None})])]]

DraftGroup(tx, g) ==
  LET old == GroupRow(tx.cat, g)
  IN [tx EXCEPT !.cat.groups =
        With(@, g, [old EXCEPT !.department = IF @ = None THEN tx.department ELSE @])]

DraftCurriculum(tx, row) ==
  IF row.group \in DOMAIN tx.cat.groups /\ row.code \in DOMAIN tx.byCode
  THEN [tx EXCEPT !.cat = Plan(tx.cat, row.group, {tx.byCode[row.code]}, {})] ELSE tx

RoomOf(cat, row) == IF row.room \in DOMAIN cat.rooms THEN row.room ELSE None

(* Mutated form of DraftLink: the group gets the lab work alone.             *)
DraftLinkOnly(tx, row) ==
  LET found == Matching(tx.cat, row.title, RoomOf(tx.cat, row))
  IN IF row.group \notin DOMAIN tx.cat.groups \/ found = {} THEN tx
     ELSE [tx EXCEPT !.cat = Plan(tx.cat, row.group, {}, {Min(found)})]

(* A lab work of a group, with the discipline the row names if the draft     *)
(* has it; a second row of the same two (seen_lab_links) is passed over, also*)
(* when it names another discipline.                                         *)
DraftLink(tx, row) ==
  LET found == Matching(tx.cat, row.title, RoomOf(tx.cat, row))
      ds == IF row.discipline \in DOMAIN tx.byTitle THEN {tx.byTitle[row.discipline]} ELSE {}
      link == <<row.group, Min(found)>>
  IN IF row.group \notin DOMAIN tx.cat.groups \/ found = {} \/ link \in tx.linked THEN tx
     ELSE [tx EXCEPT !.linked = @ \cup {link},
                     !.cat = Plan(tx.cat, row.group, ds, {Min(found)})]

(* The department's laboratory, the faculty's, or the first of the centre.   *)
ResolveLaboratory(cat, draft) ==
  LET known == SelectSeq(<<draft.laboratory, draft.fallback>>, LAMBDA l : l \in cat.laboratories)
  IN IF known # <<>> THEN Head(known)
     ELSE IF cat.laboratories # {} THEN CHOOSE l \in cat.laboratories : TRUE ELSE None

ImportDraft(cat, draft, semester) ==
  LET tx == [ok |-> TRUE, cat |-> cat, semester |-> semester, byCode |-> <<>>, byTitle |-> <<>>,
             linked |-> {}, laboratory |-> ResolveLaboratory(cat, draft),
             department |-> IF \E d \in Range(cat.departments) : d.code = draft.department
                            THEN draft.department ELSE None]
      disciplines == ForEach(DraftDiscipline, tx, draft.disciplines)
      works == ForEach(DraftWork, disciplines, draft.unique)
      groups == ForEach(DraftGroup, works, draft.groups)
      curriculum == ForEach(DraftCurriculum, groups, draft.curriculum)
  IN ForEach(DraftLink, curriculum, draft.links)

-------------------------------------------------------------------------------
(* import_studlab_org: departments, laboratories, rooms                      *)

(* _upsert_department; titles are unique in the database.                    *)
UpsertDepartment(tx, row) ==
  LET table == tx.cat.departments
      byCode == Where(table, LAMBDA d : d.code = row.code)
      byTitle == Where(table, LAMBDA d : d.title = row.title)
  IN IF byCode # {} THEN tx
     ELSE IF byTitle # {} THEN [tx EXCEPT !.cat.departments[Min(byTitle)].code = row.code]
     ELSE [tx EXCEPT !.cat.departments = Append(@, row)]

OrgLaboratory(tx, row) ==
  LET t == [tx EXCEPT !.cat.laboratories = @ \cup {row.laboratory}]
  IN IF row.code = None THEN t ELSE UpsertDepartment(t, [code |-> row.code, title |-> row.title])

OrgRoom(tx, row) ==
  LET old == IF row.room \in DOMAIN tx.cat.rooms THEN tx.cat.rooms[row.room]
             ELSE [capacity |-> 30, laboratory |-> None]
  IN [tx EXCEPT !.cat.rooms = With(@, row.room,
        [old EXCEPT !.laboratory = IF row.laboratory \in tx.cat.laboratories THEN row.laboratory
                                   ELSE @])]

-------------------------------------------------------------------------------
(* import_dekanat_csv, repair_lab_bindings                                   *)

(* _import_discipline: by code, or by title when the row has no code.        *)
DekanatDiscipline(cat, row, semester) ==
  LET table == cat.disciplines
      found == Where(table, LAMBDA d : IF row.code # None THEN d.code = row.code
                                       ELSE d.title = row.title)
      i == First(table, found)
      old == IF found # {} THEN table[i]
             ELSE [code |-> row.code, centers |-> {}, laboratories |-> {}]
      code == IF old.code = None THEN <<"DISC", i>> ELSE old.code
  IN [ok |-> Cardinality(found) <= 1,
      cat |-> [cat EXCEPT !.disciplines = Put(@, i,
        [code |-> code, title |-> row.title, semester |-> semester,
         centers |-> old.centers \cup ({row.center} \ {None}), laboratories |-> old.laboratories])]]

DekanatGroup(cat, g) == [cat EXCEPT !.groups = With(@, g, GroupRow(cat, g))]

DekanatCurriculum(cat, row) ==
  LET found == Where(cat.disciplines, LAMBDA d : d.code = row.code)
  IN IF row.group \notin DOMAIN cat.groups \/ found = {} THEN cat
     ELSE Plan(cat, row.group, {Min(found)}, {})

(* _import_lab_binding without a lab work number: the discipline and all its *)
(* lab works.                                                                *)
DekanatLabBinding(cat, row) ==
  LET found == Where(cat.disciplines, LAMBDA d : d.code = row.code)
      d == Min(found)
  IN IF found = {} THEN cat
     ELSE [cat EXCEPT !.disciplines[d].centers = @ \cup {row.center},
                      !.works = [w \in DOMAIN cat.works |->
                        IF d \in cat.works[w].disciplines
                        THEN [cat.works[w] EXCEPT !.centers = @ \cup {row.center}]
                        ELSE cat.works[w]]]

(* Disciplines of the active semester (all, when none is active), then the   *)
(* lab works of bound disciplines.                                           *)
RepairLabBindings(cat, center) ==
  LET active == {s \in DOMAIN cat.semesters : cat.semesters[s]}
      disciplines == [d \in DOMAIN cat.disciplines |->
        LET row == cat.disciplines[d]
        IN IF row.centers = {} /\ (active = {} \/ row.semester \in active)
           THEN [row EXCEPT !.centers = {center},
                            !.code = IF @ = None THEN <<"DISC", d>> ELSE @] ELSE row]
  IN [cat EXCEPT !.disciplines = disciplines,
                 !.works = [w \in DOMAIN @ |->
                   IF @[w].centers = {} /\ \E d \in @[w].disciplines : center \in disciplines[d].centers
                   THEN [@[w] EXCEPT !.centers = {center}] ELSE @[w]]]
================================================================================
