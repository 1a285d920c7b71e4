----------------------------- MODULE ImportProofs ------------------------------
(*****************************************************************************)
(* Proofs about Imports, for any files: the tables stay as the database      *)
(* demands, a room never gets two lab works of one title, a plan never holds *)
(* a lab work its group could not book, and a run of                         *)
(* generate_workload_students keeps the accounts it has given. Each loop     *)
(* over the rows of a file is an instance of RowLoop.                        *)
(*****************************************************************************)
EXTENDS Imports, FiniteSetTheorems, TLAPS

(* Departments as the database demands them and, if the files agree on their *)
(* codes, each under the title that the files have for its code.             *)
SoundDepartments(table) ==
  /\ DepartmentsOK(table)
  /\ CodesAgree => \A d \in FiledDepartments, i \in DOMAIN table :
                     d.code = table[i].code => d.title = table[i].title

(* A catalogue the commands start from and must leave behind.                *)
SoundCatalogue(cat) ==
  /\ CatalogueOK(cat) /\ WorksUnique(cat.works) /\ PlansBookable(cat)
  /\ SoundDepartments(cat.departments)

-------------------------------------------------------------------------------
(* Tables                                                                    *)

(* A loop of which nothing is asked: it lends the facts about numbers.       *)
Numbers == INSTANCE RowLoop WITH Row <- LAMBDA t, row : t, Kept <- LAMBDA tx, rows, n, t : TRUE

LEMMA LeastOf ==
  ASSUME NEW S, S \subseteq Nat, S # {}
  PROVE  Min(S) \in S /\ \A n \in S : Min(S) <= n
<1>1. \E n \in S : \A m \in S : n <= m
  BY Numbers!LeastNat
<1> QED BY <1>1 DEF Min

LEMMA TableDomain ==
  ASSUME NEW table, IsTable(table)
  PROVE  Len(table) \in Nat /\ DOMAIN table = 1..Len(table)
BY DEF IsTable

LEMMA SequenceIsTable ==
  ASSUME NEW Rows, NEW table \in Seq(Rows)
  PROVE  IsTable(table)
BY DEF IsTable

(* The table new is the table old with the row written under i.              *)
Wrote(old, i, row, new) ==
  /\ IsTable(new) /\ DOMAIN new = DOMAIN old \cup {i} /\ new[i] = row
  /\ \A k \in DOMAIN old \ {i} : new[k] = old[k]

LEMMA PutRow ==
  ASSUME NEW table, IsTable(table), NEW i, i \in 1..Len(table) + 1, NEW row
  PROVE  Wrote(table, i, row, Put(table, i, row))
<1> DEFINE Rows == {table[k] : k \in DOMAIN table} \cup {row}
<1>1. Len(table) \in Nat /\ DOMAIN table = 1..Len(table)
  BY TableDomain
<1>2. table = [k \in 1..Len(table) |-> table[k]]
  BY DEF IsTable
<1>3. \A k \in 1..Len(table) : table[k] \in Rows
  BY <1>1
<1> HIDE DEF Rows
<1>4. table \in Seq(Rows) /\ row \in Rows
  BY <1>1, <1>2, <1>3 DEF Rows
<1>5. CASE i > Len(table)
  <2>1. i = Len(table) + 1 /\ Put(table, i, row) = Append(table, row)
    BY <1>1, <1>5 DEF Put
  <2>2. /\ Append(table, row) \in Seq(Rows)
        /\ Len(Append(table, row)) = Len(table) + 1
        /\ Append(table, row)[Len(table) + 1] = row
        /\ \A k \in 1..Len(table) : Append(table, row)[k] = table[k]
    BY <1>4
  <2>3. DOMAIN Append(table, row) = 1..Len(table) + 1
    BY <2>2
  <2>4. IsTable(Append(table, row))
    BY <2>2, SequenceIsTable
  <2>5. 1..Len(table) + 1 = (1..Len(table)) \cup {Len(table) + 1}
    BY <1>1
  <2> QED BY <1>1, <2>1, <2>2, <2>3, <2>4, <2>5 DEF Wrote
<1>6. CASE ~(i > Len(table))
  <2>1. i \in DOMAIN table /\ Put(table, i, row) = [table EXCEPT ![i] = row]
    BY <1>1, <1>6 DEF Put
  <2>2. [table EXCEPT ![i] = row] \in Seq(Rows)
    BY <1>1, <1>4, <2>1
  <2>3. DOMAIN [table EXCEPT ![i] = row] = 1..Len(table)
    BY <1>1
  <2>4. Len([table EXCEPT ![i] = row]) = Len(table)
    BY <1>1, <2>2, <2>3
  <2>5. IsTable([table EXCEPT ![i] = row])
    BY <1>1, <2>3, <2>4 DEF IsTable
  <2> QED BY <1>1, <2>1, <2>5 DEF Wrote
<1> QED BY <1>1, <1>5, <1>6

(* The key under which a row is written: a row found, or a new one.          *)
LEMMA FirstKey ==
  ASSUME NEW table, IsTable(table), NEW S, S \subseteq DOMAIN table
  PROVE  /\ First(table, S) \in 1..Len(table) + 1
         /\ S # {} => First(table, S) \in S /\ First(table, S) = Min(S)
         /\ S = {} => First(table, S) = Len(table) + 1 /\ First(table, S) \notin DOMAIN table
<1>1. Len(table) \in Nat /\ DOMAIN table = 1..Len(table)
  BY TableDomain
<1>2. S # {} => Min(S) \in S
  BY <1>1, LeastOf
<1> QED BY <1>1, <1>2 DEF First

(* A table of the rows of another, each changed.                             *)
LEMMA SameLength ==
  ASSUME NEW table, IsTable(table), NEW new, new = [i \in DOMAIN table |-> new[i]]
  PROVE  IsTable(new) /\ DOMAIN new = DOMAIN table /\ Len(new) = Len(table)
<1>1. Len(table) \in Nat /\ DOMAIN table = 1..Len(table)
  BY TableDomain
<1>2. DOMAIN new = 1..Len(table)
  BY <1>1
<1>3. new \in Seq({new[i] : i \in DOMAIN new})
  <2> DEFINE Rows == {new[i] : i \in DOMAIN new}
  <2>1. \A i \in 1..Len(table) : new[i] \in Rows
    BY <1>2
  <2> HIDE DEF Rows
  <2>2. new = [i \in 1..Len(table) |-> new[i]]
    BY <1>1
  <2>3. new \in Seq(Rows)
    BY <1>1, <2>1, <2>2
  <2> QED BY <2>3 DEF Rows
<1>4. Len(new) = Len(table)
  BY <1>1, <1>2, <1>3
<1> QED BY <1>1, <1>2, <1>3, <1>4, SequenceIsTable

-------------------------------------------------------------------------------
(* Catalogues                                                                *)

CatalogueShape(cat) ==
  HasColumns(cat, {"semesters", "departments", "laboratories", "rooms", "disciplines",
                   "works", "groups"})
WorkShape(w) ==
  HasColumns(w, {"title", "room", "disciplines", "minutes", "capacity", "centers",
                 "laboratories", "stand"})

GroupsByName(groups) == HasColumns(groups, DOMAIN groups)
RoomShape(room) == HasColumns(room, {"capacity", "laboratory"})
DisciplineShape(d) ==
  HasColumns(d, {"code", "title", "semester", "centers", "laboratories"})

LEMMA DisciplineRows ==
  ASSUME NEW table
  PROVE  DisciplinesOK(table)
           <=> IsTable(table) /\ \A i \in DOMAIN table : DisciplineShape(table[i])
BY DEF DisciplinesOK, DisciplineShape, Table

(* What is written beside the plans leaves a sound catalogue sound, as long  *)
(* as rows stay and lab works lose no discipline.                            *)
LEMMA SoundWrites ==
  ASSUME NEW cat, SoundCatalogue(cat), NEW new, CatalogueShape(new),
         SoundDepartments(new.departments),
         DisciplinesOK(new.disciplines), RoomsOK(new.rooms),
         DOMAIN cat.disciplines \subseteq DOMAIN new.disciplines,
         IsTable(new.works), DOMAIN cat.works \subseteq DOMAIN new.works,
         \A i \in DOMAIN new.works : WorkOK(new.works[i], DOMAIN new.disciplines),
         \A i \in DOMAIN cat.works : cat.works[i].disciplines \subseteq new.works[i].disciplines,
         WorksUnique(new.works), new.groups = cat.groups
  PROVE  SoundCatalogue(new)
<1>1. \A g \in DOMAIN cat.groups :
        GroupOK(cat.groups[g], DOMAIN cat.disciplines, DOMAIN cat.works)
  BY DEF SoundCatalogue, CatalogueOK
<1>2. \A g \in DOMAIN new.groups :
        GroupOK(new.groups[g], DOMAIN new.disciplines, DOMAIN new.works)
  BY <1>1 DEF GroupOK
<1>a. HasColumns(new.groups, DOMAIN new.groups)
  BY DEF SoundCatalogue, CatalogueOK
<1>3. CatalogueOK(new)
  BY <1>a, <1>2 DEF CatalogueOK, CatalogueShape, Table, SoundDepartments
<1>4. PlansBookable(new)
  <2> SUFFICES ASSUME NEW g \in DOMAIN new.groups, NEW w \in new.groups[g].works
               PROVE  new.works[w].disciplines \cap new.groups[g].disciplines # {}
    BY DEF PlansBookable
  <2>1. w \in DOMAIN cat.works
    BY <1>1 DEF GroupOK
  <2>2. cat.works[w].disciplines \cap cat.groups[g].disciplines # {}
    BY DEF SoundCatalogue, PlansBookable
  <2> QED BY <2>1, <2>2
<1> QED BY <1>3, <1>4 DEF SoundCatalogue

LEMMA SoundColumns ==
  ASSUME NEW cat, SoundCatalogue(cat)
  PROVE  /\ CatalogueShape(cat) /\ SoundDepartments(cat.departments)
         /\ DisciplinesOK(cat.disciplines) /\ RoomsOK(cat.rooms)
         /\ GroupsByName(cat.groups)
         /\ IsTable(cat.disciplines) /\ IsTable(cat.works)
         /\ \A i \in DOMAIN cat.works : /\ WorkOK(cat.works[i], DOMAIN cat.disciplines)
                                        /\ WorkShape(cat.works[i])
         /\ WorksUnique(cat.works)
<1>1. IsTable(cat.disciplines)
  BY DisciplineRows DEF SoundCatalogue, CatalogueOK
<1> QED BY <1>1 DEF SoundCatalogue, CatalogueOK, CatalogueShape, WorkShape, Table, WorkOK,
                    GroupsByName

LEMMA MoreDisciplines ==
  ASSUME NEW cat, SoundCatalogue(cat), NEW table, DisciplinesOK(table),
         DOMAIN cat.disciplines \subseteq DOMAIN table
  PROVE  LET new == [cat EXCEPT !.disciplines = table]
         IN /\ SoundCatalogue(new) /\ new.disciplines = table /\ new.works = cat.works
            /\ new.rooms = cat.rooms /\ new.groups = cat.groups
<1> DEFINE new == [cat EXCEPT !.disciplines = table]
<1>1. /\ CatalogueShape(new) /\ new.disciplines = table /\ new.works = cat.works
      /\ new.rooms = cat.rooms /\ new.groups = cat.groups /\ new.departments = cat.departments
  BY SoundColumns DEF CatalogueShape, HasColumns
<1> HIDE DEF new
<1>2. \A i \in DOMAIN cat.works : WorkOK(cat.works[i], DOMAIN table)
  BY SoundColumns DEF WorkOK
<1>3. SoundCatalogue(new)
  BY <1>1, <1>2, SoundColumns, SoundWrites
<1> QED BY <1>1, <1>3 DEF new

(* A discipline is written, over another or as a new one.                    *)
LEMMA DisciplineWritten ==
  ASSUME NEW cat, SoundCatalogue(cat), NEW i, NEW row, DisciplineShape(row), NEW table,
         Wrote(cat.disciplines, i, row, table)
  PROVE  LET new == [cat EXCEPT !.disciplines = table]
         IN /\ SoundCatalogue(new) /\ new.disciplines = table /\ new.works = cat.works
            /\ new.rooms = cat.rooms /\ new.groups = cat.groups
<1>1. \A k \in DOMAIN cat.disciplines : DisciplineShape(cat.disciplines[k])
  BY SoundColumns, DisciplineRows
<1>2. DisciplinesOK(table) /\ DOMAIN cat.disciplines \subseteq DOMAIN table
  BY <1>1, DisciplineRows DEF Wrote
<1> QED BY <1>2, MoreDisciplines

LEMMA OtherWorks ==
  ASSUME NEW cat, SoundCatalogue(cat), NEW table, IsTable(table),
         DOMAIN cat.works \subseteq DOMAIN table,
         \A i \in DOMAIN table : WorkOK(table[i], DOMAIN cat.disciplines),
         \A i \in DOMAIN cat.works : cat.works[i].disciplines \subseteq table[i].disciplines,
         WorksUnique(table)
  PROVE  LET new == [cat EXCEPT !.works = table]
         IN /\ SoundCatalogue(new) /\ new.works = table /\ new.disciplines = cat.disciplines
            /\ new.rooms = cat.rooms /\ new.groups = cat.groups
<1> DEFINE new == [cat EXCEPT !.works = table]
<1>1. /\ CatalogueShape(new) /\ new.works = table /\ new.disciplines = cat.disciplines
      /\ new.rooms = cat.rooms /\ new.groups = cat.groups /\ new.departments = cat.departments
  BY SoundColumns DEF CatalogueShape, HasColumns
<1> HIDE DEF new
<1>2. SoundCatalogue(new)
  BY <1>1, SoundColumns, SoundWrites
<1> QED BY <1>1, <1>2 DEF new

LEMMA RoomRows ==
  ASSUME NEW rooms, RoomsOK(rooms)
  PROVE  \A r \in DOMAIN rooms : RoomShape(rooms[r])
BY DEF RoomsOK, RoomShape

(* A room is given to a laboratory, or left as it is.                        *)
LEMMA RoomMoved ==
  ASSUME NEW rooms, RoomsOK(rooms), NEW r, NEW old, RoomShape(old), NEW laboratory, NEW new,
         new = With(rooms, r, [old EXCEPT !.laboratory = laboratory])
  PROVE  RoomsOK(new)
<1>1. PICK room : room = [old EXCEPT !.laboratory = laboratory]
  OBVIOUS
<1>2. RoomShape(room)
  BY <1>1 DEF RoomShape, HasColumns
<1>3. new = [x \in DOMAIN rooms \cup {r} |-> IF x = r THEN room ELSE rooms[x]]
  BY <1>1 DEF With
<1> QED BY <1>2, <1>3 DEF RoomsOK, RoomShape, HasColumns

LEMMA OtherColumns ==
  ASSUME NEW cat, SoundCatalogue(cat), NEW new, CatalogueShape(new),
         SoundDepartments(new.departments), RoomsOK(new.rooms), new.disciplines = cat.disciplines,
         new.works = cat.works, new.groups = cat.groups
  PROVE  SoundCatalogue(new)
BY SoundColumns, SoundWrites

LEMMA GroupRowSound ==
  ASSUME NEW cat, SoundCatalogue(cat), NEW g
  PROVE  LET old == GroupRow(cat, g)
         IN /\ GroupOK(old, DOMAIN cat.disciplines, DOMAIN cat.works)
            /\ \A w \in old.works : cat.works[w].disciplines \cap old.disciplines # {}
<1>1. GroupOK(GroupRow(cat, g), DOMAIN cat.disciplines, DOMAIN cat.works)
  BY DEF SoundCatalogue, CatalogueOK, GroupRow, NewGroup, GroupOK, HasColumns
<1>2. \A w \in GroupRow(cat, g).works :
        cat.works[w].disciplines \cap GroupRow(cat, g).disciplines # {}
  BY DEF SoundCatalogue, PlansBookable, GroupRow, NewGroup
<1> QED BY <1>1, <1>2

(* A group's row is written.                                                 *)
GroupSaved(cat, g, row, new) == new = [cat EXCEPT !.groups = With(cat.groups, g, row)]

LEMMA GroupWritten ==
  ASSUME NEW cat, SoundCatalogue(cat), NEW g, NEW row,
         GroupOK(row, DOMAIN cat.disciplines, DOMAIN cat.works),
         \A w \in row.works : cat.works[w].disciplines \cap row.disciplines # {},
         NEW new, GroupSaved(cat, g, row, new)
  PROVE  /\ SoundCatalogue(new) /\ new.works = cat.works
         /\ new.disciplines = cat.disciplines /\ new.rooms = cat.rooms
<1>1. /\ CatalogueShape(new) /\ new.works = cat.works /\ new.disciplines = cat.disciplines
      /\ new.departments = cat.departments /\ new.groups = With(cat.groups, g, row)
      /\ new.rooms = cat.rooms
  BY SoundColumns DEF CatalogueShape, HasColumns, GroupSaved
<1>2. /\ DOMAIN new.groups = DOMAIN cat.groups \cup {g} /\ new.groups[g] = row
      /\ \A k \in DOMAIN cat.groups \ {g} : new.groups[k] = cat.groups[k]
  BY <1>1 DEF With
<1>a. HasColumns(new.groups, DOMAIN new.groups)
  BY <1>1 DEF With, HasColumns
<1>3. CatalogueOK(new)
  BY <1>a, <1>1, <1>2 DEF CatalogueOK, CatalogueShape, SoundCatalogue
<1>4. PlansBookable(new) /\ WorksUnique(new.works)
  BY <1>1, <1>2 DEF PlansBookable, SoundCatalogue
<1> QED BY <1>1, <1>3, <1>4 DEF SoundCatalogue

LEMMA PlanSound ==
  ASSUME NEW cat, SoundCatalogue(cat), NEW g, NEW ds, ds \subseteq DOMAIN cat.disciplines,
         NEW ws, ws \subseteq DOMAIN cat.works,
         \A w \in ws : cat.works[w].disciplines \cap (GroupRow(cat, g).disciplines \cup ds) # {}
  PROVE  LET new == Plan(cat, g, ds, ws)
         IN /\ SoundCatalogue(new) /\ new.works = cat.works
            /\ new.disciplines = cat.disciplines /\ new.rooms = cat.rooms
<1> DEFINE old == GroupRow(cat, g)
           row == [old EXCEPT !.disciplines = @ \cup ds, !.works = @ \cup ws]
<1>1. /\ GroupOK(old, DOMAIN cat.disciplines, DOMAIN cat.works)
      /\ \A w \in old.works : cat.works[w].disciplines \cap old.disciplines # {}
  BY GroupRowSound
<1>2. Plan(cat, g, ds, ws) = [cat EXCEPT !.groups = With(cat.groups, g, row)]
  BY DEF Plan
<1> HIDE DEF old
<1>3. /\ row.disciplines = old.disciplines \cup ds /\ row.works = old.works \cup ws
      /\ GroupOK(row, DOMAIN cat.disciplines, DOMAIN cat.works)
  BY <1>1 DEF GroupOK, HasColumns
<1>4. \A w \in row.works : cat.works[w].disciplines \cap row.disciplines # {}
  BY <1>1, <1>3 DEF old
<1> HIDE DEF row
<1>5. PICK new : GroupSaved(cat, g, row, new)
  BY DEF GroupSaved
<1>6. /\ SoundCatalogue(new) /\ new.works = cat.works
      /\ new.disciplines = cat.disciplines /\ new.rooms = cat.rooms
  BY <1>3, <1>4, <1>5, GroupWritten
<1> QED BY <1>2, <1>5, <1>6 DEF GroupSaved

-------------------------------------------------------------------------------
(* One lab work written                                                      *)

LEMMA DurationAllowed ==
  ASSUME NEW minutes, NEW default \in AllowedLabDurations
  PROVE  NormalizeDuration(minutes, default) \in AllowedLabDurations
<1> DEFINE S == {d \in AllowedLabDurations : d >= minutes} \cup {90}
<1>1. S \subseteq Nat /\ S # {} /\ S \subseteq AllowedLabDurations
  BY DEF AllowedLabDurations
<1> HIDE DEF S
<1>2. Min(S) \in AllowedLabDurations
  BY <1>1, LeastOf
<1> QED BY <1>2 DEF NormalizeDuration, S

LEMMA MatchingRows ==
  ASSUME NEW cat, NEW title, NEW room
  PROVE  Matching(cat, title, room) = {i \in DOMAIN cat.works : /\ cat.works[i].room = room
                                                                /\ cat.works[i].title[1] = title[1]}
BY DEF Matching, Where

(* A sound catalogue that differs from cat in the lab work i, now row.       *)
WorkChanged(cat, i, row, new) ==
  /\ SoundCatalogue(new) /\ new.disciplines = cat.disciplines
  /\ new.rooms = cat.rooms /\ new.groups = cat.groups
  /\ i \in DOMAIN new.works /\ new.works[i] = row
  /\ DOMAIN cat.works \subseteq DOMAIN new.works
  /\ \A k \in DOMAIN cat.works \ {i} : new.works[k] = cat.works[k]

(* A lab work is written over one of its key, or as the first of its key.    *)
LEMMA WorkWritten ==
  ASSUME NEW cat, SoundCatalogue(cat), NEW i, i \in 1..Len(cat.works) + 1, NEW row,
         WorkOK(row, DOMAIN cat.disciplines),
         \A k \in DOMAIN cat.works \ {i} :
           ~(cat.works[k].room = row.room /\ cat.works[k].title[1] = row.title[1]),
         i \in DOMAIN cat.works => cat.works[i].disciplines \subseteq row.disciplines
  PROVE  WorkChanged(cat, i, row, [cat EXCEPT !.works = Put(cat.works, i, row)])
<1> DEFINE table == Put(cat.works, i, row)
<1>0. IsTable(cat.works)
  BY SoundColumns
<1>1. Wrote(cat.works, i, row, table)
  BY <1>0, PutRow
<1> HIDE DEF table
<1>2. \A k \in DOMAIN table : WorkOK(table[k], DOMAIN cat.disciplines)
  BY <1>1, SoundColumns DEF Wrote
<1>3. \A k \in DOMAIN cat.works : cat.works[k].disciplines \subseteq table[k].disciplines
  BY <1>1 DEF Wrote
<1>4. WorksUnique(table)
  BY <1>1, SoundColumns DEF WorksUnique, Wrote
<1>5. LET new == [cat EXCEPT !.works = table]
      IN /\ SoundCatalogue(new) /\ new.works = table /\ new.disciplines = cat.disciplines
         /\ new.rooms = cat.rooms /\ new.groups = cat.groups
  BY <1>1, <1>2, <1>3, <1>4, OtherWorks DEF Wrote
<1>6. PICK new : /\ new = [cat EXCEPT !.works = table]
                 /\ SoundCatalogue(new) /\ new.works = table /\ new.rooms = cat.rooms
                 /\ new.disciplines = cat.disciplines /\ new.groups = cat.groups
  BY <1>5
<1>7. WorkChanged(cat, i, row, new)
  BY <1>1, <1>6 DEF WorkChanged, Wrote
<1> QED BY <1>6, <1>7 DEF table

(* Over a row found by its key, nobody else has the key; over none, nobody.  *)
LEMMA NobodyElse ==
  ASSUME NEW cat, SoundCatalogue(cat), NEW title, NEW room, NEW i,
         LET found == Matching(cat, title, room)
         IN i \in found \/ found = {}
  PROVE  \A k \in DOMAIN cat.works \ {i} :
           ~(cat.works[k].room = room /\ cat.works[k].title[1] = title[1])
<1>1. WorksUnique(cat.works)
  BY SoundColumns
<1> QED BY <1>1, MatchingRows DEF WorksUnique

-------------------------------------------------------------------------------
(* The journals                                                              *)

JournalShape(t) ==
  HasColumns(t, {"ok", "cat", "accounts", "semester", "counters", "done", "d", "w", "room",
                 "group"})
JournalOK(t) ==
  /\ JournalShape(t) /\ t.ok \in BOOLEAN
  /\ SoundCatalogue(t.cat) /\ AccountsOK(t.accounts)
InRoom(t) == JournalOK(t) /\ t.room \in DOMAIN RoomCapacity

LEMMA RaiseKeeps ==
  ASSUME NEW t, InRoom(t)
  PROVE  InRoom(Raise(t)) /\ Raise(t).ok = FALSE
BY DEF InRoom, JournalOK, JournalShape, HasColumns, Raise

LEMMA JournalDisciplineKeeps ==
  ASSUME NEW t, InRoom(t), NEW title
  PROVE  LET new == JournalDiscipline(t, title)
         IN /\ InRoom(new) /\ new.cat.works = t.cat.works /\ new.room = t.room
            /\ new.group = t.group
            /\ new.ok => new.d \in DOMAIN new.cat.disciplines
<1> DEFINE new == JournalDiscipline(t, title)
           table == t.cat.disciplines
           found == Where(table, LAMBDA d : d.title = title /\ d.semester = t.semester)
           old == IF found # {} THEN table[Min(found)]
                  ELSE [code |-> <<"DISCIPLINE", 0>>, title |-> title, semester |-> t.semester,
                        centers |-> {}, laboratories |-> {}]
<1>1. PICK row : /\ row = [old EXCEPT !.centers = @ \cup {Center},
                                       !.laboratories = @ \cup {JournalLaboratory}]
                 /\ new = IF Cardinality(found) > 1 THEN Raise(t)
                          ELSE [t EXCEPT !.d = First(table, found),
                                         !.cat.disciplines = Put(@, First(table, found), row)]
  BY DEF JournalDiscipline
<1>2. IsTable(table) /\ found \subseteq DOMAIN table
  BY SoundColumns DEF InRoom, JournalOK, Where
<1>a. DisciplineShape(row)
  <2>1. found # {} => Min(found) \in DOMAIN table
    BY <1>2, FirstKey
  <2>2. \A i \in DOMAIN table : DisciplineShape(table[i])
    BY SoundColumns, DisciplineRows DEF InRoom, JournalOK
  <2>3. DisciplineShape(old)
    BY <2>1, <2>2 DEF DisciplineShape, HasColumns
  <2> HIDE DEF old
  <2> QED BY <1>1, <2>3 DEF DisciplineShape, HasColumns
<1> HIDE DEF old
<1> HIDE DEF new, found
<1>3. CASE Cardinality(found) > 1
  <2>1. new = Raise(t)
    BY <1>1, <1>3
  <2>2. new.cat = t.cat /\ new.room = t.room /\ new.group = t.group
    BY <2>1 DEF Raise, InRoom, JournalOK, JournalShape, HasColumns
  <2> QED BY <2>1, <2>2, RaiseKeeps DEF new
<1>4. CASE ~(Cardinality(found) > 1)
  <2> DEFINE i == First(table, found)
             cat == [t.cat EXCEPT !.disciplines = Put(table, i, row)]
  <2>1. i \in 1..Len(table) + 1
    BY <1>2, FirstKey
  <2>2. new = [t EXCEPT !.d = i, !.cat = cat]
    BY <1>1, <1>4
  <2> HIDE DEF i
  <2>3. /\ IsTable(Put(table, i, row)) /\ i \in DOMAIN Put(table, i, row)
        /\ DOMAIN table \subseteq DOMAIN Put(table, i, row)
    <3>1. Wrote(table, i, row, Put(table, i, row))
      BY <1>2, <2>1, PutRow
    <3> QED BY <3>1 DEF Wrote
  <2>4. /\ SoundCatalogue(cat) /\ cat.disciplines = Put(table, i, row)
        /\ cat.works = t.cat.works
    <3>1. Wrote(table, i, row, Put(table, i, row))
      BY <1>2, <2>1, PutRow
    <3> QED BY <1>a, <3>1, DisciplineWritten DEF InRoom, JournalOK
  <2> HIDE DEF cat
  <2>5. /\ JournalShape(new) /\ new.ok = t.ok /\ new.cat = cat /\ new.accounts = t.accounts
        /\ new.room = t.room /\ new.d = i /\ new.group = t.group
    BY <2>2 DEF InRoom, JournalOK, JournalShape, HasColumns
  <2>6. InRoom(new)
    BY <2>4, <2>5 DEF InRoom, JournalOK
  <2> QED BY <2>3, <2>4, <2>5, <2>6 DEF new
<1> QED BY <1>3, <1>4

(* The row at hand has been found: its lab work has its discipline.          *)
Linked(t) ==
  t.ok => /\ t.d \in DOMAIN t.cat.disciplines /\ t.w \in DOMAIN t.cat.works
          /\ t.d \in t.cat.works[t.w].disciplines

LEMMA SeatsPositive ==
  ASSUME NEW room \in DOMAIN RoomCapacity
  PROVE  Min({DefaultCapacity, RoomCapacity[room]}) \in Nat \ {0}
<1> DEFINE S == {DefaultCapacity, RoomCapacity[room]}
<1>1. S \subseteq Nat \ {0} /\ S # {} /\ S \subseteq Nat
  BY CatalogueAssumption
<1> HIDE DEF S
<1>2. Min(S) \in S
  BY <1>1, LeastOf
<1> QED BY <1>1, <1>2 DEF S

LEMMA BindAdds ==
  ASSUME NEW w, WorkShape(w), NEW d
  PROVE  LET new == Bind(w, d)
         IN /\ WorkShape(new) /\ new.title = w.title /\ new.room = w.room
            /\ new.capacity = w.capacity /\ new.minutes = w.minutes
            /\ new.disciplines = w.disciplines \cup {d}
BY DEF WorkShape, HasColumns, Bind

LEMMA PutWorkKeeps ==
  ASSUME NEW t, InRoom(t), t.d \in DOMAIN t.cat.disciplines,
         NEW i, i \in 1..Len(t.cat.works) + 1, NEW row,
         WorkOK(row, DOMAIN t.cat.disciplines), t.d \in row.disciplines,
         \A k \in DOMAIN t.cat.works \ {i} :
           ~(t.cat.works[k].room = row.room /\ t.cat.works[k].title[1] = row.title[1]),
         i \in DOMAIN t.cat.works => t.cat.works[i].disciplines \subseteq row.disciplines
  PROVE  LET new == PutWork(t, i, row)
         IN /\ InRoom(new) /\ Linked(new) /\ new.room = t.room /\ new.group = t.group
<1> DEFINE cat == [t.cat EXCEPT !.works = Put(t.cat.works, i, row)]
           new == PutWork(t, i, row)
<1>1. /\ SoundCatalogue(cat) /\ cat.disciplines = t.cat.disciplines
      /\ i \in DOMAIN cat.works /\ cat.works[i] = row
  <2>1. PICK c : c = t.cat
    OBVIOUS
  <2>2. SoundCatalogue(c)
    BY <2>1 DEF InRoom, JournalOK
  <2>3. WorkChanged(c, i, row, cat)
    BY <2>1, <2>2, WorkWritten
  <2> QED BY <2>1, <2>3 DEF WorkChanged
<1>2. new = [t EXCEPT !.w = i, !.done = t.done \cup {i}, !.cat = cat]
  BY DEF PutWork
<1> HIDE DEF cat
<1>3. /\ JournalShape(new) /\ new.ok = t.ok /\ new.cat = cat /\ new.accounts = t.accounts
      /\ new.room = t.room /\ new.group = t.group /\ new.d = t.d /\ new.w = i
  BY <1>2 DEF InRoom, JournalOK, JournalShape, HasColumns
<1> HIDE DEF new
<1>4. InRoom(new) /\ Linked(new)
  BY <1>1, <1>3 DEF InRoom, JournalOK, Linked
<1> QED BY <1>3, <1>4 DEF new

LEMMA UpsertLabKeeps ==
  ASSUME NEW t, InRoom(t), t.ok => t.d \in DOMAIN t.cat.disciplines, NEW item,
         NEW seats \in Nat \ {0}
  PROVE  LET new == UpsertLab(t, item, seats, Matching(t.cat, item.title, t.room))
         IN InRoom(new) /\ Linked(new) /\ new.room = t.room /\ new.group = t.group
<1> DEFINE found == Matching(t.cat, item.title, t.room)
           new == UpsertLab(t, item, seats, found)
           works == t.cat.works
           ds == DOMAIN t.cat.disciplines
<1>1. SoundCatalogue(t.cat) /\ IsTable(works) /\ found \subseteq DOMAIN works
  BY SoundColumns, MatchingRows DEF InRoom, JournalOK
<1>2. Len(works) \in Nat /\ DOMAIN works = 1..Len(works)
  BY <1>1, TableDomain
<1>3. CASE ~t.ok
  <2>1. new = t
    BY <1>3 DEF UpsertLab
  <2> QED BY <1>3, <2>1 DEF Linked
<1>4. CASE t.ok /\ found = {}
  <2> DEFINE first == [title |-> item.title, room |-> t.room, disciplines |-> {},
                       capacity |-> seats, minutes |-> NormalizeDuration(item.minutes, 90),
                       centers |-> {}, laboratories |-> {}, stand |-> None]
             row == Bind(first, t.d)
             i == Len(works) + 1
  <2>1. new = PutWork(t, i, row)
    BY <1>4 DEF UpsertLab
  <2>2. NormalizeDuration(item.minutes, 90) \in AllowedLabDurations
    BY DurationAllowed DEF AllowedLabDurations
  <2>3. /\ WorkShape(first) /\ first.title = item.title /\ first.room = t.room
        /\ first.capacity = seats /\ first.minutes = NormalizeDuration(item.minutes, 90)
        /\ first.disciplines = {}
    BY DEF WorkShape, HasColumns
  <2> HIDE DEF first
  <2>4. /\ WorkShape(row) /\ row.title = item.title /\ row.room = t.room
        /\ row.capacity = seats /\ row.minutes = NormalizeDuration(item.minutes, 90)
        /\ row.disciplines = {} \cup {t.d}
    BY <2>3, BindAdds
  <2> HIDE DEF row
  <2>5. WorkOK(row, ds)
    BY <1>4, <2>2, <2>4 DEF WorkOK, WorkShape
  <2>a. \A k \in DOMAIN works \ {i} :
          ~(works[k].room = t.room /\ works[k].title[1] = item.title[1])
    BY <1>1, <1>4, NobodyElse
  <2>6. \A k \in DOMAIN works \ {i} :
          ~(works[k].room = row.room /\ works[k].title[1] = row.title[1])
    BY <2>4, <2>a
  <2>7. i \in 1..Len(works) + 1 /\ i \notin DOMAIN works
    BY <1>2
  <2> HIDE DEF i
  <2> QED BY <1>4, <2>1, <2>4, <2>5, <2>6, <2>7, PutWorkKeeps
<1>5. CASE t.ok /\ found # {}
  <2> DEFINE i == Min(found)
             old == works[i]
  <2>1. i \in found /\ i \in DOMAIN works /\ i \in 1..Len(works) + 1
    BY <1>1, <1>2, <1>5, LeastOf
  <2>2. /\ WorkOK(old, ds) /\ WorkShape(old)
        /\ old.room = t.room /\ old.title[1] = item.title[1]
    BY <1>1, <2>1, SoundColumns, MatchingRows
  <2> HIDE DEF i, old
  <2>3. /\ WorkShape(Bind(old, t.d)) /\ Bind(old, t.d).title = old.title
        /\ Bind(old, t.d).room = old.room /\ Bind(old, t.d).capacity = old.capacity
        /\ Bind(old, t.d).minutes = old.minutes
        /\ Bind(old, t.d).disciplines = old.disciplines \cup {t.d}
    BY <2>2, BindAdds
  <2>4. NormalizeDuration(item.minutes, old.minutes) \in AllowedLabDurations
    BY <2>2, DurationAllowed DEF WorkOK
  <2>5. PICK row : /\ new = PutWork(t, i, row) /\ WorkShape(row)
                   /\ row.title = old.title /\ row.room = old.room
                   /\ row.disciplines = old.disciplines \cup {t.d}
                   /\ row.capacity \in Nat \ {0} /\ row.minutes \in AllowedLabDurations
    <3>1. CASE i \notin t.done
      <4>1. new = PutWork(t, i, Bind(old, t.d))
        BY <1>5, <3>1 DEF UpsertLab, i, old
      <4> QED BY <2>2, <2>3, <4>1 DEF WorkOK
    <3>2. CASE i \in t.done
      <4> DEFINE row == [Bind(old, t.d) EXCEPT !.capacity = seats,
                           !.minutes = NormalizeDuration(item.minutes, old.minutes)]
      <4>1. new = PutWork(t, i, row)
        BY <1>5, <2>3, <3>2 DEF UpsertLab, i, old
      <4>2. /\ WorkShape(row) /\ row.title = old.title /\ row.room = old.room
            /\ row.disciplines = old.disciplines \cup {t.d} /\ row.capacity = seats
            /\ row.minutes = NormalizeDuration(item.minutes, old.minutes)
        BY <2>3 DEF WorkShape, HasColumns
      <4> HIDE DEF row
      <4> QED BY <2>4, <4>1, <4>2
    <3> QED BY <3>1, <3>2
  <2>6. WorkOK(row, ds)
    BY <1>5, <2>2, <2>5 DEF WorkOK, WorkShape
  <2>7. \A k \in DOMAIN works \ {i} : ~(works[k].room = t.room /\ works[k].title[1] = item.title[1])
    BY <1>1, <2>1, NobodyElse
  <2>8. \A k \in DOMAIN works \ {i} :
          ~(works[k].room = row.room /\ works[k].title[1] = row.title[1])
    BY <2>2, <2>5, <2>7
  <2>9. works[i].disciplines \subseteq row.disciplines
    BY <2>5 DEF old
  <2> QED BY <1>5, <2>1, <2>5, <2>6, <2>8, <2>9, PutWorkKeeps
<1> QED BY <1>3, <1>4, <1>5

LEMMA JournalWorkKeeps ==
  ASSUME NEW t, InRoom(t), NEW item
  PROVE  LET new == JournalWork(t, item)
         IN InRoom(new) /\ Linked(new) /\ new.room = t.room /\ new.group = t.group
<1>1. PICK seats \in Nat \ {0} : seats = Min({DefaultCapacity, RoomCapacity[t.room]})
  BY SeatsPositive DEF InRoom
<1>2. PICK s : s = JournalDiscipline(t, item.discipline)
  OBVIOUS
<1>3. /\ InRoom(s) /\ s.cat.works = t.cat.works /\ s.room = t.room /\ s.group = t.group
      /\ s.ok => s.d \in DOMAIN s.cat.disciplines
  BY <1>2, JournalDisciplineKeeps
<1>4. Matching(t.cat, item.title, t.room) = Matching(s.cat, item.title, s.room)
  BY <1>3 DEF Matching, Where
<1>5. JournalWork(t, item) = UpsertLab(s, item, seats, Matching(s.cat, item.title, s.room))
  BY <1>1, <1>2, <1>4 DEF JournalWork
<1> QED BY <1>3, <1>5, UpsertLabKeeps

LEMMA AddToPlanKeeps ==
  ASSUME NEW t, InRoom(t), Linked(t)
  PROVE  LET new == AddToPlan(t)
         IN InRoom(new) /\ new.room = t.room /\ new.group = t.group
<1>1. CASE ~t.ok
  BY <1>1 DEF AddToPlan
<1>2. CASE t.ok
  <2> DEFINE cat == Plan(t.cat, t.group, {t.d}, {t.w})
             new == AddToPlan(t)
  <2>1. SoundCatalogue(cat)
    BY <1>2, PlanSound DEF InRoom, JournalOK, Linked
  <2>2. new = [t EXCEPT !.cat = cat]
    BY <1>2 DEF AddToPlan
  <2> HIDE DEF cat
  <2>3. /\ JournalShape(new) /\ new.ok = t.ok /\ new.cat = cat /\ new.accounts = t.accounts
        /\ new.room = t.room /\ new.group = t.group
    BY <2>2 DEF InRoom, JournalOK, JournalShape, HasColumns
  <2> QED BY <2>1, <2>3 DEF InRoom, JournalOK
<1> QED BY <1>1, <1>2

LEMMA SheetWorkKeeps ==
  ASSUME NEW t, InRoom(t), NEW item
  PROVE  LET new == SheetWork(t, item)
         IN InRoom(new) /\ new.room = t.room /\ new.group = t.group
<1>1. PICK s : s = JournalWork(t, item)
  OBVIOUS
<1>2. InRoom(s) /\ Linked(s) /\ s.room = t.room /\ s.group = t.group
  BY <1>1, JournalWorkKeeps
<1>3. PICK r : r = AddToPlan(s)
  OBVIOUS
<1>4. InRoom(r) /\ r.room = t.room /\ r.group = t.group
  BY <1>2, <1>3, AddToPlanKeeps
<1> QED BY <1>1, <1>3, <1>4 DEF SheetWork

LEMMA StandSound ==
  ASSUME NEW cat, SoundCatalogue(cat), NEW w \in DOMAIN cat.works, NEW stand
  PROVE  SoundCatalogue([cat EXCEPT !.works[w].stand = stand])
<1> DEFINE works == cat.works
           row == [works[w] EXCEPT !.stand = stand]
           table == [works EXCEPT ![w] = row]
<1>1. WorkOK(works[w], DOMAIN cat.disciplines) /\ WorkShape(works[w]) /\ IsTable(works)
  BY SoundColumns
<1>2. /\ WorkShape(row) /\ row.title = works[w].title /\ row.room = works[w].room
      /\ row.minutes = works[w].minutes /\ row.capacity = works[w].capacity
      /\ row.disciplines = works[w].disciplines
  BY <1>1 DEF WorkShape, HasColumns
<1> HIDE DEF row
<1>3. WorkOK(row, DOMAIN cat.disciplines)
  BY <1>1, <1>2 DEF WorkOK, WorkShape
<1>4. /\ table = [i \in DOMAIN works |-> table[i]] /\ table[w] = row
      /\ DOMAIN table = DOMAIN works
      /\ \A i \in DOMAIN works \ {w} : table[i] = works[i]
  OBVIOUS
<1> HIDE DEF table
<1>5. IsTable(table)
  BY <1>1, <1>4, SameLength
<1>a. WorksUnique(works)
  BY SoundColumns
<1>b. \A i \in DOMAIN works : table[i].room = works[i].room /\ table[i].title = works[i].title
  BY <1>2, <1>4
<1>6. WorksUnique(table)
  BY <1>4, <1>a, <1>b DEF WorksUnique
<1>7. \A i \in DOMAIN table : WorkOK(table[i], DOMAIN cat.disciplines)
  BY <1>3, <1>4, SoundColumns
<1>8. \A i \in DOMAIN works : works[i].disciplines \subseteq table[i].disciplines
  BY <1>2, <1>4
<1>9. SoundCatalogue([cat EXCEPT !.works = table])
  BY <1>4, <1>5, <1>6, <1>7, <1>8, OtherWorks
<1> QED BY <1>9 DEF table, row

LEMMA PutStandKeeps ==
  ASSUME NEW t, InRoom(t), Linked(t), NEW stand
  PROVE  InRoom(PutStand(t, stand)) /\ PutStand(t, stand).room = t.room
<1>1. CASE ~(t.ok /\ stand # None)
  BY <1>1 DEF PutStand
<1>2. CASE t.ok /\ stand # None
  <2> DEFINE cat == [t.cat EXCEPT !.works[t.w].stand = stand]
             new == PutStand(t, stand)
  <2>1. SoundCatalogue(cat)
    BY <1>2, StandSound DEF InRoom, JournalOK, Linked
  <2>2. new = [t EXCEPT !.cat = cat]
    BY <1>2 DEF PutStand
  <2> HIDE DEF cat
  <2>3. /\ JournalShape(new) /\ new.ok = t.ok /\ new.cat = cat /\ new.accounts = t.accounts
        /\ new.room = t.room
    BY <2>2 DEF InRoom, JournalOK, JournalShape, HasColumns
  <2> QED BY <2>1, <2>3 DEF InRoom, JournalOK
<1> QED BY <1>1, <1>2

LEMMA CatalogWorkKeeps ==
  ASSUME NEW t, InRoom(t), NEW item
  PROVE  InRoom(CatalogWork(t, item)) /\ CatalogWork(t, item).room = t.room
<1>1. PICK new : new = CatalogWork(t, item)
  OBVIOUS
<1>2. \/ \E any, stand : new = PutStand(JournalWork(t, any), stand)
      \/ new = t \/ new = Raise(t)
  BY <1>1 DEF CatalogWork
<1>3. ASSUME NEW any, NEW stand, new = PutStand(JournalWork(t, any), stand)
      PROVE  InRoom(new) /\ new.room = t.room
  <2>1. PICK s : s = JournalWork(t, any)
    OBVIOUS
  <2>2. InRoom(s) /\ Linked(s) /\ s.room = t.room
    BY <2>1, JournalWorkKeeps
  <2> QED BY <1>3, <2>1, <2>2, PutStandKeeps
<1>4. InRoom(Raise(t)) /\ Raise(t).room = t.room
  BY RaiseKeeps DEF Raise, InRoom, JournalOK, JournalShape, HasColumns
<1> QED BY <1>1, <1>2, <1>3, <1>4

-------------------------------------------------------------------------------
(* Accounts                                                                  *)

AccountShape(a) ==
  HasColumns(a, {"email", "role", "groupName", "group", "record", "center", "laboratory",
                 "disciplines"})

LEMMA AccountRows ==
  ASSUME NEW table, AccountsOK(table)
  PROVE  /\ IsTable(table) /\ \A i \in DOMAIN table : AccountShape(table[i])
         /\ \A i, k \in DOMAIN table : table[i].email = table[k].email => i = k
BY DEF AccountsOK, AccountShape, Table

LEMMA AccountFound ==
  ASSUME NEW table, AccountsOK(table), NEW email, NEW role
  PROVE  AccountShape(Account(table, email, role)) /\ Account(table, email, role).email = email
<1> DEFINE found == ByEmail(table, email)
<1>1. found = {i \in DOMAIN table : table[i].email = email}
  BY DEF ByEmail, Where
<1>2. DOMAIN table \subseteq Nat
  BY AccountRows, TableDomain
<1> HIDE DEF found
<1>3. found # {} => Min(found) \in found
  BY <1>1, <1>2, LeastOf
<1>4. AccountShape(NewAccount(email, role)) /\ NewAccount(email, role).email = email
  BY DEF AccountShape, NewAccount, HasColumns
<1>5. found # {} => Account(table, email, role) = table[Min(found)]
  BY DEF Account, found
<1>6. found = {} => Account(table, email, role) = NewAccount(email, role)
  BY DEF Account, found
<1> QED BY <1>1, <1>3, <1>4, <1>5, <1>6, AccountRows

(* An account is written over the one with its address, or added: the others *)
(* stay as they are.                                                         *)
AccountWritten(table, row, new) ==
  /\ AccountsOK(new) /\ DOMAIN table \subseteq DOMAIN new
  /\ \A i \in DOMAIN table : table[i].email # row.email => new[i] = table[i]
  /\ \A i \in DOMAIN table : table[i].email = row.email => new[i] = row
  /\ \E i \in DOMAIN new : new[i] = row

LEMMA PutAccountWrites ==
  ASSUME NEW table, AccountsOK(table), NEW row, AccountShape(row)
  PROVE  AccountWritten(table, row, PutAccount(table, row))
<1> DEFINE found == {i \in DOMAIN table : table[i].email = row.email}
           k == First(table, found)
<1>1. IsTable(table) /\ found \subseteq DOMAIN table
  BY AccountRows
<1>2. PICK new : new = Put(table, k, row)
  OBVIOUS
<1>3. ByEmail(table, row.email) = found
  BY DEF ByEmail, Where
<1>4. PutAccount(table, row) = new
  BY <1>2, <1>3 DEF PutAccount
<1> HIDE DEF found, k
<1>5. /\ k \in 1..Len(table) + 1
      /\ found # {} => k \in found
      /\ found = {} => k \notin DOMAIN table
  BY <1>1, FirstKey DEF k
<1>6. Wrote(table, k, row, new)
  BY <1>1, <1>2, <1>5, PutRow
<1>7. \A i \in DOMAIN table : table[i].email = row.email <=> i = k
  BY <1>5, AccountRows DEF found
<1>8. /\ \A i \in DOMAIN new : AccountShape(new[i])
      /\ \A i, j \in DOMAIN new : new[i].email = new[j].email => i = j
  BY <1>6, <1>7, AccountRows DEF Wrote
<1>9. AccountsOK(new)
  BY <1>6, <1>8 DEF AccountsOK, Table, AccountShape, Wrote
<1> QED BY <1>4, <1>6, <1>7, <1>9 DEF AccountWritten, Wrote

LEMMA JournalStudentKeeps ==
  ASSUME NEW t, InRoom(t), NEW i
  PROVE  InRoom(JournalStudent(t, i)) /\ JournalStudent(t, i).room = t.room
<1> DEFINE new == JournalStudent(t, i)
<1>1. CASE YearOf[t.group] = None
  <2>1. new = Raise(t)
    BY <1>1 DEF JournalStudent
  <2>2. Raise(t).room = t.room
    BY DEF Raise, InRoom, JournalOK, JournalShape, HasColumns
  <2> QED BY <2>1, <2>2, RaiseKeeps
<1>2. CASE YearOf[t.group] # None
  <2> DEFINE year == YearOf[t.group]
             email == <<year, t.counters[year] + 1>>
             old == Account(t.accounts, email, "STUDENT")
             row == [old EXCEPT !.role = "STUDENT", !.groupName = t.group, !.group = t.group,
                                !.record = email]
             table == PutAccount(t.accounts, row)
             counters == [t.counters EXCEPT ![year] = @ + 1]
  <2>1. AccountShape(old)
    BY AccountFound DEF InRoom, JournalOK
  <2>2. new = [t EXCEPT !.counters = counters, !.accounts = table]
    BY <1>2 DEF JournalStudent
  <2> HIDE DEF counters, old
  <2>3. AccountShape(row)
    BY <2>1 DEF AccountShape, HasColumns
  <2> HIDE DEF row
  <2>4. AccountWritten(t.accounts, row, table)
    BY <2>3, PutAccountWrites DEF InRoom, JournalOK
  <2> HIDE DEF table
  <2>5. /\ JournalShape(new) /\ new.ok = t.ok /\ new.cat = t.cat /\ new.accounts = table
        /\ new.room = t.room
    BY <2>2 DEF InRoom, JournalOK, JournalShape, HasColumns
  <2> QED BY <2>4, <2>5 DEF AccountWritten, InRoom, JournalOK
<1> QED BY <1>1, <1>2

(* The loops over the rows of a journal.                                     *)
SheetWorks == INSTANCE RowLoop WITH
  Row <- LAMBDA t, row : IF t.ok THEN SheetWork(t, row) ELSE t,
  Kept <- LAMBDA tx, rows, n, t : InRoom(t)
Students == INSTANCE RowLoop WITH
  Row <- LAMBDA t, row : IF t.ok THEN JournalStudent(t, row) ELSE t,
  Kept <- LAMBDA tx, rows, n, t : InRoom(t)
Sheets == INSTANCE RowLoop WITH
  Row <- LAMBDA t, row : IF t.ok THEN GroupSheet(t, row) ELSE t,
  Kept <- LAMBDA tx, rows, n, t : InRoom(t)
CatalogWorks == INSTANCE RowLoop WITH
  Row <- LAMBDA t, row : IF t.ok THEN CatalogWork(t, row) ELSE t,
  Kept <- LAMBDA tx, rows, n, t : InRoom(t)
Books == INSTANCE RowLoop WITH
  Row <- LAMBDA t, row : IF t.ok THEN Workbook(t, row) ELSE t,
  Kept <- LAMBDA tx, rows, n, t : JournalOK(t)

LEMMA SheetWorksKeep ==
  ASSUME NEW t, InRoom(t), NEW rows, Len(rows) \in Nat
  PROVE  InRoom(ForEach(SheetWork, t, rows))
<1>1. ForEach(SheetWork, t, rows) = SheetWorks!Through(t, rows)
  BY DEF ForEach, Through, SheetWorks!Through
<1>2. InRoom(SheetWorks!Through(t, rows))
  BY SheetWorkKeeps, SheetWorks!LoopKeeps
<1> QED BY <1>1, <1>2

LEMMA StudentsKeep ==
  ASSUME NEW t, InRoom(t), NEW rows, Len(rows) \in Nat
  PROVE  InRoom(ForEach(JournalStudent, t, rows))
<1>1. ForEach(JournalStudent, t, rows) = Students!Through(t, rows)
  BY DEF ForEach, Through, Students!Through
<1>2. InRoom(Students!Through(t, rows))
  BY JournalStudentKeeps, Students!LoopKeeps
<1> QED BY <1>1, <1>2

(* A function over the numbers up to n is a table of n rows.                 *)
LEMMA TableOf ==
  ASSUME NEW n \in Nat, NEW table, table = [i \in 1..n |-> table[i]]
  PROVE  IsTable(table) /\ Len(table) = n
<1> DEFINE Rows == {table[i] : i \in 1..n}
<1>1. \A i \in 1..n : table[i] \in Rows
  OBVIOUS
<1> HIDE DEF Rows
<1>2. table \in Seq(Rows)
  BY <1>1
<1> QED BY <1>2, SequenceIsTable

(* What the parser hands to the importer.                                    *)
ParsedSheet(sheet) == IsTable(sheet.works) /\ sheet.students \in Nat
ParsedBook(book) ==
  /\ IsTable(book.catalog) /\ IsTable(book.sheets)
  /\ \A i \in DOMAIN book.sheets : ParsedSheet(book.sheets[i])

LEMMA GroupSheetKeeps ==
  ASSUME NEW t, InRoom(t), NEW sheet, ParsedSheet(sheet)
  PROVE  InRoom(GroupSheet(t, sheet))
<1> DEFINE cat == Plan(t.cat, sheet.group, {}, {})
           grouped == [t EXCEPT !.cat = cat, !.group = sheet.group]
           numbers == {StudentsPerGroup, sheet.students}
           students == [i \in 1..Min(numbers) |-> i]
<1>1. SoundCatalogue(cat)
  BY PlanSound DEF InRoom, JournalOK
<1> HIDE DEF cat
<1>2. /\ JournalShape(grouped) /\ grouped.ok = t.ok /\ grouped.cat = cat
      /\ grouped.accounts = t.accounts /\ grouped.room = t.room
  BY DEF InRoom, JournalOK, JournalShape, HasColumns
<1>3. GroupSheet(t, sheet) = ForEach(JournalStudent, ForEach(SheetWork, grouped, sheet.works), students)
  BY DEF GroupSheet, cat
<1> HIDE DEF grouped
<1>4. InRoom(grouped)
  BY <1>1, <1>2 DEF InRoom, JournalOK
<1>5. Len(sheet.works) \in Nat
  BY TableDomain DEF ParsedSheet
<1>6. InRoom(ForEach(SheetWork, grouped, sheet.works))
  BY <1>4, <1>5, SheetWorksKeep
<1>7. Len(students) \in Nat
  <2>1. numbers \subseteq Nat /\ numbers # {}
    BY AccountAssumption DEF ParsedSheet
  <2> HIDE DEF numbers
  <2>2. Min(numbers) \in Nat
    BY <2>1, LeastOf
  <2> QED BY <2>2, TableOf
<1> HIDE DEF students
<1> QED BY <1>3, <1>6, <1>7, StudentsKeep

LEMMA SheetsKeep ==
  ASSUME NEW t, InRoom(t), NEW rows, IsTable(rows), \A n \in DOMAIN rows : ParsedSheet(rows[n])
  PROVE  InRoom(ForEach(GroupSheet, t, rows))
<1>1. ForEach(GroupSheet, t, rows) = Sheets!Through(t, rows)
  BY DEF ForEach, Through, Sheets!Through
<1>2. Len(rows) \in Nat /\ \A n \in 1..Len(rows) : ParsedSheet(rows[n])
  BY TableDomain
<1>3. InRoom(Sheets!Through(t, rows))
  BY <1>2, GroupSheetKeeps, Sheets!LoopKeeps
<1> QED BY <1>1, <1>3

LEMMA CatalogWorksKeep ==
  ASSUME NEW t, InRoom(t), NEW rows, Len(rows) \in Nat
  PROVE  InRoom(ForEach(CatalogWork, t, rows))
<1>1. ForEach(CatalogWork, t, rows) = CatalogWorks!Through(t, rows)
  BY DEF ForEach, Through, CatalogWorks!Through
<1>2. InRoom(CatalogWorks!Through(t, rows))
  BY CatalogWorkKeeps, CatalogWorks!LoopKeeps
<1> QED BY <1>1, <1>2

LEMMA WorkbookKeeps ==
  ASSUME NEW t, JournalOK(t), NEW book, ParsedBook(book)
  PROVE  JournalOK(Workbook(t, book))
<1>1. CASE book.room \notin DOMAIN RoomCapacity
  <2>1. JournalOK(Raise(t))
    BY DEF JournalOK, JournalShape, HasColumns, Raise
  <2> QED BY <1>1, <2>1 DEF Workbook
<1>2. CASE book.room \in DOMAIN RoomCapacity
  <2> DEFINE here == [t EXCEPT !.room = book.room]
  <2>1. /\ JournalShape(here) /\ here.ok = t.ok /\ here.cat = t.cat
        /\ here.accounts = t.accounts /\ here.room = book.room
    BY DEF JournalOK, JournalShape, HasColumns
  <2>2. Workbook(t, book) = ForEach(CatalogWork, ForEach(GroupSheet, here, book.sheets), book.catalog)
    BY <1>2 DEF Workbook
  <2> HIDE DEF here
  <2>3. InRoom(here)
    BY <1>2, <2>1 DEF InRoom, JournalOK
  <2>4. InRoom(ForEach(GroupSheet, here, book.sheets))
    BY <2>3, SheetsKeep DEF ParsedBook
  <2>5. Len(book.catalog) \in Nat
    BY TableDomain DEF ParsedBook
  <2> QED BY <2>2, <2>4, <2>5, CatalogWorksKeep DEF InRoom
<1> QED BY <1>1, <1>2

LEMMA BooksKeep ==
  ASSUME NEW t, JournalOK(t), NEW rows, IsTable(rows), \A n \in DOMAIN rows : ParsedBook(rows[n])
  PROVE  JournalOK(ForEach(Workbook, t, rows))
<1>1. ForEach(Workbook, t, rows) = Books!Through(t, rows)
  BY DEF ForEach, Through, Books!Through
<1>2. Len(rows) \in Nat /\ \A n \in 1..Len(rows) : ParsedBook(rows[n])
  BY TableDomain
<1>3. JournalOK(Books!Through(t, rows))
  BY <1>2, WorkbookKeeps, Books!LoopKeeps
<1> QED BY <1>1, <1>3

-------------------------------------------------------------------------------
(* The parser                                                                *)

(* The rows picked so far are some of the first n.                           *)
Selection(rows, n, picked) ==
  IsTable(picked) /\ \A i \in DOMAIN picked : \E k \in 1..n : picked[i] = rows[k]

LEMMA EmptySelection ==
  ASSUME NEW rows
  PROVE  Selection(rows, 0, <<>>) /\ DOMAIN <<>> = {}
<1>1. <<>> \in Seq({}) /\ DOMAIN <<>> = {}
  OBVIOUS
<1> QED BY <1>1, SequenceIsTable DEF Selection

LEMMA MorePicked ==
  ASSUME NEW rows, NEW n \in Nat, n # 0, NEW picked, Selection(rows, n - 1, picked)
  PROVE  /\ Selection(rows, n, picked)
         /\ Selection(rows, n, Append(picked, rows[n]))
         /\ \A i \in DOMAIN Append(picked, rows[n]) :
              \/ i \in DOMAIN picked /\ Append(picked, rows[n])[i] = picked[i]
              \/ i \notin DOMAIN picked /\ Append(picked, rows[n])[i] = rows[n]
<1>1. Len(picked) \in Nat /\ DOMAIN picked = 1..Len(picked) /\ IsTable(picked)
  BY TableDomain DEF Selection
<1>2. PICK end : end = Len(picked) + 1
  OBVIOUS
<1>a. PICK longer : longer = Put(picked, end, rows[n])
  OBVIOUS
<1>3. longer = Append(picked, rows[n])
  BY <1>1, <1>2, <1>a DEF Put
<1>b. end \in 1..Len(picked) + 1 /\ end \notin DOMAIN picked
  BY <1>1, <1>2
<1>4. Wrote(picked, end, rows[n], longer)
  BY <1>1, <1>a, <1>b, PutRow
<1>5. \A i \in DOMAIN longer : \/ i \in DOMAIN picked /\ longer[i] = picked[i]
                               \/ i \notin DOMAIN picked /\ longer[i] = rows[n]
  BY <1>4, <1>b DEF Wrote
<1>6. \A i \in DOMAIN picked : \E k \in 1..n : picked[i] = rows[k]
  BY DEF Selection
<1>7. n \in 1..n
  OBVIOUS
<1>8. Selection(rows, n, longer) /\ Selection(rows, n, picked)
  BY <1>1, <1>4, <1>5, <1>6, <1>7 DEF Selection, Wrote
<1> QED BY <1>3, <1>5, <1>8

(* Only sheets of one kind have been picked.                                 *)
PickedKind(kind, rows, n, picked) ==
  Selection(rows, n, picked) /\ \A i \in DOMAIN picked : picked[i].kind = kind

LEMMA KindPicked ==
  ASSUME NEW kind, NEW rows, NEW n \in Nat, n # 0, NEW t, PickedKind(kind, rows, n - 1, t),
         NEW new, new = IF rows[n].kind = kind THEN Append(t, rows[n]) ELSE t
  PROVE  PickedKind(kind, rows, n, new)
BY MorePicked DEF PickedKind

GroupSheets == INSTANCE RowLoop WITH
  Row <- LAMBDA kept, sheet : IF sheet.kind = "group" THEN Append(kept, sheet) ELSE kept,
  Kept <- LAMBDA tx, rows, n, t : PickedKind("group", rows, n, t)
CatalogSheets == INSTANCE RowLoop WITH
  Row <- LAMBDA kept, sheet : IF sheet.kind = "catalog" THEN Append(kept, sheet) ELSE kept,
  Kept <- LAMBDA tx, rows, n, t : PickedKind("catalog", rows, n, t)

LEMMA GroupSheetsOf ==
  ASSUME NEW rows, IsTable(rows)
  PROVE  PickedKind("group", rows, Len(rows), Those(rows, LAMBDA sheet : sheet.kind = "group"))
<1>1. Those(rows, LAMBDA sheet : sheet.kind = "group") = GroupSheets!Through(<<>>, rows)
  BY DEF Those, Through, GroupSheets!Through
<1>2. Len(rows) \in Nat /\ PickedKind("group", rows, 0, <<>>)
  BY TableDomain, EmptySelection DEF PickedKind
<1>3. PickedKind("group", rows, Len(rows), GroupSheets!Through(<<>>, rows))
  <2>1. ASSUME NEW n \in 1..Len(rows), NEW t, PickedKind("group", rows, n - 1, t)
        PROVE  PickedKind("group", rows, n,
                          IF rows[n].kind = "group" THEN Append(t, rows[n]) ELSE t)
    <3>1. PICK new : new = IF rows[n].kind = "group" THEN Append(t, rows[n]) ELSE t
      OBVIOUS
    <3>2. n \in Nat /\ n # 0
      BY <1>2
    <3>3. PickedKind("group", rows, n, new)
      BY <2>1, <3>1, <3>2, KindPicked
    <3> QED BY <3>1, <3>3
  <2> QED BY <1>2, <2>1, GroupSheets!LoopKeeps
<1> QED BY <1>1, <1>3

LEMMA CatalogSheetsOf ==
  ASSUME NEW rows, IsTable(rows)
  PROVE  PickedKind("catalog", rows, Len(rows), Those(rows, LAMBDA sheet : sheet.kind = "catalog"))
<1>1. Those(rows, LAMBDA sheet : sheet.kind = "catalog") = CatalogSheets!Through(<<>>, rows)
  BY DEF Those, Through, CatalogSheets!Through
<1>2. Len(rows) \in Nat /\ PickedKind("catalog", rows, 0, <<>>)
  BY TableDomain, EmptySelection DEF PickedKind
<1>3. PickedKind("catalog", rows, Len(rows), CatalogSheets!Through(<<>>, rows))
  <2>1. ASSUME NEW n \in 1..Len(rows), NEW t, PickedKind("catalog", rows, n - 1, t)
        PROVE  PickedKind("catalog", rows, n,
                          IF rows[n].kind = "catalog" THEN Append(t, rows[n]) ELSE t)
    <3>1. PICK new : new = IF rows[n].kind = "catalog" THEN Append(t, rows[n]) ELSE t
      OBVIOUS
    <3>2. n \in Nat /\ n # 0
      BY <1>2
    <3>3. PickedKind("catalog", rows, n, new)
      BY <2>1, <3>1, <3>2, KindPicked
    <3> QED BY <3>1, <3>3
  <2> QED BY <1>2, <2>1, CatalogSheets!LoopKeeps
<1> QED BY <1>1, <1>3

LEMMA FiniteRows ==
  ASSUME NEW table, IsTable(table), NEW S, S \subseteq DOMAIN table
  PROVE  IsFiniteSet(S) /\ Cardinality(S) \in Nat
<1>1. Len(table) \in Nat /\ DOMAIN table = 1..Len(table)
  BY TableDomain
<1>2. IsFiniteSet(1..Len(table))
  BY <1>1, FS_Interval
<1>3. IsFiniteSet(S)
  BY <1>1, <1>2, FS_Subset
<1> QED BY <1>3, FS_CardinalityType

LEMMA HeaderInRows ==
  ASSUME NEW rows, IsTable(rows), Len(rows) >= 3
  PROVE  HeaderLayout(rows)[2] \in DOMAIN rows
<1> DEFINE heads == {d \in DOMAIN rows : /\ d <= 6
                                         /\ ColumnsOf(rows[d], LooksLikeDiscipline) # {}
                                         /\ LabRows(rows, d) # {}}
<1>1. Len(rows) \in Nat /\ DOMAIN rows = 1..Len(rows)
  BY TableDomain
<1>2. heads \subseteq Nat /\ \A d \in heads : LabRows(rows, d) # {}
  BY <1>1
<1>3. HeaderLayout(rows) = IF heads = {} THEN <<2, 3>>
                           ELSE <<Min(heads), Min(LabRows(rows, Min(heads)))>>
  BY DEF HeaderLayout
<1> HIDE DEF heads
<1>4. CASE heads = {}
  BY <1>1, <1>3, <1>4
<1>5. CASE heads # {}
  <2>1. PICK labs : labs = LabRows(rows, Min(heads))
    OBVIOUS
  <2>2. labs # {}
    BY <1>2, <1>5, <2>1, LeastOf
  <2>3. labs \subseteq DOMAIN rows
    BY <2>1 DEF LabRows
  <2>4. Min(labs) \in labs
    BY <1>1, <2>2, <2>3, LeastOf
  <2> QED BY <1>3, <1>5, <2>1, <2>3, <2>4
<1> QED BY <1>4, <1>5

LEMMA GroupSheetParsed ==
  ASSUME NEW sheet, IsTable(sheet.rows), \A i \in DOMAIN sheet.rows : IsTable(sheet.rows[i])
  PROVE  ParsedSheet(ParseGroupSheet(sheet))
<1> DEFINE rows == sheet.rows
           parsed == ParseGroupSheet(sheet)
<1>1. Len(rows) \in Nat /\ DOMAIN rows = 1..Len(rows)
  BY TableDomain
<1>2. CASE Len(rows) < 3
  <2>1. parsed.works = <<>> /\ parsed.students = 0
    BY <1>2 DEF ParseGroupSheet
  <2>2. IsTable(<<>>)
    BY EmptySelection DEF Selection
  <2> QED BY <2>1, <2>2 DEF ParsedSheet
<1>3. CASE Len(rows) >= 3
  <2>1. parsed.works = ParsedWorks(rows) /\ parsed.students = Cardinality(ParsedStudents(rows))
    BY <1>1, <1>3 DEF ParseGroupSheet
  <2>2. IsTable(ParsedWorks(rows))
    <3> DEFINE titles == rows[HeaderLayout(rows)[2]]
               columns == ColumnsOf(titles, IsData)
    <3>1. IsTable(titles)
      BY <1>3, HeaderInRows
    <3>2. columns \subseteq DOMAIN titles
      BY DEF ColumnsOf
    <3>3. DataCells(titles) \in Nat
      BY <3>1, <3>2, FiniteRows DEF DataCells
    <3>4. ParsedWorks(rows) = [i \in 1..DataCells(titles) |-> ParsedWorks(rows)[i]]
      BY DEF ParsedWorks
    <3> QED BY <3>3, <3>4, TableOf
  <2>3. Cardinality(ParsedStudents(rows)) \in Nat
    <3> DEFINE Numbered == {k \in DOMAIN rows :
                              /\ Len(rows[k]) >= 3
                              /\ rows[k][NumberColumn(rows[k])].kind = "number"
                              /\ Named(rows[k][NumberColumn(rows[k]) + 1])}
               number == [i \in Numbered |-> rows[i][NumberColumn(rows[i])].text]
    <3>1. IsFiniteSet(Numbered)
      BY FiniteRows
    <3>2. ParsedStudents(rows) = {number[i] : i \in Numbered}
      BY DEF ParsedStudents
    <3>3. number \in Surjection(Numbered, ParsedStudents(rows))
      BY <3>2 DEF Surjection
    <3> HIDE DEF number, Numbered
    <3>4. IsFiniteSet(ParsedStudents(rows))
      BY <3>1, <3>3, FS_Surjection
    <3> QED BY <3>4, FS_CardinalityType
  <2> QED BY <2>1, <2>2, <2>3 DEF ParsedSheet
<1> QED BY <1>1, <1>2, <1>3

TitledRows == INSTANCE RowLoop WITH
  Row <- LAMBDA kept, row : IF Titled(row) THEN Append(kept, row) ELSE kept,
  Kept <- LAMBDA tx, rows, n, t : Selection(rows, n, t)

LEMMA CatalogParsed ==
  ASSUME NEW sheet, IsTable(sheet.rows)
  PROVE  IsTable(ParseCatalog(sheet))
<1> DEFINE Rows == {sheet.rows[i] : i \in DOMAIN sheet.rows}
           rest == SubSeq(sheet.rows, 3, Len(sheet.rows))
           body == Those(rest, Titled)
<1>1. Len(rest) \in Nat
  <2>1. Len(sheet.rows) \in Nat /\ DOMAIN sheet.rows = 1..Len(sheet.rows)
    BY TableDomain
  <2>2. sheet.rows = [i \in 1..Len(sheet.rows) |-> sheet.rows[i]]
    BY DEF IsTable
  <2>3. \A i \in 1..Len(sheet.rows) : sheet.rows[i] \in Rows
    BY <2>1
  <2> HIDE DEF Rows
  <2>4. sheet.rows \in Seq(Rows)
    BY <2>1, <2>2, <2>3
  <2>5. rest \in Seq(Rows)
    BY <2>1, <2>4
  <2> QED BY <2>5
<1> HIDE DEF rest
<1>2. IsTable(body)
  <2>1. body = TitledRows!Through(<<>>, rest)
    BY DEF Those, Through, TitledRows!Through
  <2>2. ASSUME NEW n \in 1..Len(rest), NEW t, Selection(rest, n - 1, t)
        PROVE  Selection(rest, n, IF Titled(rest[n]) THEN Append(t, rest[n]) ELSE t)
    <3>1. n \in Nat /\ n # 0
      BY <1>1
    <3>2. Selection(rest, n, Append(t, rest[n])) /\ Selection(rest, n, t)
      BY <2>2, <3>1, MorePicked
    <3> QED BY <3>2
  <2>3. Selection(rest, Len(rest), TitledRows!Through(<<>>, rest))
    BY <1>1, <2>2, EmptySelection, TitledRows!LoopKeeps
  <2> QED BY <2>1, <2>3 DEF Selection
<1>3. Len(body) \in Nat /\ DOMAIN body = 1..Len(body)
  BY <1>2, TableDomain
<1>4. ParseCatalog(sheet) = [i \in 1..Len(body) |-> ParseCatalog(sheet)[i]]
  BY <1>3 DEF ParseCatalog, rest
<1> QED BY <1>3, <1>4, TableOf

WorthReading == INSTANCE RowLoop WITH
  Row <- LAMBDA kept, sheet : IF sheet.works # <<>> \/ sheet.students > 0
                              THEN Append(kept, sheet) ELSE kept,
  Kept <- LAMBDA tx, rows, n, t : Selection(rows, n, t)

LEMMA WorkbookParsed ==
  ASSUME NEW book, IsTable(book.sheets),
         \A i \in DOMAIN book.sheets : book.sheets[i].kind \in {"group", "catalog"}
           => /\ IsTable(book.sheets[i].rows)
              /\ \A k \in DOMAIN book.sheets[i].rows : IsTable(book.sheets[i].rows[k])
  PROVE  ParsedBook(ParseWorkbook(book))
<1> DEFINE groups == Those(book.sheets, LAMBDA sheet : sheet.kind = "group")
           lists == Those(book.sheets, LAMBDA sheet : sheet.kind = "catalog")
           read == [i \in DOMAIN groups |-> ParseGroupSheet(groups[i])]
           kept == Those(read, LAMBDA sheet : sheet.works # <<>> \/ sheet.students > 0)
           parsed == ParseWorkbook(book)
<1>1. /\ parsed.sheets = kept
      /\ parsed.catalog = IF lists = <<>> THEN <<>> ELSE ParseCatalog(Last(lists))
  BY DEF ParseWorkbook
<1>2. PickedKind("group", book.sheets, Len(book.sheets), groups)
  BY GroupSheetsOf
<1>3. PickedKind("catalog", book.sheets, Len(book.sheets), lists)
  BY CatalogSheetsOf
<1> HIDE DEF groups, lists, parsed
<1>4. Len(book.sheets) \in Nat /\ DOMAIN book.sheets = 1..Len(book.sheets)
  BY TableDomain
<1>5. IsTable(groups) /\ \A i \in DOMAIN groups : ParsedSheet(read[i])
  <2>1. SUFFICES ASSUME NEW i \in DOMAIN groups PROVE ParsedSheet(read[i])
    BY <1>2 DEF PickedKind, Selection
  <2>2. PICK k \in DOMAIN book.sheets : groups[i] = book.sheets[k]
    BY <1>2, <1>4 DEF PickedKind, Selection
  <2>3. groups[i].kind = "group"
    BY <1>2 DEF PickedKind
  <2> QED BY <2>2, <2>3, GroupSheetParsed
<1>6. IsTable(kept) /\ \A i \in DOMAIN kept : ParsedSheet(kept[i])
  <2>1. IsTable(read) /\ DOMAIN read = DOMAIN groups
    BY <1>5, SameLength
  <2> HIDE DEF read
  <2>2. kept = WorthReading!Through(<<>>, read)
    BY DEF Those, Through, WorthReading!Through
  <2>3. Len(read) \in Nat /\ DOMAIN read = 1..Len(read)
    BY <2>1, TableDomain
  <2> HIDE DEF kept
  <2>4. ASSUME NEW n \in 1..Len(read), NEW t, Selection(read, n - 1, t)
        PROVE  Selection(read, n, IF read[n].works # <<>> \/ read[n].students > 0
                                  THEN Append(t, read[n]) ELSE t)
    <3>1. n \in Nat /\ n # 0
      BY <2>3
    <3>2. Selection(read, n, Append(t, read[n])) /\ Selection(read, n, t)
      BY <2>4, <3>1, MorePicked
    <3> QED BY <3>2
  <2>5. Selection(read, Len(read), kept)
    BY <2>2, <2>3, <2>4, EmptySelection, WorthReading!LoopKeeps
  <2>6. IsTable(kept) /\ \A i \in DOMAIN kept : \E k \in DOMAIN groups : kept[i] = read[k]
    BY <2>1, <2>3, <2>5 DEF Selection
  <2> QED BY <1>5, <2>6
<1>7. IsTable(IF lists = <<>> THEN <<>> ELSE ParseCatalog(Last(lists)))
  <2>1. CASE lists = <<>>
    BY <2>1, EmptySelection DEF Selection
  <2>2. CASE lists # <<>>
    <3>1. Len(lists) \in Nat /\ DOMAIN lists = 1..Len(lists)
      BY <1>3, TableDomain DEF PickedKind, Selection
    <3>2. Len(lists) # 0
      BY <1>3, <2>2, <3>1 DEF PickedKind, Selection, IsTable
    <3>3. Len(lists) \in DOMAIN lists
      BY <3>1, <3>2
    <3>4. PICK k \in DOMAIN book.sheets : lists[Len(lists)] = book.sheets[k]
      BY <1>3, <1>4, <3>3 DEF PickedKind, Selection
    <3>5. lists[Len(lists)].kind = "catalog"
      BY <1>3, <3>3 DEF PickedKind
    <3>6. IsTable(ParseCatalog(lists[Len(lists)]))
      BY <3>4, <3>5, CatalogParsed
    <3> QED BY <2>2, <3>6 DEF Last
  <2> QED BY <2>1, <2>2
<1> HIDE DEF read, kept
<1>8. IsTable(parsed.catalog) /\ parsed.sheets = kept
  BY <1>1, <1>7
<1> QED BY <1>6, <1>8 DEF ParsedBook, parsed

-------------------------------------------------------------------------------
(* The command import_lr_accounting_xlsx                                     *)

(* The accounts picked from the first n rows, still one per address.         *)
PickedAccounts(table, n, picked) == Selection(table, n, picked) /\ AccountsOK(picked)

Staff == INSTANCE RowLoop WITH
  Row <- LAMBDA kept, a : IF a.role # "STUDENT" THEN Append(kept, a) ELSE kept,
  Kept <- LAMBDA tx, rows, n, t : PickedAccounts(rows, n, t)

LEMMA AccountPicked ==
  ASSUME NEW table, AccountsOK(table), NEW n \in 1..Len(table),
         NEW picked, PickedAccounts(table, n - 1, picked)
  PROVE  /\ PickedAccounts(table, n, picked)
         /\ PickedAccounts(table, n, Append(picked, table[n]))
<1>1. IsTable(table) /\ DOMAIN table = 1..Len(table) /\ Len(table) \in Nat
  BY AccountRows, TableDomain
<1>2. n \in Nat /\ n # 0
  BY <1>1
<1>3. PICK longer : longer = Append(picked, table[n])
  OBVIOUS
<1>4. /\ Selection(table, n, picked) /\ Selection(table, n, longer)
      /\ \A i \in DOMAIN longer : \/ i \in DOMAIN picked /\ longer[i] = picked[i]
                                  \/ i \notin DOMAIN picked /\ longer[i] = table[n]
  BY <1>2, <1>3, MorePicked DEF PickedAccounts
<1>5. IsTable(picked) /\ IsTable(longer)
  BY <1>4 DEF Selection
<1>6. AccountsOK(picked)
  BY DEF PickedAccounts
<1>7. \A i \in DOMAIN picked : picked[i].email # table[n].email
  <2>1. SUFFICES ASSUME NEW i \in DOMAIN picked PROVE picked[i].email # table[n].email
    OBVIOUS
  <2>2. PICK k \in 1..n - 1 : picked[i] = table[k]
    BY DEF PickedAccounts, Selection
  <2>3. k \in DOMAIN table /\ n \in DOMAIN table /\ k # n
    BY <1>1
  <2> QED BY <2>2, <2>3, AccountRows
<1>8. \A i \in DOMAIN longer : AccountShape(longer[i])
  BY <1>1, <1>4, <1>6, AccountRows
<1>9. \A i, k \in DOMAIN longer : longer[i].email = longer[k].email => i = k
  <2>1. ASSUME NEW i \in DOMAIN longer, NEW k \in DOMAIN longer,
               i \notin DOMAIN picked, k \notin DOMAIN picked
        PROVE  i = k
    <3>1. Len(picked) \in Nat /\ DOMAIN picked = 1..Len(picked)
      BY <1>5, TableDomain
    <3>2. PICK row : row = table[n]
      OBVIOUS
    <3>3. PICK end : end = Len(picked) + 1
      OBVIOUS
    <3>4. longer = Put(picked, end, row)
      BY <1>3, <3>1, <3>2, <3>3 DEF Put
    <3>5. end \in 1..Len(picked) + 1
      BY <3>1, <3>3
    <3>6. Wrote(picked, end, row, longer)
      BY <1>5, <3>4, <3>5, PutRow
    <3> QED BY <2>1, <3>6 DEF Wrote
  <2> QED BY <1>4, <1>6, <1>7, <2>1, AccountRows
<1>10. AccountsOK(longer)
  BY <1>5, <1>8, <1>9 DEF AccountsOK, Table, AccountShape
<1> QED BY <1>3, <1>4, <1>6, <1>10 DEF PickedAccounts

LEMMA EmptyTables ==
  AccountsOK(<<>>) /\ IsTable(<<>>) /\ DOMAIN <<>> = {}
BY EmptySelection DEF Selection, AccountsOK, Table

LEMMA StudentsCleared ==
  ASSUME NEW table, AccountsOK(table)
  PROVE  AccountsOK(ClearStudents(table))
<1>1. ClearStudents(table) = Staff!Through(<<>>, table)
  BY DEF ClearStudents, Those, Through, Staff!Through
<1>2. Len(table) \in Nat /\ PickedAccounts(table, 0, <<>>)
  BY AccountRows, TableDomain, EmptySelection, EmptyTables DEF PickedAccounts
<1>3. ASSUME NEW n \in 1..Len(table), NEW t, PickedAccounts(table, n - 1, t)
      PROVE  PickedAccounts(table, n, IF table[n].role # "STUDENT" THEN Append(t, table[n]) ELSE t)
  BY <1>3, AccountPicked
<1>4. PickedAccounts(table, Len(table), Staff!Through(<<>>, table))
  BY <1>2, <1>3, Staff!LoopKeeps
<1> QED BY <1>1, <1>4 DEF PickedAccounts

LEMMA ClearedSound ==
  ASSUME NEW cat, SoundCatalogue(cat)
  PROVE  SoundCatalogue(ClearExistingData(cat))
<1> DEFINE new == ClearExistingData(cat)
<1>1. /\ CatalogueShape(new) /\ new.departments = cat.departments
      /\ new.disciplines = <<>> /\ new.works = <<>> /\ new.groups = <<>>
      /\ new.rooms = cat.rooms
  BY SoundColumns DEF CatalogueShape, HasColumns, ClearExistingData
<1> HIDE DEF new
<1>2. WorksUnique(new.works) /\ PlansBookable(new)
  BY <1>1, EmptyTables DEF WorksUnique, PlansBookable
<1>a. HasColumns(new.groups, DOMAIN new.groups) /\ DisciplinesOK(new.disciplines)
  BY <1>1, EmptyTables, DisciplineRows DEF HasColumns
<1>3. CatalogueOK(new)
  BY <1>a, <1>1, EmptyTables, SoundColumns DEF CatalogueOK, CatalogueShape, Table, SoundDepartments
<1>4. SoundDepartments(new.departments)
  BY <1>1, SoundColumns
<1> QED BY <1>2, <1>3, <1>4 DEF SoundCatalogue, new

LEMMA RoomsEnsured ==
  ASSUME NEW cat, SoundCatalogue(cat)
  PROVE  SoundCatalogue(EnsureRooms(cat))
<1> DEFINE new == EnsureRooms(cat)
<1>1. /\ CatalogueShape(new) /\ new.departments = cat.departments /\ new.works = cat.works
      /\ new.disciplines = cat.disciplines /\ new.groups = cat.groups
  BY SoundColumns DEF CatalogueShape, HasColumns, EnsureRooms
<1>a. RoomsOK(new.rooms)
  <2>1. new.rooms = [r \in DOMAIN cat.rooms \cup DOMAIN RoomCapacity |->
                       [capacity |-> IF r \in DOMAIN RoomCapacity THEN RoomCapacity[r]
                                     ELSE cat.rooms[r].capacity,
                        laboratory |-> IF r \in DOMAIN cat.rooms THEN cat.rooms[r].laboratory
                                       ELSE None]]
    BY SoundColumns DEF CatalogueShape, HasColumns, EnsureRooms
  <2> QED BY <2>1 DEF RoomsOK, HasColumns
<1> HIDE DEF new
<1>2. SoundCatalogue(new)
  BY <1>1, <1>a, SoundColumns, OtherColumns
<1> QED BY <1>2 DEF new

LEMMA SemesterEnsured ==
  ASSUME NEW cat, SoundCatalogue(cat), NEW name
  PROVE  SoundCatalogue(EnsureSemester(cat, name))
<1> DEFINE new == EnsureSemester(cat, name)
<1>1. /\ CatalogueShape(new) /\ new.departments = cat.departments /\ new.works = cat.works
      /\ new.disciplines = cat.disciplines /\ new.groups = cat.groups /\ new.rooms = cat.rooms
  BY SoundColumns DEF CatalogueShape, HasColumns, EnsureSemester
<1> HIDE DEF new
<1>2. SoundCatalogue(new)
  BY <1>1, SoundColumns, OtherColumns
<1> QED BY <1>2 DEF new

(* What a transaction leaves when it commits.                                *)
SoundTx(tx) == tx.ok \in BOOLEAN /\ SoundCatalogue(tx.cat) /\ AccountsOK(tx.accounts)

LEMMA JournalsSound ==
  ASSUME NEW cat, SoundCatalogue(cat), NEW table, AccountsOK(table), NEW source \in Journals
  PROVE  SoundTx(ImportJournals(cat, table, source))
<1> DEFINE base == IF source.clear THEN ClearExistingData(cat) ELSE cat
           people == IF source.clear THEN ClearStudents(table) ELSE table
           ensured == EnsureSemester(EnsureRooms(base), source.semester)
           tx == [ok |-> Readable(source.books), cat |-> ensured, accounts |-> people,
                  semester |-> source.semester, counters |-> NewYearCounters,
                  done |-> {}, d |-> 0, w |-> 0, room |-> None, group |-> None]
           books == ParseBooks(source.books)
<1>1. SoundCatalogue(base) /\ AccountsOK(people)
  BY ClearedSound, StudentsCleared
<1>2. ImportJournals(cat, table, source) = ForEach(Workbook, tx, books)
  BY DEF ImportJournals
<1> HIDE DEF base, people
<1>3. SoundCatalogue(ensured)
  BY <1>1, RoomsEnsured, SemesterEnsured
<1> HIDE DEF ensured
<1>4. JournalShape(tx) /\ tx.ok = Readable(source.books) /\ tx.cat = ensured
      /\ tx.accounts = people
  BY DEF JournalShape, HasColumns
<1> HIDE DEF tx
<1>5. JournalOK(tx)
  BY <1>1, <1>3, <1>4 DEF JournalOK, Readable
<1>6. IsTable(books) /\ \A i \in DOMAIN books : ParsedBook(books[i])
  <2>1. IsTable(source.books) /\ \A i \in DOMAIN source.books :
          /\ IsTable(source.books[i].sheets)
          /\ \A k \in DOMAIN source.books[i].sheets :
               source.books[i].sheets[k].kind \in {"group", "catalog"}
                 => /\ IsTable(source.books[i].sheets[k].rows)
                    /\ \A r \in DOMAIN source.books[i].sheets[k].rows :
                         IsTable(source.books[i].sheets[k].rows[r])
    BY FilesAssumption DEF Table
  <2>2. IsTable(books) /\ DOMAIN books = DOMAIN source.books
    BY <2>1, SameLength DEF ParseBooks
  <2>3. \A i \in DOMAIN source.books : books[i] = ParseWorkbook(source.books[i])
    BY DEF ParseBooks
  <2> QED BY <2>1, <2>2, <2>3, WorkbookParsed
<1> HIDE DEF books
<1>7. JournalOK(ForEach(Workbook, tx, books))
  BY <1>5, <1>6, BooksKeep
<1> QED BY <1>2, <1>7 DEF JournalOK, SoundTx

-------------------------------------------------------------------------------
(* The command import_studlab_org                                            *)

OrgShape(t) == HasColumns(t, {"ok", "cat", "accounts"})
OrgOK(t) == OrgShape(t) /\ SoundTx(t)

LEMMA NewCatalogueKeeps ==
  ASSUME NEW t, OrgOK(t), NEW cat, SoundCatalogue(cat)
  PROVE  OrgOK([t EXCEPT !.cat = cat])
<1>1. PICK new : new = [t EXCEPT !.cat = cat]
  OBVIOUS
<1>2. OrgShape(new) /\ new.ok = t.ok /\ new.cat = cat /\ new.accounts = t.accounts
  BY <1>1 DEF OrgOK, OrgShape, HasColumns
<1> QED BY <1>1, <1>2 DEF OrgOK, SoundTx

LEMMA DepartmentsChanged ==
  ASSUME NEW cat, SoundCatalogue(cat), NEW table, SoundDepartments(table)
  PROVE  SoundCatalogue([cat EXCEPT !.departments = table])
<1>1. PICK new : new = [cat EXCEPT !.departments = table]
  OBVIOUS
<1>2. /\ CatalogueShape(new) /\ new.departments = table /\ new.works = cat.works
      /\ new.disciplines = cat.disciplines /\ new.groups = cat.groups /\ new.rooms = cat.rooms
  BY <1>1, SoundColumns DEF CatalogueShape, HasColumns
<1> QED BY <1>1, <1>2, SoundColumns, OtherColumns

DepartmentShape(d) == HasColumns(d, {"code", "title"})

LEMMA DepartmentRows ==
  ASSUME NEW table, DepartmentsOK(table)
  PROVE  /\ IsTable(table) /\ \A i \in DOMAIN table : DepartmentShape(table[i])
         /\ \A i, k \in DOMAIN table : table[i].title = table[k].title => i = k
BY DEF DepartmentsOK, DepartmentShape, Table

LEMMA UpsertDepartmentKeeps ==
  ASSUME NEW t, OrgOK(t), NEW row, DepartmentShape(row), row \in FiledDepartments
  PROVE  OrgOK(UpsertDepartment(t, row))
<1> DEFINE table == t.cat.departments
           byCode == Where(table, LAMBDA d : d.code = row.code)
           byTitle == Where(table, LAMBDA d : d.title = row.title)
<1>1. /\ DepartmentsOK(table) /\ IsTable(table) /\ SoundCatalogue(t.cat)
      /\ SoundDepartments(table)
  BY SoundColumns, DepartmentRows DEF OrgOK, SoundTx, SoundDepartments
<1>2. Len(table) \in Nat /\ DOMAIN table = 1..Len(table)
  BY <1>1, TableDomain
<1>3. byTitle = {i \in DOMAIN table : table[i].title = row.title}
  BY DEF Where
<1>a. \A i, k \in DOMAIN table : table[i].title = table[k].title => i = k
  BY <1>1, DepartmentRows
<1>b. \A i \in DOMAIN table : DepartmentShape(table[i])
  BY <1>1, DepartmentRows
<1> HIDE DEF byTitle
<1>4. CASE byCode # {}
  BY <1>4 DEF UpsertDepartment, byTitle
<1>5. CASE byCode = {} /\ byTitle # {}
  <2> DEFINE i == Min(byTitle)
             d == [table[i] EXCEPT !.code = row.code]
             new == [table EXCEPT ![i] = d]
  <2>1. UpsertDepartment(t, row) = [t EXCEPT !.cat = [t.cat EXCEPT !.departments = new]]
    BY <1>5 DEF UpsertDepartment, byTitle
  <2>2. i \in DOMAIN table
    <3>1. byTitle \subseteq Nat /\ byTitle \subseteq DOMAIN table
      BY <1>2, <1>3
    <3> QED BY <1>5, <3>1, LeastOf
  <2> HIDE DEF i
  <2>3. DepartmentShape(d) /\ d.title = table[i].title /\ d.code = row.code
    BY <1>1, <2>2, DepartmentRows DEF DepartmentShape, HasColumns
  <2>a. d.title = row.title
    <3>1. byTitle \subseteq Nat
      BY <1>2, <1>3
    <3>2. Min(byTitle) \in byTitle
      BY <1>5, <3>1, LeastOf
    <3> QED BY <1>3, <2>3, <3>2 DEF i
  <2> HIDE DEF d
  <2>4. /\ new = [k \in DOMAIN table |-> new[k]] /\ DOMAIN new = DOMAIN table
        /\ \A k \in DOMAIN table : new[k] = IF k = i THEN d ELSE table[k]
    OBVIOUS
  <2> HIDE DEF new
  <2>5. IsTable(new)
    BY <1>1, <2>4, SameLength
  <2>6. \A k \in DOMAIN table : DepartmentShape(new[k]) /\ new[k].title = table[k].title
    BY <1>1, <2>3, <2>4, DepartmentRows
  <2>7. \A k, l \in DOMAIN new : new[k].title = new[l].title => k = l
    BY <1>a, <2>4, <2>6
  <2>8. DepartmentsOK(new)
    BY <2>4, <2>5, <2>6, <2>7 DEF DepartmentsOK, DepartmentShape, Table
  <2>9. SoundDepartments(new)
    BY <1>1, <2>3, <2>a, <2>4, <2>8 DEF SoundDepartments, CodesAgree
  <2> QED BY <1>1, <2>1, <2>9, DepartmentsChanged, NewCatalogueKeeps
<1>6. CASE byCode = {} /\ byTitle = {}
  <2>1. PICK end : end = Len(table) + 1
    OBVIOUS
  <2>2. PICK new : new = Put(table, end, row)
    OBVIOUS
  <2>3. new = Append(table, row) /\ end \in 1..Len(table) + 1
    BY <1>2, <2>1, <2>2 DEF Put
  <2>4. Wrote(table, end, row, new)
    BY <1>1, <2>2, <2>3, PutRow
  <2>5. UpsertDepartment(t, row) = [t EXCEPT !.cat = [t.cat EXCEPT !.departments = new]]
    BY <1>6, <2>3 DEF UpsertDepartment, byTitle
  <2>6. /\ \A i \in DOMAIN new : DepartmentShape(new[i])
        /\ \A i, k \in DOMAIN new : new[i].title = new[k].title => i = k
    BY <1>3, <1>6, <1>a, <1>b, <2>4 DEF Wrote
  <2>7. DepartmentsOK(new)
    BY <2>4, <2>6 DEF DepartmentsOK, DepartmentShape, Table, Wrote
  <2>8. SoundDepartments(new)
    BY <1>1, <2>4, <2>7 DEF SoundDepartments, CodesAgree, Wrote
  <2> QED BY <1>1, <2>5, <2>8, DepartmentsChanged, NewCatalogueKeeps
<1> QED BY <1>4, <1>5, <1>6

LEMMA OrgLaboratoryKeeps ==
  ASSUME NEW t, OrgOK(t), NEW row,
         row.code # None => [code |-> row.code, title |-> row.title] \in FiledDepartments
  PROVE  OrgOK(OrgLaboratory(t, row))
<1>1. PICK cat : cat = [t.cat EXCEPT !.laboratories = @ \cup {row.laboratory}]
  OBVIOUS
<1>2. SoundCatalogue(t.cat)
  BY DEF OrgOK, SoundTx
<1>3. /\ CatalogueShape(cat) /\ cat.departments = t.cat.departments
      /\ cat.works = t.cat.works /\ cat.disciplines = t.cat.disciplines
      /\ cat.groups = t.cat.groups /\ cat.rooms = t.cat.rooms
  BY <1>1, <1>2, SoundColumns DEF CatalogueShape, HasColumns
<1>4. SoundCatalogue(cat)
  BY <1>2, <1>3, SoundColumns, OtherColumns
<1>5. PICK s : s = [t EXCEPT !.cat = cat]
  OBVIOUS
<1>6. OrgOK(s)
  BY <1>4, <1>5, NewCatalogueKeeps
<1>7. PICK d : d = [code |-> row.code, title |-> row.title]
  OBVIOUS
<1>8. DepartmentShape(d) /\ (row.code # None => d \in FiledDepartments)
  BY <1>7 DEF DepartmentShape, HasColumns
<1>9. OrgLaboratory(t, row) = IF row.code = None THEN s ELSE UpsertDepartment(s, d)
  BY <1>1, <1>5, <1>7 DEF OrgLaboratory
<1> QED BY <1>6, <1>8, <1>9, UpsertDepartmentKeeps

LEMMA OrgRoomKeeps ==
  ASSUME NEW t, OrgOK(t), NEW row
  PROVE  OrgOK(OrgRoom(t, row))
<1> DEFINE old == IF row.room \in DOMAIN t.cat.rooms THEN t.cat.rooms[row.room]
                  ELSE [capacity |-> 30, laboratory |-> None]
<1>1. PICK laboratory, rooms :
        /\ rooms = With(t.cat.rooms, row.room, [old EXCEPT !.laboratory = laboratory])
        /\ OrgRoom(t, row) = [t EXCEPT !.cat = [t.cat EXCEPT !.rooms = rooms]]
  BY DEF OrgRoom
<1>2. PICK cat : cat = [t.cat EXCEPT !.rooms = rooms]
  OBVIOUS
<1>3. SoundCatalogue(t.cat)
  BY DEF OrgOK, SoundTx
<1>4. /\ CatalogueShape(cat) /\ cat.departments = t.cat.departments
      /\ cat.works = t.cat.works /\ cat.disciplines = t.cat.disciplines
      /\ cat.groups = t.cat.groups /\ cat.rooms = rooms
  BY <1>2, <1>3, SoundColumns DEF CatalogueShape, HasColumns
<1>a. RoomsOK(rooms)
  <2>1. RoomShape(old)
    <3>1. RoomShape([capacity |-> 30, laboratory |-> None])
      BY DEF RoomShape, HasColumns
    <3> QED BY <1>3, <3>1, SoundColumns, RoomRows
  <2> HIDE DEF old
  <2> QED BY <1>1, <1>3, <2>1, SoundColumns, RoomMoved
<1>5. SoundCatalogue(cat)
  BY <1>3, <1>4, <1>a, SoundColumns, OtherColumns
<1> QED BY <1>1, <1>2, <1>5, NewCatalogueKeeps

LEMMA OrgStaffKeeps ==
  ASSUME NEW t, OrgOK(t), NEW person
  PROVE  OrgOK(OrgStaff(t, person))
<1> DEFINE old == Account(t.accounts, person.email, person.role)
<1>1. PICK laboratory, row, table :
        /\ row = [old EXCEPT !.role = person.role, !.center = person.center,
                             !.laboratory = laboratory]
        /\ table = PutAccount(t.accounts, row) /\ OrgStaff(t, person) = [t EXCEPT !.accounts = table]
  BY DEF OrgStaff
<1>2. AccountShape(old) /\ AccountsOK(t.accounts)
  BY AccountFound DEF OrgOK, SoundTx
<1> HIDE DEF old
<1>3. AccountShape(row)
  BY <1>1, <1>2 DEF AccountShape, HasColumns
<1>4. AccountsOK(table)
  BY <1>1, <1>2, <1>3, PutAccountWrites DEF AccountWritten
<1>5. PICK new : new = [t EXCEPT !.accounts = table]
  OBVIOUS
<1>6. OrgShape(new) /\ new.ok = t.ok /\ new.cat = t.cat /\ new.accounts = table
  BY <1>5 DEF OrgOK, OrgShape, HasColumns
<1> QED BY <1>1, <1>4, <1>5, <1>6 DEF OrgOK, SoundTx

OrgDepartments == INSTANCE RowLoop WITH
  Row <- LAMBDA t, row : IF t.ok THEN UpsertDepartment(t, row) ELSE t,
  Kept <- LAMBDA tx, rows, n, t : OrgOK(t)
OrgLaboratories == INSTANCE RowLoop WITH
  Row <- LAMBDA t, row : IF t.ok THEN OrgLaboratory(t, row) ELSE t,
  Kept <- LAMBDA tx, rows, n, t : OrgOK(t)
OrgRooms == INSTANCE RowLoop WITH
  Row <- LAMBDA t, row : IF t.ok THEN OrgRoom(t, row) ELSE t,
  Kept <- LAMBDA tx, rows, n, t : OrgOK(t)
OrgPeople == INSTANCE RowLoop WITH
  Row <- LAMBDA t, row : IF t.ok THEN OrgStaff(t, row) ELSE t,
  Kept <- LAMBDA tx, rows, n, t : OrgOK(t)

LEMMA OrgSound ==
  ASSUME NEW cat, SoundCatalogue(cat), NEW table, AccountsOK(table), NEW source \in OrgFiles
  PROVE  SoundTx(ImportOrg(cat, table, source))
<1> DEFINE tx == [ok |-> TRUE, cat |-> cat, accounts |-> table]
           departments == ForEach(UpsertDepartment, tx, source.departments)
           laboratories == ForEach(OrgLaboratory, departments, source.laboratories)
           rooms == ForEach(OrgRoom, laboratories, source.rooms)
           staff == ForEach(OrgStaff, rooms, source.staff)
<1>0. /\ IsTable(source.departments) /\ IsTable(source.laboratories)
      /\ IsTable(source.rooms) /\ IsTable(source.staff)
      /\ \A i \in DOMAIN source.departments : DepartmentShape(source.departments[i])
  BY FilesAssumption DEF Table, DepartmentShape
<1>a. /\ \A i \in DOMAIN source.departments : source.departments[i] \in FiledDepartments
      /\ \A i \in DOMAIN source.laboratories :
           source.laboratories[i].code # None
             => [code |-> source.laboratories[i].code, title |-> source.laboratories[i].title]
                  \in FiledDepartments
  BY DEF FiledDepartments, Range
<1>1. ImportOrg(cat, table, source) = staff
  BY DEF ImportOrg
<1>2. OrgOK(tx)
  <2>1. OrgShape(tx) /\ tx.ok = TRUE /\ tx.cat = cat /\ tx.accounts = table
    BY DEF OrgShape, HasColumns
  <2> QED BY <2>1 DEF OrgOK, SoundTx
<1> HIDE DEF tx
<1>3. OrgOK(departments)
  <2>1. departments = OrgDepartments!Through(tx, source.departments)
    BY DEF ForEach, Through, OrgDepartments!Through
  <2>2. /\ Len(source.departments) \in Nat
        /\ \A n \in 1..Len(source.departments) : /\ DepartmentShape(source.departments[n])
                                                  /\ source.departments[n] \in FiledDepartments
    BY <1>0, <1>a, TableDomain
  <2>3. OrgOK(OrgDepartments!Through(tx, source.departments))
    BY <1>2, <2>2, UpsertDepartmentKeeps, OrgDepartments!LoopKeeps
  <2> QED BY <2>1, <2>3
<1> HIDE DEF departments
<1>4. OrgOK(laboratories)
  <2>1. laboratories = OrgLaboratories!Through(departments, source.laboratories)
    BY DEF ForEach, Through, OrgLaboratories!Through
  <2>2. /\ Len(source.laboratories) \in Nat
        /\ \A n \in 1..Len(source.laboratories) :
             source.laboratories[n].code # None
               => [code |-> source.laboratories[n].code, title |-> source.laboratories[n].title]
                    \in FiledDepartments
    BY <1>0, <1>a, TableDomain
  <2>3. OrgOK(OrgLaboratories!Through(departments, source.laboratories))
    BY <1>3, <2>2, OrgLaboratoryKeeps, OrgLaboratories!LoopKeeps
  <2> QED BY <2>1, <2>3
<1> HIDE DEF laboratories
<1>5. OrgOK(rooms)
  <2>1. rooms = OrgRooms!Through(laboratories, source.rooms)
    BY DEF ForEach, Through, OrgRooms!Through
  <2>2. Len(source.rooms) \in Nat
    BY <1>0, TableDomain
  <2>3. OrgOK(OrgRooms!Through(laboratories, source.rooms))
    BY <1>4, <2>2, OrgRoomKeeps, OrgRooms!LoopKeeps
  <2> QED BY <2>1, <2>3
<1> HIDE DEF rooms
<1>6. OrgOK(staff)
  <2>1. staff = OrgPeople!Through(rooms, source.staff)
    BY DEF ForEach, Through, OrgPeople!Through
  <2>2. Len(source.staff) \in Nat
    BY <1>0, TableDomain
  <2>3. OrgOK(OrgPeople!Through(rooms, source.staff))
    BY <1>5, <2>2, OrgStaffKeeps, OrgPeople!LoopKeeps
  <2> QED BY <2>1, <2>3
<1> QED BY <1>1, <1>6 DEF OrgOK

-------------------------------------------------------------------------------
(* The curated drafts                                                        *)

DraftShape(t) ==
  HasColumns(t, {"ok", "cat", "semester", "byCode", "byTitle", "linked", "laboratory",
                 "department"})

(* What the draft's codes and titles stand for are disciplines that exist.   *)
DraftOK(t) ==
  /\ DraftShape(t) /\ t.ok \in BOOLEAN /\ SoundCatalogue(t.cat)
  /\ \A c \in DOMAIN t.byCode : t.byCode[c] \in DOMAIN t.cat.disciplines
  /\ \A c \in DOMAIN t.byTitle : t.byTitle[c] \in DOMAIN t.cat.disciplines

(* A row of disciplines raises, or its title is known from then on.          *)
DisciplineRead(t, row, new) ==
  /\ DraftOK(new)
  /\ new.ok => row.title \in DOMAIN new.byTitle /\ DOMAIN t.byTitle \subseteq DOMAIN new.byTitle

LEMMA DraftDisciplineKeeps ==
  ASSUME NEW t, DraftOK(t), NEW row
  PROVE  DisciplineRead(t, row, DraftDiscipline(t, row))
<1> DEFINE table == t.cat.disciplines
           found == Where(table, LAMBDA d : d.code = row.code)
           i == First(table, found)
           byCode == With(t.byCode, row.code, i)
           byTitle == With(t.byTitle, row.title, i)
<1>1. IsTable(table) /\ found \subseteq DOMAIN table /\ SoundCatalogue(t.cat)
  BY SoundColumns DEF DraftOK, Where
<1>2. PICK d : /\ DisciplineShape(d)
               /\ DraftDiscipline(t, row) =
                   IF Cardinality(found) > 1 THEN Raise(t)
                   ELSE [t EXCEPT !.byCode = byCode, !.byTitle = byTitle,
                                  !.cat = [t.cat EXCEPT !.disciplines = Put(table, i, d)]]
  BY DEF DraftDiscipline, DisciplineShape, HasColumns
<1> HIDE DEF found
<1>3. CASE Cardinality(found) > 1
  <2>1. PICK new : new = Raise(t)
    OBVIOUS
  <2>2. /\ DraftShape(new) /\ new.ok = FALSE /\ new.cat = t.cat
        /\ new.byCode = t.byCode /\ new.byTitle = t.byTitle
    BY <2>1 DEF Raise, DraftOK, DraftShape, HasColumns
  <2>3. DisciplineRead(t, row, new)
    BY <2>2 DEF DisciplineRead, DraftOK
  <2> QED BY <1>2, <1>3, <2>1, <2>3
<1>4. CASE ~(Cardinality(found) > 1)
  <2>1. i \in 1..Len(table) + 1
    BY <1>1, FirstKey
  <2> HIDE DEF i
  <2>2. PICK ds : ds = Put(table, i, d)
    OBVIOUS
  <2>3. IsTable(ds) /\ i \in DOMAIN ds /\ DOMAIN table \subseteq DOMAIN ds
    <3>1. Wrote(table, i, d, ds)
      BY <1>1, <2>1, <2>2, PutRow
    <3> QED BY <3>1 DEF Wrote
  <2>a. LET cat == [t.cat EXCEPT !.disciplines = ds]
        IN SoundCatalogue(cat) /\ cat.disciplines = ds
    <3>1. Wrote(table, i, d, ds)
      BY <1>1, <2>1, <2>2, PutRow
    <3> QED BY <1>1, <1>2, <3>1, DisciplineWritten
  <2>4. PICK cat : /\ cat = [t.cat EXCEPT !.disciplines = ds]
                   /\ SoundCatalogue(cat) /\ cat.disciplines = ds
    BY <2>a
  <2>5. /\ \A c \in DOMAIN byCode : byCode[c] \in DOMAIN ds
        /\ \A c \in DOMAIN byTitle : byTitle[c] \in DOMAIN ds
        /\ row.title \in DOMAIN byTitle /\ DOMAIN t.byTitle \subseteq DOMAIN byTitle
    BY <2>3 DEF DraftOK, With
  <2> HIDE DEF byCode, byTitle
  <2>6. PICK new : new = [t EXCEPT !.byCode = byCode, !.byTitle = byTitle, !.cat = cat]
    OBVIOUS
  <2>7. /\ DraftShape(new) /\ new.ok = t.ok /\ new.cat = cat
        /\ new.byCode = byCode /\ new.byTitle = byTitle
    BY <2>6 DEF DraftOK, DraftShape, HasColumns
  <2>8. DisciplineRead(t, row, new)
    BY <2>4, <2>5, <2>7 DEF DisciplineRead, DraftOK
  <2> QED BY <1>2, <1>4, <2>2, <2>4, <2>6, <2>8
<1> QED BY <1>3, <1>4

(* A lab work of the draft whose discipline is known has its room and is     *)
(* there, with that discipline.                                              *)
Placed(t, room, name, discipline) ==
  discipline \in DOMAIN t.byTitle =>
    /\ room = None \/ room \in DOMAIN t.cat.rooms
    /\ \E w \in DOMAIN t.cat.works :
         /\ t.cat.works[w].room = room /\ t.cat.works[w].title[1] = name
         /\ t.byTitle[discipline] \in t.cat.works[w].disciplines

(* Nothing that was placed is lost.                                          *)
MorePlaced(t, new) ==
  /\ DraftOK(new) /\ new.ok = t.ok /\ new.byTitle = t.byTitle
  /\ \A room, name, discipline :
       Placed(t, room, name, discipline) => Placed(new, room, name, discipline)

LEMMA DraftRoomAdds ==
  ASSUME NEW cat, SoundCatalogue(cat), NEW laboratory, NEW row
  PROVE  LET new == DraftRoom(cat, laboratory, row)
         IN /\ SoundCatalogue(new) /\ new.works = cat.works /\ new.groups = cat.groups
            /\ new.disciplines = cat.disciplines
            /\ DOMAIN cat.rooms \subseteq DOMAIN new.rooms
            /\ row.room = None \/ row.room \in DOMAIN new.rooms
<1>1. CASE row.room = None
  BY <1>1 DEF DraftRoom
<1>2. CASE row.room # None
  <2> DEFINE old == IF row.room \in DOMAIN cat.rooms THEN cat.rooms[row.room]
                    ELSE [capacity |-> IF row.capacity = 0 THEN 30 ELSE row.capacity,
                          laboratory |-> None]
  <2>1. PICK given : DraftRoom(cat, laboratory, row) =
                       [cat EXCEPT !.rooms = With(cat.rooms, row.room,
                                                  [old EXCEPT !.laboratory = given])]
    BY <1>2 DEF DraftRoom
  <2>2. PICK rooms : rooms = With(cat.rooms, row.room, [old EXCEPT !.laboratory = given])
    OBVIOUS
  <2>a. RoomsOK(rooms)
    <3>1. RoomShape(old)
      <4>1. \A seats : RoomShape([capacity |-> seats, laboratory |-> None])
        BY DEF RoomShape, HasColumns
      <4> QED BY <4>1, SoundColumns, RoomRows
    <3> HIDE DEF old
    <3> QED BY <2>2, <3>1, SoundColumns, RoomMoved
  <2> HIDE DEF old
  <2>3. DOMAIN rooms = DOMAIN cat.rooms \cup {row.room}
    BY <2>2 DEF With
  <2>4. PICK new : new = [cat EXCEPT !.rooms = rooms]
    OBVIOUS
  <2>5. /\ CatalogueShape(new) /\ new.rooms = rooms /\ new.works = cat.works
        /\ new.disciplines = cat.disciplines /\ new.groups = cat.groups
        /\ new.departments = cat.departments
    BY <2>4, SoundColumns DEF CatalogueShape, HasColumns
  <2>6. SoundCatalogue(new)
    BY <2>5, <2>a, SoundColumns, OtherColumns
  <2> QED BY <2>1, <2>2, <2>3, <2>4, <2>5, <2>6
<1> QED BY <1>1, <1>2

LEMMA DraftWorkKeeps ==
  ASSUME NEW t, DraftOK(t), NEW row, row.capacity \in Nat
  PROVE  LET new == DraftWork(t, row)
         IN MorePlaced(t, new) /\ Placed(new, row.room, row.title[1], row.discipline)
<1>1. CASE row.discipline \notin DOMAIN t.byTitle
  <2>1. DraftWork(t, row) = t
    BY <1>1 DEF DraftWork
  <2>2. MorePlaced(t, t) /\ Placed(t, row.room, row.title[1], row.discipline)
    BY <1>1 DEF MorePlaced, Placed
  <2> QED BY <2>1, <2>2
<1>2. CASE row.discipline \in DOMAIN t.byTitle
  <2> DEFINE cat == DraftRoom(t.cat, t.laboratory, row)
             minutes == NormalizeDuration(row.minutes, 90)
  <2>2. /\ SoundCatalogue(cat) /\ cat.works = t.cat.works /\ cat.groups = t.cat.groups
        /\ cat.disciplines = t.cat.disciplines
        /\ DOMAIN t.cat.rooms \subseteq DOMAIN cat.rooms
        /\ row.room = None \/ row.room \in DOMAIN cat.rooms
    BY DraftRoomAdds DEF DraftOK
  <2> DEFINE works == cat.works
             found == Matching(cat, row.title, row.room)
             i == First(works, found)
             d == t.byTitle[row.discipline]
             seats == IF row.capacity = 0 THEN 30 ELSE row.capacity
             old == IF found # {} THEN works[i]
                    ELSE [title |-> row.title, disciplines |-> {}, centers |-> {},
                          laboratories |-> {}, stand |-> None]
  <2>4. PICK w, centers, laboratories :
          /\ w = [title |-> old.title, room |-> row.room, stand |-> old.stand,
                  disciplines |-> old.disciplines \cup {d}, capacity |-> seats,
                  minutes |-> minutes, centers |-> centers, laboratories |-> laboratories]
          /\ DraftWork(t, row) = [t EXCEPT !.cat = [cat EXCEPT !.works = Put(works, i, w)]]
    BY <1>2 DEF DraftWork
  <2> HIDE DEF cat
  <2>5. /\ IsTable(works) /\ found \subseteq DOMAIN works
        /\ \A k \in found : works[k].title[1] = row.title[1]
    BY <2>2, SoundColumns, MatchingRows
  <2> HIDE DEF found
  <2>6. /\ i \in 1..Len(works) + 1 /\ (found # {} => i \in found)
        /\ (found = {} => i \notin DOMAIN works)
    BY <2>5, FirstKey
  <2> HIDE DEF i
  <2>7. /\ old.disciplines \subseteq DOMAIN cat.disciplines
        /\ old.title[1] = row.title[1]
        /\ i \in DOMAIN works => works[i].disciplines \subseteq old.disciplines
    <3>1. CASE found = {}
      BY <2>6, <3>1
    <3>2. CASE found # {}
      <4>1. old = works[i] /\ i \in DOMAIN works /\ works[i].title[1] = row.title[1]
        BY <2>5, <2>6, <3>2
      <4>2. WorkOK(works[i], DOMAIN cat.disciplines)
        BY <2>2, <4>1, SoundColumns
      <4> QED BY <4>1, <4>2 DEF WorkOK
    <3> QED BY <3>1, <3>2
  <2> HIDE DEF old
  <2>8. d \in DOMAIN cat.disciplines
    BY <1>2, <2>2 DEF DraftOK
  <2>9. minutes \in AllowedLabDurations /\ seats \in Nat \ {0}
    BY DurationAllowed DEF AllowedLabDurations
  <2> HIDE DEF seats, minutes
  <2>10. /\ WorkShape(w) /\ w.title = old.title /\ w.room = row.room /\ w.minutes = minutes
         /\ w.disciplines = old.disciplines \cup {d} /\ w.capacity = seats
    BY <2>4 DEF WorkShape, HasColumns
  <2>11. WorkOK(w, DOMAIN cat.disciplines)
    BY <2>7, <2>8, <2>9, <2>10 DEF WorkOK, WorkShape
  <2>12. \A k \in DOMAIN works \ {i} :
           ~(works[k].room = w.room /\ works[k].title[1] = w.title[1])
    <3>1. \A k \in DOMAIN works \ {i} :
            ~(works[k].room = row.room /\ works[k].title[1] = row.title[1])
      <4>1. \/ i \in Matching(cat, row.title, row.room)
            \/ Matching(cat, row.title, row.room) = {}
        BY <2>6 DEF found
      <4> QED BY <2>2, <4>1, NobodyElse
    <3> QED BY <2>7, <2>10, <3>1
  <2>13. PICK placed : placed = [cat EXCEPT !.works = Put(works, i, w)]
    OBVIOUS
  <2>14. WorkChanged(cat, i, w, placed)
    <3>1. i \in DOMAIN works => works[i].disciplines \subseteq w.disciplines
      BY <2>7, <2>10
    <3> QED BY <2>2, <2>6, <2>11, <2>12, <2>13, <3>1, WorkWritten
  <2>15. PICK new : new = [t EXCEPT !.cat = placed]
    OBVIOUS
  <2>16. /\ DraftShape(new) /\ new.ok = t.ok /\ new.cat = placed
         /\ new.byCode = t.byCode /\ new.byTitle = t.byTitle
    BY <2>15 DEF DraftOK, DraftShape, HasColumns
  <2>17. DraftOK(new)
    BY <2>2, <2>14, <2>16 DEF DraftOK, WorkChanged
  <2>18. Placed(new, row.room, row.title[1], row.discipline)
    <3>1. /\ i \in DOMAIN placed.works /\ placed.works[i].room = row.room
          /\ placed.works[i].title[1] = row.title[1] /\ d \in placed.works[i].disciplines
      BY <2>7, <2>10, <2>14 DEF WorkChanged
    <3>2. row.room = None \/ row.room \in DOMAIN placed.rooms
      BY <2>2, <2>14 DEF WorkChanged
    <3> QED BY <2>16, <3>1, <3>2 DEF Placed
  <2>19. ASSUME NEW room, NEW name, NEW discipline, Placed(t, room, name, discipline)
         PROVE  Placed(new, room, name, discipline)
    <3>1. SUFFICES ASSUME discipline \in DOMAIN t.byTitle
                   PROVE  /\ room = None \/ room \in DOMAIN placed.rooms
                          /\ \E k \in DOMAIN placed.works :
                               /\ placed.works[k].room = room /\ placed.works[k].title[1] = name
                               /\ t.byTitle[discipline] \in placed.works[k].disciplines
      BY <2>16 DEF Placed
    <3>2. room = None \/ room \in DOMAIN placed.rooms
      BY <2>2, <2>14, <2>19, <3>1 DEF Placed, WorkChanged
    <3>3. PICK k \in DOMAIN works : /\ works[k].room = room /\ works[k].title[1] = name
                                    /\ t.byTitle[discipline] \in works[k].disciplines
      BY <2>2, <2>19, <3>1 DEF Placed
    <3>4. CASE k # i
      <4>1. k \in DOMAIN placed.works /\ placed.works[k] = works[k]
        BY <2>14, <3>4 DEF WorkChanged
      <4> QED BY <3>2, <3>3, <4>1
    <3>5. CASE k = i
      <4>1. i \in found /\ works[i].room = row.room /\ works[i].title[1] = row.title[1]
        BY <2>6, <3>3, <3>5, MatchingRows DEF found
      <4>2. /\ i \in DOMAIN placed.works /\ placed.works[i].room = room
            /\ placed.works[i].title[1] = name
        BY <2>7, <2>10, <2>14, <3>3, <3>5, <4>1 DEF WorkChanged
      <4>3. works[i].disciplines \subseteq placed.works[i].disciplines
        BY <2>7, <2>10, <2>14, <3>5 DEF WorkChanged
      <4> QED BY <3>2, <3>3, <3>5, <4>2, <4>3
    <3> QED BY <3>4, <3>5
  <2>20. MorePlaced(t, new)
    BY <2>16, <2>17, <2>19 DEF MorePlaced
  <2> QED BY <2>4, <2>13, <2>15, <2>18, <2>20
<1> QED BY <1>1, <1>2

(* A step that leaves the lab works, rooms and disciplines alone.            *)
LEMMA OnlyPlans ==
  ASSUME NEW t, DraftOK(t), NEW cat, SoundCatalogue(cat), cat.works = t.cat.works,
         cat.rooms = t.cat.rooms, cat.disciplines = t.cat.disciplines
  PROVE  MorePlaced(t, [t EXCEPT !.cat = cat])
<1>1. PICK new : new = [t EXCEPT !.cat = cat]
  OBVIOUS
<1>2. /\ DraftShape(new) /\ new.ok = t.ok /\ new.cat = cat
      /\ new.byCode = t.byCode /\ new.byTitle = t.byTitle
  BY <1>1 DEF DraftOK, DraftShape, HasColumns
<1>3. DraftOK(new)
  BY <1>2 DEF DraftOK
<1>4. \A room, name, discipline :
        Placed(t, room, name, discipline) => Placed(new, room, name, discipline)
  BY <1>2 DEF Placed
<1> QED BY <1>1, <1>2, <1>3, <1>4 DEF MorePlaced

(* A link is noted as well, which nothing else reads.                        *)
LinkSaved(t, cat, links, new) == new = [t EXCEPT !.linked = links, !.cat = cat]

LEMMA LinkKeeps ==
  ASSUME NEW t, DraftOK(t), NEW cat, SoundCatalogue(cat), cat.works = t.cat.works,
         cat.rooms = t.cat.rooms, cat.disciplines = t.cat.disciplines,
         NEW links, NEW new, LinkSaved(t, cat, links, new)
  PROVE  MorePlaced(t, new)
<1>1. /\ DraftShape(new) /\ new.ok = t.ok /\ new.cat = cat
      /\ new.byCode = t.byCode /\ new.byTitle = t.byTitle
  BY DEF LinkSaved, DraftOK, DraftShape, HasColumns
<1>2. DraftOK(new)
  BY <1>1 DEF DraftOK
<1>3. \A room, name, discipline :
        Placed(t, room, name, discipline) => Placed(new, room, name, discipline)
  BY <1>1 DEF Placed
<1> QED BY <1>1, <1>2, <1>3 DEF MorePlaced

LEMMA DraftGroupKeeps ==
  ASSUME NEW t, DraftOK(t), NEW g
  PROVE  MorePlaced(t, DraftGroup(t, g))
<1> DEFINE old == GroupRow(t.cat, g)
           row == [old EXCEPT !.department = IF @ = None THEN t.department ELSE @]
<1>1. SoundCatalogue(t.cat)
  BY DEF DraftOK
<1>2. /\ GroupOK(old, DOMAIN t.cat.disciplines, DOMAIN t.cat.works)
      /\ \A w \in old.works : t.cat.works[w].disciplines \cap old.disciplines # {}
  BY <1>1, GroupRowSound
<1>b. PICK c : c = t.cat
  OBVIOUS
<1>c. PICK cat : GroupSaved(c, g, row, cat)
  BY DEF GroupSaved
<1>3. DraftGroup(t, g) = [t EXCEPT !.cat = cat]
  BY <1>b, <1>c DEF DraftGroup, GroupSaved
<1> HIDE DEF old
<1>4. /\ GroupOK(row, DOMAIN t.cat.disciplines, DOMAIN t.cat.works)
      /\ row.works = old.works /\ row.disciplines = old.disciplines
  BY <1>2 DEF GroupOK, HasColumns
<1> HIDE DEF row
<1>a. \A w \in row.works : t.cat.works[w].disciplines \cap row.disciplines # {}
  BY <1>2, <1>4
<1>d. /\ SoundCatalogue(c) /\ GroupOK(row, DOMAIN c.disciplines, DOMAIN c.works)
      /\ \A w \in row.works : c.works[w].disciplines \cap row.disciplines # {}
  BY <1>1, <1>4, <1>a, <1>b
<1>5. /\ SoundCatalogue(cat) /\ cat.works = c.works /\ cat.rooms = c.rooms
      /\ cat.disciplines = c.disciplines
  BY <1>c, <1>d, GroupWritten
<1> QED BY <1>3, <1>5, <1>b, OnlyPlans

LEMMA DraftCurriculumKeeps ==
  ASSUME NEW t, DraftOK(t), NEW row
  PROVE  MorePlaced(t, DraftCurriculum(t, row))
<1>1. CASE row.group \in DOMAIN t.cat.groups /\ row.code \in DOMAIN t.byCode
  <2> DEFINE cat == Plan(t.cat, row.group, {t.byCode[row.code]}, {})
  <2>1. /\ SoundCatalogue(cat) /\ cat.works = t.cat.works /\ cat.rooms = t.cat.rooms
        /\ cat.disciplines = t.cat.disciplines
    BY <1>1, PlanSound DEF DraftOK
  <2>2. DraftCurriculum(t, row) = [t EXCEPT !.cat = cat]
    BY <1>1 DEF DraftCurriculum
  <2> HIDE DEF cat
  <2> QED BY <2>1, <2>2, OnlyPlans
<1>2. CASE ~(row.group \in DOMAIN t.cat.groups /\ row.code \in DOMAIN t.byCode)
  BY <1>2 DEF DraftCurriculum, MorePlaced
<1> QED BY <1>1, <1>2

(* A link goes to the lab work its row of unique lab works has placed, which *)
(* has the discipline the group is given.                                    *)
LEMMA DraftLinkKeeps ==
  ASSUME NEW t, DraftOK(t), NEW link, link.discipline \in DOMAIN t.byTitle,
         Placed(t, link.room, link.title[1], link.discipline)
  PROVE  MorePlaced(t, DraftLink(t, link))
<1> DEFINE found == Matching(t.cat, link.title, RoomOf(t.cat, link))
           d == t.byTitle[link.discipline]
           cat == Plan(t.cat, link.group, {d}, {Min(found)})
           known == <<link.group, Min(found)>> \in t.linked
           links == t.linked \cup {<<link.group, Min(found)>>}
<1>1. CASE link.group \notin DOMAIN t.cat.groups \/ found = {} \/ known
  BY <1>1 DEF DraftLink, MorePlaced
<1>2. CASE link.group \in DOMAIN t.cat.groups /\ found # {} /\ ~known
  <2>1. LinkSaved(t, cat, links, DraftLink(t, link))
    BY <1>2 DEF DraftLink, LinkSaved
  <2>2. PICK w \in DOMAIN t.cat.works :
          /\ t.cat.works[w].room = link.room /\ t.cat.works[w].title[1] = link.title[1]
          /\ d \in t.cat.works[w].disciplines
    BY DEF Placed
  <2>3. link.room = None \/ link.room \in DOMAIN t.cat.rooms
    BY DEF Placed
  <2>4. found = Matching(t.cat, link.title, link.room)
    BY <2>3 DEF RoomOf
  <2>5. SoundCatalogue(t.cat) /\ IsTable(t.cat.works) /\ WorksUnique(t.cat.works)
    BY SoundColumns DEF DraftOK
  <2>6. /\ found \subseteq DOMAIN t.cat.works
        /\ \A k \in found : t.cat.works[k].room = link.room
                            /\ t.cat.works[k].title[1] = link.title[1]
    BY <2>4, MatchingRows
  <2> HIDE DEF found
  <2>7. Min(found) \in found
    <3>1. found \subseteq Nat
      BY <2>5, <2>6, TableDomain
    <3> QED BY <1>2, <3>1, LeastOf
  <2>8. Min(found) = w
    BY <2>2, <2>5, <2>6, <2>7 DEF WorksUnique
  <2>9. d \in DOMAIN t.cat.disciplines
    BY DEF DraftOK
  <2>10. /\ SoundCatalogue(cat) /\ cat.works = t.cat.works /\ cat.rooms = t.cat.rooms
         /\ cat.disciplines = t.cat.disciplines
    BY <2>2, <2>5, <2>8, <2>9, PlanSound
  <2> HIDE DEF cat
  <2> HIDE DEF links
  <2> QED BY <2>1, <2>10, LinkKeeps
<1> QED BY <1>1, <1>2

LEMMA PlacedOn ==
  ASSUME NEW t, DraftOK(t)
  PROVE  /\ MorePlaced(t, t)
         /\ \A s, r : MorePlaced(t, s) /\ MorePlaced(s, r) => MorePlaced(t, r)
BY DEF MorePlaced

(* What the loops over a draft's disciplines and lab works have done.        *)
DisciplinesRead(rows, n, t) ==
  DraftOK(t) /\ (t.ok => \A k \in 1..n : rows[k].title \in DOMAIN t.byTitle)
WorksPlaced(tx, rows, n, t) ==
  /\ MorePlaced(tx, t)
  /\ t.ok => \A k \in 1..n : Placed(t, rows[k].room, rows[k].title[1], rows[k].discipline)

DraftDisciplines == INSTANCE RowLoop WITH
  Row <- LAMBDA t, row : IF t.ok THEN DraftDiscipline(t, row) ELSE t,
  Kept <- LAMBDA tx, rows, n, t : DisciplinesRead(rows, n, t)
DraftWorks == INSTANCE RowLoop WITH
  Row <- LAMBDA t, row : IF t.ok THEN DraftWork(t, row) ELSE t,
  Kept <- LAMBDA tx, rows, n, t : WorksPlaced(tx, rows, n, t)
DraftGroups == INSTANCE RowLoop WITH
  Row <- LAMBDA t, row : IF t.ok THEN DraftGroup(t, row) ELSE t,
  Kept <- LAMBDA tx, rows, n, t : MorePlaced(tx, t)
DraftCurricula == INSTANCE RowLoop WITH
  Row <- LAMBDA t, row : IF t.ok THEN DraftCurriculum(t, row) ELSE t,
  Kept <- LAMBDA tx, rows, n, t : MorePlaced(tx, t)
DraftLinks == INSTANCE RowLoop WITH
  Row <- LAMBDA t, row : IF t.ok THEN DraftLink(t, row) ELSE t,
  Kept <- LAMBDA tx, rows, n, t : MorePlaced(tx, t)

LEMMA DraftDisciplinesKeep ==
  ASSUME NEW tx, DraftOK(tx), NEW rows, IsTable(rows)
  PROVE  DisciplinesRead(rows, Len(rows), ForEach(DraftDiscipline, tx, rows))
<1>1. ForEach(DraftDiscipline, tx, rows) = DraftDisciplines!Through(tx, rows)
  BY DEF ForEach, Through, DraftDisciplines!Through
<1>2. Len(rows) \in Nat /\ DisciplinesRead(rows, 0, tx)
  BY TableDomain DEF DisciplinesRead
<1>3. ASSUME NEW n \in 1..Len(rows), NEW t, DisciplinesRead(rows, n - 1, t)
      PROVE  DisciplinesRead(rows, n, IF t.ok THEN DraftDiscipline(t, rows[n]) ELSE t)
  <2>1. CASE ~t.ok
    BY <1>3, <2>1 DEF DisciplinesRead
  <2>2. CASE t.ok
    <3>1. PICK new : new = DraftDiscipline(t, rows[n])
      OBVIOUS
    <3>2. DisciplineRead(t, rows[n], new)
      BY <1>3, <3>1, DraftDisciplineKeeps DEF DisciplinesRead
    <3>3. ASSUME NEW k \in 1..n, new.ok
          PROVE  rows[k].title \in DOMAIN new.byTitle
      <4>1. k = n \/ k \in 1..n - 1
        BY <1>2
      <4> QED BY <1>3, <2>2, <3>2, <3>3, <4>1 DEF DisciplinesRead, DisciplineRead
    <3>4. DisciplinesRead(rows, n, new)
      BY <3>2, <3>3 DEF DisciplinesRead, DisciplineRead
    <3> QED BY <2>2, <3>1, <3>4
  <2> QED BY <2>1, <2>2
<1>4. DisciplinesRead(rows, Len(rows), DraftDisciplines!Through(tx, rows))
  BY <1>2, <1>3, DraftDisciplines!LoopKeeps
<1> QED BY <1>1, <1>4

LEMMA DraftWorksKeep ==
  ASSUME NEW tx, DraftOK(tx), NEW rows, IsTable(rows),
         \A n \in DOMAIN rows : rows[n].capacity \in Nat
  PROVE  WorksPlaced(tx, rows, Len(rows), ForEach(DraftWork, tx, rows))
<1>1. ForEach(DraftWork, tx, rows) = DraftWorks!Through(tx, rows)
  BY DEF ForEach, Through, DraftWorks!Through
<1>2. Len(rows) \in Nat /\ DOMAIN rows = 1..Len(rows) /\ WorksPlaced(tx, rows, 0, tx)
  BY TableDomain, PlacedOn DEF WorksPlaced
<1>3. ASSUME NEW n \in 1..Len(rows), NEW t, WorksPlaced(tx, rows, n - 1, t)
      PROVE  WorksPlaced(tx, rows, n, IF t.ok THEN DraftWork(t, rows[n]) ELSE t)
  <2>1. CASE ~t.ok
    BY <1>3, <2>1 DEF WorksPlaced
  <2>2. CASE t.ok
    <3>1. PICK row : row = rows[n]
      OBVIOUS
    <3>2. PICK new : new = DraftWork(t, row)
      OBVIOUS
    <3>3. MorePlaced(t, new) /\ Placed(new, row.room, row.title[1], row.discipline)
      <4>1. DraftOK(t) /\ row.capacity \in Nat
        BY <1>2, <1>3, <3>1 DEF WorksPlaced, MorePlaced
      <4> QED BY <3>2, <4>1, DraftWorkKeeps
    <3>4. MorePlaced(tx, new)
      BY <1>3, <3>3, PlacedOn DEF WorksPlaced
    <3>5. ASSUME NEW k \in 1..n
          PROVE  Placed(new, rows[k].room, rows[k].title[1], rows[k].discipline)
      <4>1. k = n \/ k \in 1..n - 1
        BY <1>2
      <4>2. CASE k = n
        BY <3>1, <3>3, <4>2
      <4>3. CASE k \in 1..n - 1
        <5>1. Placed(t, rows[k].room, rows[k].title[1], rows[k].discipline)
          BY <1>3, <2>2, <4>3 DEF WorksPlaced
        <5> QED BY <3>3, <5>1 DEF MorePlaced
      <4> QED BY <4>1, <4>2, <4>3
    <3>6. WorksPlaced(tx, rows, n, new)
      BY <3>4, <3>5 DEF WorksPlaced
    <3> QED BY <2>2, <3>1, <3>2, <3>6
  <2> QED BY <2>1, <2>2
<1>4. WorksPlaced(tx, rows, Len(rows), DraftWorks!Through(tx, rows))
  BY <1>2, <1>3, DraftWorks!LoopKeeps
<1> QED BY <1>1, <1>4

LEMMA DraftGroupsKeep ==
  ASSUME NEW tx, DraftOK(tx), NEW rows, Len(rows) \in Nat
  PROVE  MorePlaced(tx, ForEach(DraftGroup, tx, rows))
<1>1. ForEach(DraftGroup, tx, rows) = DraftGroups!Through(tx, rows)
  BY DEF ForEach, Through, DraftGroups!Through
<1>2. ASSUME NEW t, MorePlaced(tx, t), NEW row
      PROVE  MorePlaced(tx, DraftGroup(t, row))
  <2>1. MorePlaced(t, DraftGroup(t, row))
    BY <1>2, DraftGroupKeeps DEF MorePlaced
  <2> QED BY <1>2, <2>1, PlacedOn
<1>3. MorePlaced(tx, DraftGroups!Through(tx, rows))
  BY <1>2, PlacedOn, DraftGroups!LoopKeeps
<1> QED BY <1>1, <1>3

LEMMA DraftCurriculaKeep ==
  ASSUME NEW tx, DraftOK(tx), NEW rows, Len(rows) \in Nat
  PROVE  MorePlaced(tx, ForEach(DraftCurriculum, tx, rows))
<1>1. ForEach(DraftCurriculum, tx, rows) = DraftCurricula!Through(tx, rows)
  BY DEF ForEach, Through, DraftCurricula!Through
<1>2. ASSUME NEW t, MorePlaced(tx, t), NEW row
      PROVE  MorePlaced(tx, DraftCurriculum(t, row))
  <2>1. MorePlaced(t, DraftCurriculum(t, row))
    BY <1>2, DraftCurriculumKeeps DEF MorePlaced
  <2> QED BY <1>2, <2>1, PlacedOn
<1>3. MorePlaced(tx, DraftCurricula!Through(tx, rows))
  BY <1>2, PlacedOn, DraftCurricula!LoopKeeps
<1> QED BY <1>1, <1>3

(* What a link needs: its discipline is known and its lab work placed.       *)
Linkable(t, link) ==
  /\ link.discipline \in DOMAIN t.byTitle
  /\ Placed(t, link.room, link.title[1], link.discipline)

LEMMA DraftLinksKeep ==
  ASSUME NEW tx, DraftOK(tx), NEW rows, IsTable(rows),
         tx.ok => \A n \in DOMAIN rows : Linkable(tx, rows[n])
  PROVE  MorePlaced(tx, ForEach(DraftLink, tx, rows))
<1>1. ForEach(DraftLink, tx, rows) = DraftLinks!Through(tx, rows)
  BY DEF ForEach, Through, DraftLinks!Through
<1>2. Len(rows) \in Nat /\ DOMAIN rows = 1..Len(rows)
  BY TableDomain
<1>3. ASSUME NEW n \in 1..Len(rows), NEW t, MorePlaced(tx, t)
      PROVE  MorePlaced(tx, IF t.ok THEN DraftLink(t, rows[n]) ELSE t)
  <2>1. CASE ~t.ok
    BY <1>3, <2>1
  <2>2. CASE t.ok
    <3>1. PICK link : link = rows[n]
      OBVIOUS
    <3>2. Linkable(tx, link)
      BY <1>2, <1>3, <2>2, <3>1 DEF MorePlaced
    <3>3. Linkable(t, link) /\ DraftOK(t)
      BY <1>3, <3>2 DEF MorePlaced, Linkable
    <3>4. MorePlaced(t, DraftLink(t, link))
      BY <3>3, DraftLinkKeeps DEF Linkable
    <3>5. MorePlaced(tx, DraftLink(t, link))
      BY <1>3, <3>4, PlacedOn
    <3> QED BY <2>2, <3>1, <3>5
  <2> QED BY <2>1, <2>2
<1>4. MorePlaced(tx, DraftLinks!Through(tx, rows))
  BY <1>2, <1>3, PlacedOn, DraftLinks!LoopKeeps
<1> QED BY <1>1, <1>4

LEMMA DraftSound ==
  ASSUME NEW cat, SoundCatalogue(cat), NEW k \in DOMAIN Drafts, NEW semester
  PROVE  LET tx == ImportDraft(cat, Drafts[k], semester)
         IN tx.ok \in BOOLEAN /\ SoundCatalogue(tx.cat)
<1>1. PICK draft : draft = Drafts[k]
  OBVIOUS
<1>2. /\ IsTable(draft.disciplines) /\ IsTable(draft.groups) /\ IsTable(draft.curriculum)
      /\ IsTable(draft.unique) /\ IsTable(draft.links)
      /\ \A i \in DOMAIN draft.unique : draft.unique[i].capacity \in Nat
      /\ \A i \in DOMAIN draft.links : Listed(draft, draft.links[i])
  BY <1>1, DraftsAssumption DEF Table
<1>3. PICK tx, disciplines, works, groups, curriculum, links :
        /\ \E laboratory, department :
             tx = [ok |-> TRUE, cat |-> cat, semester |-> semester, byCode |-> <<>>,
                   byTitle |-> <<>>, linked |-> {}, laboratory |-> laboratory,
                   department |-> department]
        /\ disciplines = ForEach(DraftDiscipline, tx, draft.disciplines)
        /\ works = ForEach(DraftWork, disciplines, draft.unique)
        /\ groups = ForEach(DraftGroup, works, draft.groups)
        /\ curriculum = ForEach(DraftCurriculum, groups, draft.curriculum)
        /\ links = ForEach(DraftLink, curriculum, draft.links)
        /\ links = ImportDraft(cat, draft, semester)
  BY DEF ImportDraft
<1>4. DraftOK(tx)
  <2>1. /\ DraftShape(tx) /\ tx.ok = TRUE /\ tx.cat = cat
        /\ DOMAIN tx.byCode = {} /\ DOMAIN tx.byTitle = {}
    <3>1. PICK laboratory, department :
            tx = [ok |-> TRUE, cat |-> cat, semester |-> semester, byCode |-> <<>>,
                  byTitle |-> <<>>, linked |-> {}, laboratory |-> laboratory,
                  department |-> department]
      BY <1>3
    <3>2. DraftShape(tx)
      BY <3>1 DEF DraftShape, HasColumns
    <3>3. tx.ok = TRUE /\ tx.cat = cat /\ tx.byCode = <<>> /\ tx.byTitle = <<>>
      BY <3>1
    <3> QED BY <3>2, <3>3, EmptyTables
  <2> QED BY <2>1 DEF DraftOK
<1>5. DisciplinesRead(draft.disciplines, Len(draft.disciplines), disciplines)
  BY <1>2, <1>3, <1>4, DraftDisciplinesKeep
<1>6. WorksPlaced(disciplines, draft.unique, Len(draft.unique), works)
  BY <1>2, <1>3, <1>5, DraftWorksKeep DEF DisciplinesRead
<1>7. MorePlaced(works, groups)
  BY <1>2, <1>3, <1>6, TableDomain, DraftGroupsKeep DEF WorksPlaced, MorePlaced
<1>8. MorePlaced(groups, curriculum)
  BY <1>2, <1>3, <1>7, TableDomain, DraftCurriculaKeep DEF MorePlaced
<1>9. ASSUME curriculum.ok, NEW n \in DOMAIN draft.links
      PROVE  Linkable(curriculum, draft.links[n])
  <2>1. PICK link : link = draft.links[n]
    OBVIOUS
  <2>2. PICK i \in DOMAIN draft.unique, d \in DOMAIN draft.disciplines :
          /\ draft.unique[i].room = link.room /\ draft.unique[i].title[1] = link.title[1]
          /\ draft.unique[i].discipline = link.discipline
          /\ draft.disciplines[d].title = link.discipline
    BY <1>2, <2>1 DEF Listed
  <2>3. works.ok /\ disciplines.ok /\ works.byTitle = disciplines.byTitle
        /\ curriculum.byTitle = works.byTitle
    BY <1>6, <1>7, <1>8, <1>9 DEF WorksPlaced, MorePlaced
  <2>4. i \in 1..Len(draft.unique) /\ d \in 1..Len(draft.disciplines)
    BY <1>2, TableDomain
  <2>5. link.discipline \in DOMAIN disciplines.byTitle
    BY <1>5, <2>2, <2>3, <2>4 DEF DisciplinesRead
  <2>6. Placed(works, link.room, link.title[1], link.discipline)
    BY <1>6, <2>2, <2>3, <2>4 DEF WorksPlaced
  <2>7. Placed(curriculum, link.room, link.title[1], link.discipline)
    BY <1>7, <1>8, <2>6 DEF MorePlaced
  <2> QED BY <2>1, <2>3, <2>5, <2>7 DEF Linkable
<1>10. MorePlaced(curriculum, links)
  <2>1. DraftOK(curriculum) /\ links = ForEach(DraftLink, curriculum, draft.links)
    BY <1>3, <1>8 DEF MorePlaced
  <2>2. IsTable(draft.links)
    BY <1>2
  <2>3. curriculum.ok => \A n \in DOMAIN draft.links : Linkable(curriculum, draft.links[n])
    BY <1>9
  <2> QED BY <2>1, <2>2, <2>3, DraftLinksKeep
<1> QED BY <1>1, <1>3, <1>10 DEF MorePlaced, DraftOK

-------------------------------------------------------------------------------
(* The command import_dekanat_csv, and repair_lab_bindings                   *)

(* A lab work of which only the centres changed.                             *)
Recentred(w, new) ==
  /\ WorkShape(new) /\ new.title = w.title /\ new.room = w.room /\ new.minutes = w.minutes
  /\ new.capacity = w.capacity /\ new.disciplines = w.disciplines

LEMMA CentresChange ==
  ASSUME NEW w, WorkShape(w), NEW centers
  PROVE  Recentred(w, w) /\ Recentred(w, [w EXCEPT !.centers = centers])
BY DEF Recentred, WorkShape, HasColumns

(* Disciplines and lab works are changed in place, the latter in the centres.*)
Rebound(cat, disciplines, works, new) ==
  new = [cat EXCEPT !.disciplines = disciplines, !.works = works]

LEMMA ReboundSound ==
  ASSUME NEW cat, SoundCatalogue(cat), NEW disciplines, DisciplinesOK(disciplines),
         DOMAIN disciplines = DOMAIN cat.disciplines, NEW works, IsTable(works),
         DOMAIN works = DOMAIN cat.works,
         \A w \in DOMAIN works : Recentred(cat.works[w], works[w]),
         NEW new, Rebound(cat, disciplines, works, new)
  PROVE  SoundCatalogue(new)
<1>1. /\ CatalogueShape(new) /\ new.departments = cat.departments /\ new.works = works
      /\ new.disciplines = disciplines /\ new.groups = cat.groups /\ new.rooms = cat.rooms
  BY SoundColumns DEF CatalogueShape, HasColumns, Rebound
<1>2. \A i \in DOMAIN works : WorkOK(works[i], DOMAIN disciplines)
  <2>1. SUFFICES ASSUME NEW i \in DOMAIN works PROVE WorkOK(works[i], DOMAIN disciplines)
    OBVIOUS
  <2>2. WorkOK(cat.works[i], DOMAIN cat.disciplines) /\ Recentred(cat.works[i], works[i])
    BY SoundColumns
  <2> QED BY <2>2 DEF WorkOK, Recentred, WorkShape
<1>3. \A i \in DOMAIN works : /\ works[i].room = cat.works[i].room
                              /\ works[i].title = cat.works[i].title
                              /\ works[i].disciplines = cat.works[i].disciplines
  BY DEF Recentred
<1>4. WorksUnique(cat.works)
  BY SoundColumns
<1>5. WorksUnique(works)
  BY <1>3, <1>4 DEF WorksUnique
<1>6. \A i \in DOMAIN cat.works : cat.works[i].disciplines \subseteq works[i].disciplines
  BY <1>3
<1> QED BY <1>1, <1>2, <1>5, <1>6, SoundColumns, SoundWrites

LEMMA DekanatDisciplineSound ==
  ASSUME NEW cat, SoundCatalogue(cat), NEW row, NEW semester
  PROVE  LET result == DekanatDiscipline(cat, row, semester)
         IN result.ok \in BOOLEAN /\ SoundCatalogue(result.cat)
<1> DEFINE table == cat.disciplines
           found == Where(table, LAMBDA d : IF row.code # None THEN d.code = row.code
                                            ELSE d.title = row.title)
           i == First(table, found)
<1>1. IsTable(table) /\ found \subseteq DOMAIN table
  BY SoundColumns DEF Where
<1>2. PICK d : /\ DisciplineShape(d)
               /\ DekanatDiscipline(cat, row, semester) =
                   [ok |-> Cardinality(found) <= 1,
                    cat |-> [cat EXCEPT !.disciplines = Put(table, i, d)]]
  BY DEF DekanatDiscipline, DisciplineShape, HasColumns
<1> HIDE DEF found
<1>3. i \in 1..Len(table) + 1
  BY <1>1, FirstKey
<1> HIDE DEF i
<1>4. PICK ds : ds = Put(table, i, d)
  OBVIOUS
<1>5. Wrote(table, i, d, ds)
  BY <1>1, <1>3, <1>4, PutRow
<1>6. LET new == [cat EXCEPT !.disciplines = ds] IN SoundCatalogue(new)
  BY <1>2, <1>5, DisciplineWritten
<1>7. PICK new : new = [cat EXCEPT !.disciplines = ds] /\ SoundCatalogue(new)
  BY <1>6
<1>a. Cardinality(found) \in Nat
  BY <1>1, FiniteRows
<1>8. PICK result : result = DekanatDiscipline(cat, row, semester)
  OBVIOUS
<1>9. result = [ok |-> Cardinality(found) <= 1, cat |-> new]
  BY <1>2, <1>4, <1>7, <1>8
<1>10. result.cat = new
  BY <1>9
<1>11. result.ok \in BOOLEAN
  BY <1>9, <1>a
<1> QED BY <1>7, <1>8, <1>10, <1>11

LEMMA DekanatGroupSound ==
  ASSUME NEW cat, SoundCatalogue(cat), NEW g
  PROVE  SoundCatalogue(DekanatGroup(cat, g))
<1>1. PICK row : row = GroupRow(cat, g)
  OBVIOUS
<1>2. /\ GroupOK(row, DOMAIN cat.disciplines, DOMAIN cat.works)
      /\ \A w \in row.works : cat.works[w].disciplines \cap row.disciplines # {}
  BY <1>1, GroupRowSound
<1>3. PICK new : GroupSaved(cat, g, row, new)
  BY DEF GroupSaved
<1>4. DekanatGroup(cat, g) = new
  BY <1>1, <1>3 DEF DekanatGroup, GroupSaved
<1> QED BY <1>2, <1>3, <1>4, GroupWritten

LEMMA DekanatCurriculumSound ==
  ASSUME NEW cat, SoundCatalogue(cat), NEW row
  PROVE  SoundCatalogue(DekanatCurriculum(cat, row))
<1> DEFINE found == {i \in DOMAIN cat.disciplines : cat.disciplines[i].code = row.code}
           new == Plan(cat, row.group, {Min(found)}, {})
<1>1. IsTable(cat.disciplines)
  BY SoundColumns
<1>2. found \subseteq Nat /\ found \subseteq DOMAIN cat.disciplines
  BY <1>1, TableDomain
<1>3. DekanatCurriculum(cat, row) = IF row.group \notin DOMAIN cat.groups \/ found = {} THEN cat
                                    ELSE new
  BY DEF DekanatCurriculum, Where
<1> HIDE DEF found
<1>4. found # {} => Min(found) \in DOMAIN cat.disciplines
  BY <1>2, LeastOf
<1>5. found # {} => SoundCatalogue(new)
  BY <1>4, PlanSound
<1> QED BY <1>3, <1>5

LEMMA DekanatLabBindingSound ==
  ASSUME NEW cat, SoundCatalogue(cat), NEW row
  PROVE  SoundCatalogue(DekanatLabBinding(cat, row))
<1> DEFINE found == Where(cat.disciplines, LAMBDA d : d.code = row.code)
           d == Min(found)
           disciplines == [cat.disciplines EXCEPT ![d].centers = @ \cup {row.center}]
           works == [w \in DOMAIN cat.works |->
                       IF d \in cat.works[w].disciplines
                       THEN [cat.works[w] EXCEPT !.centers = @ \cup {row.center}] ELSE cat.works[w]]
<1>0. DekanatLabBinding(cat, row) =
        IF found = {} THEN cat ELSE [cat EXCEPT !.disciplines = disciplines, !.works = works]
  BY DEF DekanatLabBinding
<1>1. CASE found = {}
  BY <1>0, <1>1
<1>2. CASE found # {}
  <2>1. PICK new : Rebound(cat, disciplines, works, new)
    BY DEF Rebound
  <2>2. DekanatLabBinding(cat, row) = new
    BY <1>0, <1>2, <2>1 DEF Rebound
  <2>3. IsTable(cat.disciplines) /\ IsTable(cat.works)
    BY SoundColumns
  <2> HIDE DEF d
  <2>4. DisciplinesOK(disciplines) /\ DOMAIN disciplines = DOMAIN cat.disciplines
    <3>1. /\ disciplines = [i \in DOMAIN cat.disciplines |-> disciplines[i]]
          /\ DOMAIN disciplines = DOMAIN cat.disciplines
      OBVIOUS
    <3>2. \A i \in DOMAIN cat.disciplines : DisciplineShape(cat.disciplines[i])
      BY SoundColumns, DisciplineRows
    <3>3. \A i \in DOMAIN cat.disciplines : DisciplineShape(disciplines[i])
      BY <3>2 DEF DisciplineShape, HasColumns
    <3> QED BY <2>3, <3>1, <3>3, SameLength, DisciplineRows
  <2>5. IsTable(works) /\ DOMAIN works = DOMAIN cat.works
    BY <2>3, SameLength
  <2>6. \A w \in DOMAIN works : Recentred(cat.works[w], works[w])
    BY SoundColumns, CentresChange
  <2> HIDE DEF disciplines, works
  <2> QED BY <2>1, <2>2, <2>4, <2>5, <2>6, ReboundSound
<1> QED BY <1>1, <1>2

LEMMA RepairSound ==
  ASSUME NEW cat, SoundCatalogue(cat), NEW center
  PROVE  SoundCatalogue(RepairLabBindings(cat, center))
<1> DEFINE active == {s \in DOMAIN cat.semesters : cat.semesters[s]}
           disciplines == [d \in DOMAIN cat.disciplines |->
             LET row == cat.disciplines[d]
             IN IF row.centers = {} /\ (active = {} \/ row.semester \in active)
                THEN [row EXCEPT !.centers = {center},
                                 !.code = IF @ = None THEN <<"DISC", d>> ELSE @] ELSE row]
           works == [w \in DOMAIN cat.works |->
             IF /\ cat.works[w].centers = {}
                /\ \E d \in cat.works[w].disciplines : center \in disciplines[d].centers
             THEN [cat.works[w] EXCEPT !.centers = {center}] ELSE cat.works[w]]
<1>1. PICK new : Rebound(cat, disciplines, works, new)
  BY DEF Rebound
<1>2. RepairLabBindings(cat, center) = new
  BY <1>1 DEF RepairLabBindings, Rebound
<1>3. IsTable(cat.disciplines) /\ IsTable(cat.works)
  BY SoundColumns
<1>4. DisciplinesOK(disciplines) /\ DOMAIN disciplines = DOMAIN cat.disciplines
  <2>1. IsTable(disciplines) /\ DOMAIN disciplines = DOMAIN cat.disciplines
    BY <1>3, SameLength
  <2>2. \A i \in DOMAIN cat.disciplines : DisciplineShape(cat.disciplines[i])
    BY SoundColumns, DisciplineRows
  <2>3. \A i \in DOMAIN cat.disciplines : DisciplineShape(disciplines[i])
    BY <2>2 DEF DisciplineShape, HasColumns
  <2> QED BY <2>1, <2>3, DisciplineRows
<1> HIDE DEF disciplines
<1>5. IsTable(works) /\ DOMAIN works = DOMAIN cat.works
  BY <1>3, SameLength
<1>6. \A w \in DOMAIN works : Recentred(cat.works[w], works[w])
  BY SoundColumns, CentresChange
<1> HIDE DEF works
<1> QED BY <1>1, <1>2, <1>4, <1>5, <1>6, ReboundSound

LEMMA UserUpserted ==
  ASSUME NEW table, AccountsOK(table), NEW row
  PROVE  LET new == UpsertUser(table, row)
         IN AccountsOK(new) /\ ByEmail(new, RowEmail(table, row)) # {}
<1>1. PICK email, old, person : /\ email = RowEmail(table, row)
                                /\ old = Account(table, email, row.role)
                                /\ person = [old EXCEPT !.role = row.role]
  OBVIOUS
<1>2. UpsertUser(table, row) = PutAccount(table, person)
  BY <1>1 DEF UpsertUser
<1>3. AccountShape(old) /\ old.email = email
  BY <1>1, AccountFound
<1>4. AccountShape(person) /\ person.email = email
  BY <1>1, <1>3 DEF AccountShape, HasColumns
<1>5. PICK new : new = PutAccount(table, person)
  OBVIOUS
<1>6. AccountWritten(table, person, new)
  BY <1>4, <1>5, PutAccountWrites
<1>7. ByEmail(new, email) # {}
  BY <1>4, <1>6 DEF AccountWritten, ByEmail, Where
<1> QED BY <1>1, <1>2, <1>5, <1>6, <1>7 DEF AccountWritten

(* The profile of an account is overwritten in place.                        *)
Reprofiled(table, i, row, new) == new = [table EXCEPT ![i] = row]

LEMMA ProfileWritten ==
  ASSUME NEW table, AccountsOK(table), NEW i \in DOMAIN table, NEW row, AccountShape(row),
         row.email = table[i].email, NEW new, Reprofiled(table, i, row, new)
  PROVE  AccountsOK(new)
<1>1. IsTable(table) /\ \A k \in DOMAIN table : AccountShape(table[k])
  BY AccountRows
<1>2. /\ new = [k \in DOMAIN table |-> new[k]] /\ DOMAIN new = DOMAIN table
      /\ new[i] = row /\ \A k \in DOMAIN table \ {i} : new[k] = table[k]
  BY DEF Reprofiled
<1>3. IsTable(new)
  BY <1>1, <1>2, SameLength
<1>4. \A k \in DOMAIN new : AccountShape(new[k]) /\ new[k].email = table[k].email
  BY <1>1, <1>2
<1>5. \A k, l \in DOMAIN table : table[k].email = table[l].email => k = l
  BY AccountRows
<1> QED BY <1>2, <1>3, <1>4, <1>5 DEF AccountsOK, Table, AccountShape

LEMMA EmailFound ==
  ASSUME NEW table, AccountsOK(table), NEW email, ByEmail(table, email) # {}
  PROVE  Min(ByEmail(table, email)) \in DOMAIN table
<1>1. ByEmail(table, email) \subseteq DOMAIN table
  BY DEF ByEmail, Where
<1>2. DOMAIN table \subseteq Nat
  BY AccountRows, TableDomain
<1> QED BY <1>1, <1>2, LeastOf

LEMMA StudentProfileKeeps ==
  ASSUME NEW table, AccountsOK(table), NEW row, NEW email, ByEmail(table, email) # {}, NEW groups
  PROVE  AccountsOK(StudentProfile(table, row, email, groups))
<1>1. PICK i : i = Min(ByEmail(table, email))
  OBVIOUS
<1>2. i \in DOMAIN table
  BY <1>1, EmailFound
<1>3. PICK old : old = table[i]
  OBVIOUS
<1>4. PICK group : group = IF row.group \in groups THEN row.group ELSE old.group
  OBVIOUS
<1>5. PICK person : person = [old EXCEPT !.groupName = row.group, !.record = row.record,
                                         !.group = group]
  OBVIOUS
<1>6. AccountShape(old)
  BY <1>2, <1>3, AccountRows
<1>7. AccountShape(person) /\ person.email = old.email
  BY <1>5, <1>6 DEF AccountShape, HasColumns
<1>8. PICK new : Reprofiled(table, i, person, new)
  BY DEF Reprofiled
<1>9. StudentProfile(table, row, email, groups) = new
  BY <1>1, <1>2, <1>3, <1>4, <1>5, <1>6, <1>8
     DEF StudentProfile, Reprofiled, AccountShape, HasColumns
<1> QED BY <1>2, <1>3, <1>7, <1>8, <1>9, ProfileWritten

LEMMA StaffProfileKeeps ==
  ASSUME NEW table, AccountsOK(table), NEW row, NEW email, ByEmail(table, email) # {}, NEW cat
  PROVE  AccountsOK(StaffProfile(table, row, email, cat))
<1>1. PICK i : i = Min(ByEmail(table, email))
  OBVIOUS
<1>2. i \in DOMAIN table
  BY <1>1, EmailFound
<1>3. PICK old : old = table[i]
  OBVIOUS
<1>4. PICK center, laboratory, disciplines :
        StaffProfile(table, row, email, cat) =
          [table EXCEPT ![i].center = center, ![i].laboratory = laboratory,
                        ![i].disciplines = disciplines]
  BY <1>1 DEF StaffProfile
<1>5. PICK person : person = [old EXCEPT !.center = center, !.laboratory = laboratory,
                                         !.disciplines = disciplines]
  OBVIOUS
<1>6. AccountShape(old)
  BY <1>2, <1>3, AccountRows
<1>7. AccountShape(person) /\ person.email = old.email
  BY <1>5, <1>6 DEF AccountShape, HasColumns
<1>8. PICK new : Reprofiled(table, i, person, new)
  BY DEF Reprofiled
<1>9. StaffProfile(table, row, email, cat) = new
  BY <1>2, <1>3, <1>4, <1>5, <1>6, <1>8 DEF Reprofiled, AccountShape, HasColumns
<1> QED BY <1>2, <1>3, <1>7, <1>8, <1>9, ProfileWritten

-------------------------------------------------------------------------------
(* generate_workload_students                                                *)

(* A group without a year takes the numbers of year 99; no group was         *)
(* admitted in 99, or they would meet.                                       *)
YearsApart == ~\E g, h \in Group : YearOf[g] = None /\ YearOf[h] = "99"
CountedLate(year) == year = "99" /\ \E g \in Group : YearOf[g] = None

Counters(counters) == counters \in [Years -> Nat]

(* The addresses a run may have given by now.                                *)
Spent(counters, email) ==
  /\ email = <<email[1], email[2]>> /\ email[1] \in Years /\ email[2] \in Nat
  /\ email[2] <= counters[email[1]]
  /\ CountedLate(email[1]) => email[2] < counters[email[1]]

WorkloadShape(t) == HasColumns(t, {"ok", "accounts", "counters", "mine", "email", "group"})
WorkloadOK(t) ==
  /\ WorkloadShape(t) /\ AccountsOK(t.accounts) /\ t.group \in Group
  /\ Counters(t.counters) /\ (YearsApart => \A e \in t.mine : Spent(t.counters, e))

(* Accounts whose addresses were given before are left alone.                *)
Spares(t, new) ==
  /\ DOMAIN t.accounts \subseteq DOMAIN new.accounts
  /\ \A e : Spent(t.counters, e) => Spent(new.counters, e)
  /\ YearsApart =>
       \A i \in DOMAIN t.accounts :
         Spent(t.counters, t.accounts[i].email) => new.accounts[i] = t.accounts[i]

LEMMA AllocateSpends ==
  ASSUME NEW t, WorkloadOK(t)
  PROVE  LET new == Allocate(t)
         IN /\ WorkloadShape(new) /\ new.accounts = t.accounts /\ new.group = t.group
            /\ new.mine = t.mine /\ Counters(new.counters)
            /\ YearsApart => /\ ~Spent(t.counters, new.email)
                             /\ Spent(new.counters, new.email)
            /\ \A e : Spent(t.counters, e) => Spent(new.counters, e)
<1> DEFINE year == YearOf[t.group]
           key == IF year = None THEN "99" ELSE year
           counters == [t.counters EXCEPT ![key] = @ + 1]
<1>1. PICK new : new = Allocate(t)
  OBVIOUS
<1>2. PICK n : n = IF year = None THEN t.counters["99"] ELSE t.counters[year] + 1
  OBVIOUS
<1>3. PICK email : email = <<key, n>>
  OBVIOUS
<1>4. new = [t EXCEPT !.email = email, !.counters = counters]
  BY <1>1, <1>2, <1>3 DEF Allocate
<1>5. key \in Years
  BY DEF WorkloadOK, Years
<1>6. year = None => CountedLate(key)
  BY DEF WorkloadOK, CountedLate
<1>7. YearsApart /\ year # None => ~CountedLate(key)
  BY DEF WorkloadOK, CountedLate, YearsApart
<1>8. /\ YearsApart => n = IF CountedLate(key) THEN t.counters[key] ELSE t.counters[key] + 1
      /\ n = t.counters[key] \/ n = t.counters[key] + 1
  BY <1>2, <1>6, <1>7
<1> HIDE DEF key
<1>9. /\ \A y \in Years : t.counters[y] \in Nat /\ counters[y] \in Nat
                          /\ counters[y] = IF y = key THEN t.counters[y] + 1 ELSE t.counters[y]
      /\ Counters(counters)
  BY <1>5 DEF WorkloadOK, Counters
<1> HIDE DEF counters
<1>10. /\ WorkloadShape(new) /\ new.accounts = t.accounts /\ new.group = t.group
       /\ new.mine = t.mine /\ new.counters = counters /\ new.email = email
  BY <1>4 DEF WorkloadOK, WorkloadShape, HasColumns
<1>11. email = <<email[1], email[2]>> /\ email[1] = key /\ email[2] = n /\ n \in Nat
  BY <1>3, <1>5, <1>8, <1>9
<1>12. YearsApart => ~Spent(t.counters, email)
  BY <1>5, <1>8, <1>9, <1>11 DEF Spent
<1>13. YearsApart => Spent(counters, email)
  BY <1>5, <1>8, <1>9, <1>11 DEF Spent
<1>14. \A e : Spent(t.counters, e) => Spent(counters, e)
  BY <1>9 DEF Spent
<1> QED BY <1>1, <1>9, <1>10, <1>12, <1>13, <1>14

LEMMA WorkloadStudentSpares ==
  ASSUME NEW t, WorkloadOK(t), NEW i
  PROVE  WorkloadOK(WorkloadStudent(t, i)) /\ Spares(t, WorkloadStudent(t, i))
<1>1. PICK s : s = Allocate(t)
  OBVIOUS
<1>2. /\ WorkloadShape(s) /\ s.accounts = t.accounts /\ s.group = t.group
      /\ s.mine = t.mine /\ Counters(s.counters)
      /\ YearsApart => ~Spent(t.counters, s.email) /\ Spent(s.counters, s.email)
      /\ \A e : Spent(t.counters, e) => Spent(s.counters, e)
  BY <1>1, AllocateSpends
<1>3. PICK old : old = Account(s.accounts, s.email, "STUDENT")
  OBVIOUS
<1>4. PICK row : row = [old EXCEPT !.groupName = s.group, !.group = s.group, !.record = s.email]
  OBVIOUS
<1>5. PICK table : table = PutAccount(s.accounts, row)
  OBVIOUS
<1>6. PICK new : new = [s EXCEPT !.mine = s.mine \cup {s.email}, !.accounts = table]
  OBVIOUS
<1>7. WorkloadStudent(t, i) = new
  BY <1>1, <1>3, <1>4, <1>5, <1>6 DEF WorkloadStudent
<1>8. AccountShape(old) /\ old.email = s.email
  BY <1>2, <1>3, AccountFound DEF WorkloadOK
<1>9. AccountShape(row) /\ row.email = s.email
  BY <1>4, <1>8 DEF AccountShape, HasColumns
<1>10. AccountWritten(s.accounts, row, table)
  BY <1>2, <1>5, <1>9, PutAccountWrites DEF WorkloadOK
<1>11. /\ WorkloadShape(new) /\ new.accounts = table /\ new.group = s.group
       /\ new.mine = s.mine \cup {s.email} /\ new.counters = s.counters
  BY <1>2, <1>6 DEF WorkloadShape, HasColumns
<1>12. WorkloadOK(new)
  BY <1>2, <1>10, <1>11 DEF WorkloadOK, AccountWritten
<1>13. Spares(t, new)
  BY <1>2, <1>9, <1>10, <1>11 DEF Spares, AccountWritten
<1> QED BY <1>7, <1>12, <1>13

WorkloadStudents == INSTANCE RowLoop WITH
  Row <- LAMBDA t, row : IF t.ok THEN WorkloadStudent(t, row) ELSE t,
  Kept <- LAMBDA tx, rows, n, t : WorkloadOK(t) /\ Spares(tx, t)

LEMMA SparesOn ==
  ASSUME NEW t, NEW s, NEW r, Spares(t, s), Spares(s, r)
  PROVE  Spares(t, r)
<1>1. /\ DOMAIN t.accounts \subseteq DOMAIN r.accounts
      /\ \A e : Spent(t.counters, e) => Spent(r.counters, e)
  BY DEF Spares
<1>2. ASSUME YearsApart, NEW i \in DOMAIN t.accounts, Spent(t.counters, t.accounts[i].email)
      PROVE  r.accounts[i] = t.accounts[i]
  <2>1. i \in DOMAIN s.accounts /\ s.accounts[i] = t.accounts[i]
    BY <1>2 DEF Spares
  <2>2. Spent(s.counters, s.accounts[i].email)
    BY <1>2, <2>1 DEF Spares
  <2> QED BY <1>2, <2>1, <2>2 DEF Spares
<1> QED BY <1>1, <1>2 DEF Spares

LEMMA WorkloadGroupSpares ==
  ASSUME NEW table, AccountsOK(table), NEW counters, Counters(counters),
         NEW g \in Group
  PROVE  LET new == WorkloadGroup(table, counters, g)
         IN /\ WorkloadOK(new)
            /\ \A e : Spent(counters, e) => Spent(new.counters, e)
            /\ YearsApart =>
                 \A i \in DOMAIN table :
                   Spent(counters, table[i].email) => new.accounts[i] = table[i]
<1> DEFINE lacking == {0, StudentsPerGroup - Cardinality(StudentsOf(table, g))}
           missing == Max(lacking)
           students == [i \in 1..missing |-> i]
<1>1. PICK tx : tx = [ok |-> TRUE, accounts |-> table, counters |-> counters, mine |-> {},
                      email |-> None, group |-> g]
  OBVIOUS
<1>2. WorkloadGroup(table, counters, g) = ForEach(WorkloadStudent, tx, students)
  BY <1>1 DEF WorkloadGroup
<1>3. Len(students) \in Nat
  <2>1. Cardinality(StudentsOf(table, g)) \in Nat
    <3>1. IsTable(table) /\ StudentsOf(table, g) \subseteq DOMAIN table
      BY AccountRows DEF StudentsOf, Where
    <3> QED BY <3>1, FiniteRows
  <2>2. PICK n \in Int : lacking = {0, n}
    BY <2>1, AccountAssumption
  <2> HIDE DEF lacking
  <2>3. \E m \in lacking : \A k \in lacking : m >= k
    <3>1. CASE n <= 0
      BY <2>2, <3>1
    <3>2. CASE n > 0
      BY <2>2, <3>2
    <3> QED BY <3>1, <3>2
  <2>4. missing \in lacking /\ \A k \in lacking : missing >= k
    BY <2>3 DEF Max
  <2>5. missing \in Nat
    BY <2>2, <2>4
  <2> HIDE DEF missing
  <2> QED BY <2>5, TableOf
<1> HIDE DEF students
<1>4. /\ WorkloadShape(tx) /\ tx.accounts = table /\ tx.counters = counters
      /\ tx.mine = {} /\ tx.group = g
  BY <1>1 DEF WorkloadShape, HasColumns
<1>5. WorkloadOK(tx) /\ Spares(tx, tx)
  BY <1>4 DEF WorkloadOK, Spares
<1>6. PICK new : new = ForEach(WorkloadStudent, tx, students)
  OBVIOUS
<1>7. WorkloadOK(new) /\ Spares(tx, new)
  <2>1. new = WorkloadStudents!Through(tx, students)
    BY <1>6 DEF ForEach, Through, WorkloadStudents!Through
  <2>2. ASSUME NEW n \in 1..Len(students), NEW t, WorkloadOK(t) /\ Spares(tx, t)
        PROVE  LET s == IF t.ok THEN WorkloadStudent(t, students[n]) ELSE t
               IN WorkloadOK(s) /\ Spares(tx, s)
    <3>1. WorkloadOK(WorkloadStudent(t, students[n])) /\ Spares(t, WorkloadStudent(t, students[n]))
      BY <2>2, WorkloadStudentSpares
    <3> QED BY <2>2, <3>1, SparesOn
  <2>3. WorkloadOK(WorkloadStudents!Through(tx, students))
        /\ Spares(tx, WorkloadStudents!Through(tx, students))
    BY <1>3, <1>5, <2>2, WorkloadStudents!LoopKeeps
  <2> QED BY <2>1, <2>3
<1> QED BY <1>2, <1>4, <1>6, <1>7 DEF Spares

-------------------------------------------------------------------------------
(* The commands under way                                                    *)

(* What a command has left to do comes from its files; what a run of         *)
(* generate_workload_students has given it has counted; an account of the    *)
(* dekanat is there when its profile is written.                             *)
DraftsUnderWay ==
  /\ HasColumns(job, {"kind", "name", "semester", "todo"})
  /\ IsTable(job.todo) /\ job.todo # <<>>
  /\ \A i \in DOMAIN job.todo : \E k \in DOMAIN Drafts : job.todo[i] = Drafts[k]
WorkloadUnderWay ==
  /\ HasColumns(job, {"kind", "include", "todo", "counters", "given"})
  /\ IsTable(job.todo) /\ \A i \in DOMAIN job.todo : job.todo[i] \in Group
  /\ Counters(job.counters)
DekanatUnderWay ==
  /\ HasColumns(job, {"kind", "file", "todo", "email"})
  /\ job.email # None => ByEmail(accounts, job.email) # {}

JobOK ==
  \/ job = NoJob
  \/ job.kind = "drafts" /\ DraftsUnderWay
  \/ job.kind = "workload" /\ WorkloadUnderWay
  \/ job.kind = "dekanat" /\ DekanatUnderWay

(* No address a run has given will be given again.                           *)
GivenCounted ==
  job.kind = "workload" => \A e \in job.given : Spent(job.counters, e)

(* The inductive invariant.                                                  *)
IInv == SoundCatalogue(catalogue) /\ TypeOK /\ JobOK

LEMMA FirstAndRest ==
  ASSUME NEW table, IsTable(table), table # <<>>
  PROVE  /\ 1 \in DOMAIN table /\ Head(table) = table[1] /\ IsTable(Tail(table))
         /\ \A i \in DOMAIN Tail(table) : \E k \in DOMAIN table : Tail(table)[i] = table[k]
<1> DEFINE Rows == {table[i] : i \in DOMAIN table}
<1>1. Len(table) \in Nat /\ DOMAIN table = 1..Len(table)
  BY TableDomain
<1>2. table = [i \in 1..Len(table) |-> table[i]]
  BY DEF IsTable
<1>3. \A i \in 1..Len(table) : table[i] \in Rows
  BY <1>1
<1>4. \A row \in Rows : \E k \in DOMAIN table : row = table[k]
  OBVIOUS
<1> HIDE DEF Rows
<1>5. table \in Seq(Rows)
  BY <1>1, <1>2, <1>3
<1>6. Len(table) # 0
  BY <1>5
<1>7. Tail(table) \in Seq(Rows) /\ Head(table) = table[1]
  BY <1>5, <1>6
<1>8. \A i \in DOMAIN Tail(table) : Tail(table)[i] \in Rows
  BY <1>7
<1>9. IsTable(Tail(table))
  BY <1>7, SequenceIsTable
<1>10. 1 \in DOMAIN table
  BY <1>1, <1>6
<1> QED BY <1>4, <1>7, <1>8, <1>9, <1>10

LEMMA StartsSound == Init => IInv
<1> SUFFICES ASSUME Init PROVE IInv
  OBVIOUS
<1>1. SoundCatalogue(catalogue) /\ AccountsOK(accounts)
  <2>1. SoundDepartments(StartCatalogue.departments)
    BY StartAssumption DEF SoundDepartments, CodesAgree, CatalogueOK, Range
  <2> QED BY <2>1, StartAssumption, EmptyTables DEF Init, SoundCatalogue
<1>2. last.ok \in BOOLEAN /\ runs \in 0..MaxRuns /\ job = NoJob
  BY FilesAssumption DEF Init, Nothing
<1> QED BY <1>1, <1>2 DEF IInv, TypeOK, JobOK, SoundCatalogue

(* A step that brings a sound database and a job in order.                   *)
LEMMA NextSound ==
  ASSUME SoundCatalogue(catalogue)', AccountsOK(accounts)', last'.ok \in BOOLEAN,
         runs' \in 0..MaxRuns, JobOK'
  PROVE  IInv'
BY DEF IInv, TypeOK, SoundCatalogue

LEMMA StartCounts ==
  ASSUME IInv, NEW command, Start(command)
  PROVE  runs' \in 0..MaxRuns /\ job = NoJob
BY FilesAssumption DEF IInv, TypeOK, Start, Idle

LEMMA CommitSound ==
  ASSUME IInv, NEW command, Start(command), NEW kind, NEW source, NEW tx, SoundTx(tx),
         Commit(kind, source, tx)
  PROVE  IInv'
<1>1. runs' \in 0..MaxRuns /\ job = NoJob
  BY StartCounts
<1>2. SoundCatalogue(catalogue)' /\ AccountsOK(accounts)'
  BY DEF IInv, TypeOK, Commit, SoundTx
<1>3. last'.ok \in BOOLEAN
  BY DEF Commit, SoundTx
<1>4. JobOK'
  BY <1>1 DEF Commit, JobOK
<1> QED BY <1>1, <1>2, <1>3, <1>4, NextSound

(* A command that only takes its files up.                                   *)
LEMMA BeginSound ==
  ASSUME IInv, NEW command, Start(command), UNCHANGED <<catalogue, accounts>>,
         last' = Nothing, JobOK'
  PROVE  IInv'
<1>1. runs' \in 0..MaxRuns
  BY StartCounts
<1>2. SoundCatalogue(catalogue)' /\ AccountsOK(accounts)'
  BY DEF IInv, TypeOK
<1>3. last'.ok \in BOOLEAN
  BY DEF Nothing
<1> QED BY <1>1, <1>2, <1>3, NextSound

LEMMA BeginDraftsSound ==
  ASSUME IInv, NEW name, BeginDrafts(name)
  PROVE  IInv'
<1>1. PICK semester :
        job' = [kind |-> "drafts", name |-> name, semester |-> semester, todo |-> Drafts]
  BY DEF BeginDrafts
<1>2. IsTable(Drafts) /\ Drafts # <<>>
  BY DraftsAssumption DEF Table
<1>3. job'.kind = "drafts" /\ DraftsUnderWay'
  BY <1>1, <1>2 DEF DraftsUnderWay, HasColumns
<1>4. JobOK'
  BY <1>3 DEF JobOK
<1> QED BY <1>4, BeginSound DEF BeginDrafts

LEMMA NextDraftSound ==
  ASSUME IInv, NextDraft
  PROVE  IInv'
<1> DEFINE tx == ImportDraft(catalogue, Head(job.todo), job.semester)
           rest == [job EXCEPT !.todo = Tail(@)]
<1>1. job.kind = "drafts" /\ DraftsUnderWay
  BY DEF NextDraft, IInv, JobOK, NoJob
<1>2. /\ 1 \in DOMAIN job.todo /\ Head(job.todo) = job.todo[1] /\ IsTable(Tail(job.todo))
      /\ \A i \in DOMAIN Tail(job.todo) :
           \E k \in DOMAIN job.todo : Tail(job.todo)[i] = job.todo[k]
  BY <1>1, FirstAndRest DEF DraftsUnderWay
<1>3. PICK k \in DOMAIN Drafts : Head(job.todo) = Drafts[k]
  BY <1>1, <1>2 DEF DraftsUnderWay
<1>4. tx.ok \in BOOLEAN /\ SoundCatalogue(tx.cat)
  BY <1>3, DraftSound DEF IInv
<1>5. /\ catalogue' = IF tx.ok THEN tx.cat ELSE catalogue
      /\ job' = IF tx.ok /\ rest.todo # <<>> THEN rest ELSE NoJob
      /\ last' = IF tx.ok /\ rest.todo # <<>> THEN Nothing
                 ELSE [kind |-> "drafts", source |-> job.semester, ok |-> tx.ok]
      /\ UNCHANGED <<accounts, runs>>
  BY DEF NextDraft
<1> HIDE DEF tx
<1>6. SoundCatalogue(catalogue)' /\ AccountsOK(accounts)' /\ runs' \in 0..MaxRuns
  BY <1>4, <1>5 DEF IInv, TypeOK
<1>7. last'.ok \in BOOLEAN
  BY <1>4, <1>5 DEF Nothing
<1>8. /\ rest.kind = "drafts" /\ rest.todo = Tail(job.todo)
      /\ HasColumns(rest, {"kind", "name", "semester", "todo"})
  BY <1>1 DEF DraftsUnderWay, HasColumns
<1>9. JobOK'
  <2>1. CASE tx.ok /\ rest.todo # <<>>
    <3>1. DraftsUnderWay'
      BY <1>1, <1>2, <1>5, <1>8, <2>1 DEF DraftsUnderWay
    <3> QED BY <1>5, <1>8, <2>1, <3>1 DEF JobOK
  <2>2. CASE ~(tx.ok /\ rest.todo # <<>>)
    BY <1>5, <2>2 DEF JobOK
  <2> QED BY <2>1, <2>2
<1> QED BY <1>6, <1>7, <1>9, NextSound

LEMMA BeginWorkloadSound ==
  ASSUME IInv, NEW include, BeginWorkload(include)
  PROVE  IInv'
<1>1. job' = [kind |-> "workload", include |-> include, todo |-> GroupOrder,
              counters |-> NewYearCounters, given |-> {}]
  BY DEF BeginWorkload
<1>2. IsTable(GroupOrder) /\ \A i \in DOMAIN GroupOrder : GroupOrder[i] \in Group
  BY FilesAssumption, AccountAssumption DEF Range
<1>3. Counters(NewYearCounters)
  BY DEF Counters, NewYearCounters
<1>4. job'.kind = "workload" /\ WorkloadUnderWay'
  BY <1>1, <1>2, <1>3 DEF WorkloadUnderWay, HasColumns
<1>5. JobOK'
  BY <1>4 DEF JobOK
<1> QED BY <1>5, BeginSound DEF BeginWorkload

LEMMA NextWorkloadGroupSound ==
  ASSUME IInv, NextWorkloadGroup
  PROVE  IInv'
<1> DEFINE g == Head(job.todo)
           tx == WorkloadGroup(accounts, job.counters, g)
           done == [job EXCEPT !.todo = Tail(@)]
<1>1. job.kind = "workload" /\ WorkloadUnderWay /\ job.todo # <<>>
  BY DEF NextWorkloadGroup, IInv, JobOK, NoJob
<1>2. /\ 1 \in DOMAIN job.todo /\ g = job.todo[1] /\ IsTable(Tail(job.todo))
      /\ \A i \in DOMAIN Tail(job.todo) :
           \E k \in DOMAIN job.todo : Tail(job.todo)[i] = job.todo[k]
  BY <1>1, FirstAndRest DEF WorkloadUnderWay
<1>3. g \in Group
  BY <1>1, <1>2 DEF WorkloadUnderWay
<1>4. /\ \/ accounts' = accounts /\ job' = done
         \/ accounts' = tx.accounts
            /\ job' = [done EXCEPT !.counters = tx.counters, !.given = @ \cup tx.mine]
      /\ UNCHANGED <<catalogue, last, runs>>
  BY DEF NextWorkloadGroup
<1> HIDE DEF g
<1>5. AccountsOK(tx.accounts) /\ Counters(tx.counters)
  BY <1>1, <1>3, WorkloadGroupSpares DEF IInv, TypeOK, WorkloadUnderWay, WorkloadOK
<1> HIDE DEF tx
<1>6. /\ done.kind = "workload" /\ done.todo = Tail(job.todo) /\ done.counters = job.counters
      /\ HasColumns(done, {"kind", "include", "todo", "counters", "given"})
  BY <1>1 DEF WorkloadUnderWay, HasColumns
<1> HIDE DEF done
<1>7. /\ SoundCatalogue(catalogue)' /\ AccountsOK(accounts)' /\ runs' \in 0..MaxRuns
      /\ last'.ok \in BOOLEAN
  BY <1>4, <1>5 DEF IInv, TypeOK
<1>8. /\ job'.kind = "workload" /\ job'.todo = Tail(job.todo) /\ Counters(job'.counters)
      /\ HasColumns(job', {"kind", "include", "todo", "counters", "given"})
  <2>1. CASE job' = done
    BY <1>1, <1>6, <2>1 DEF WorkloadUnderWay
  <2>2. CASE job' = [done EXCEPT !.counters = tx.counters, !.given = @ \cup tx.mine]
    BY <1>5, <1>6, <2>2 DEF HasColumns
  <2> QED BY <1>4, <2>1, <2>2
<1>9. WorkloadUnderWay'
  BY <1>1, <1>2, <1>8 DEF WorkloadUnderWay
<1> QED BY <1>7, <1>8, <1>9, NextSound DEF JobOK

LEMMA BeginDekanatSound ==
  ASSUME IInv, NEW file, BeginDekanat(file)
  PROVE  IInv'
<1>1. job' = [kind |-> "dekanat", file |-> file, todo |-> file.rows, email |-> None]
  BY DEF BeginDekanat
<1>2. job'.kind = "dekanat" /\ DekanatUnderWay'
  BY <1>1 DEF DekanatUnderWay, HasColumns
<1>3. JobOK'
  BY <1>2 DEF JobOK
<1> QED BY <1>3, BeginSound DEF BeginDekanat

LEMMA RowDoneKeeps ==
  ASSUME IInv, DekanatUnderWay, job.kind = "dekanat", NEW ok \in BOOLEAN, RowDone(ok)
  PROVE  JobOK' /\ last'.ok \in BOOLEAN /\ runs' \in 0..MaxRuns
<1> DEFINE rest == [job EXCEPT !.todo = Tail(@), !.email = None]
<1>1. /\ rest.kind = "dekanat" /\ rest.email = None
      /\ HasColumns(rest, {"kind", "file", "todo", "email"})
  BY DEF DekanatUnderWay, HasColumns
<1>2. /\ job' = IF ok /\ rest.todo # <<>> THEN rest ELSE NoJob
      /\ last' = IF ok /\ rest.todo # <<>> THEN Nothing
                 ELSE [kind |-> "dekanat", source |-> job.file, ok |-> ok]
      /\ runs' = runs
  BY DEF RowDone
<1> HIDE DEF rest
<1>3. last'.ok \in BOOLEAN /\ runs' \in 0..MaxRuns
  BY <1>2 DEF Nothing, IInv, TypeOK
<1>4. CASE job' = rest
  BY <1>1, <1>3, <1>4 DEF JobOK, DekanatUnderWay
<1>5. CASE job' = NoJob
  BY <1>3, <1>5 DEF JobOK
<1> QED BY <1>2, <1>4, <1>5

LEMMA DekanatJob ==
  ASSUME IInv, job.kind = "dekanat"
  PROVE  DekanatUnderWay
BY DEF IInv, JobOK, NoJob

LEMMA SaveUserSound ==
  ASSUME IInv, SaveUser
  PROVE  IInv'
<1>1. job.kind = "dekanat" /\ DekanatUnderWay
  BY DekanatJob DEF SaveUser
<1>2. /\ accounts' = UpsertUser(accounts, Row)
      /\ job' = [job EXCEPT !.email = RowEmail(accounts, Row)]
      /\ UNCHANGED <<catalogue, last, runs>>
  BY DEF SaveUser
<1>3. PICK row : row = Row
  OBVIOUS
<1>4. AccountsOK(accounts)' /\ ByEmail(accounts', RowEmail(accounts, row)) # {}
  BY <1>2, <1>3, UserUpserted DEF IInv, TypeOK
<1>5. /\ job'.kind = "dekanat" /\ job'.email = RowEmail(accounts, row)
      /\ HasColumns(job', {"kind", "file", "todo", "email"})
  BY <1>1, <1>2, <1>3 DEF DekanatUnderWay, HasColumns
<1>6. JobOK'
  BY <1>4, <1>5 DEF JobOK, DekanatUnderWay
<1>7. SoundCatalogue(catalogue)' /\ last'.ok \in BOOLEAN /\ runs' \in 0..MaxRuns
  BY <1>2 DEF IInv, TypeOK
<1> QED BY <1>4, <1>6, <1>7, NextSound

LEMMA SaveProfileSound ==
  ASSUME IInv, SaveProfile
  PROVE  IInv'
<1>1. job.kind = "dekanat" /\ DekanatUnderWay /\ job.email # None
  BY DekanatJob DEF SaveProfile
<1>2. PICK row : row = Row
  OBVIOUS
<1>3. \/ accounts' = StudentProfile(accounts, row, job.email, DOMAIN catalogue.groups)
      \/ accounts' = StaffProfile(accounts, row, job.email, catalogue)
  BY <1>2 DEF SaveProfile
<1>4. AccountsOK(accounts) /\ ByEmail(accounts, job.email) # {}
  BY <1>1 DEF IInv, TypeOK, DekanatUnderWay
<1>5. AccountsOK(accounts)'
  BY <1>3, <1>4, StudentProfileKeeps, StaffProfileKeeps
<1>6. RowDone(TRUE) /\ SoundCatalogue(catalogue)'
  BY DEF SaveProfile, IInv
<1>7. JobOK' /\ last'.ok \in BOOLEAN /\ runs' \in 0..MaxRuns
  BY <1>1, <1>6, RowDoneKeeps
<1> QED BY <1>5, <1>6, <1>7, NextSound

LEMMA CatalogueRowSound ==
  ASSUME NEW cat, SoundCatalogue(cat), NEW type, NEW row
  PROVE  LET result == CatalogueRow(cat, type, row)
         IN result.ok \in BOOLEAN /\ SoundCatalogue(result.cat)
<1>1. CASE type = "disciplines"
  BY <1>1, DekanatDisciplineSound DEF CatalogueRow
<1>2. CASE type # "disciplines"
  <2>1. PICK new : /\ CatalogueRow(cat, type, row) = [ok |-> TRUE, cat |-> new]
                   /\ new \in {DekanatGroup(cat, row.group), DekanatCurriculum(cat, row),
                               DekanatLabBinding(cat, row)}
    BY <1>2 DEF CatalogueRow
  <2>2. SoundCatalogue(new)
    BY <2>1, DekanatGroupSound, DekanatCurriculumSound, DekanatLabBindingSound
  <2> QED BY <2>1, <2>2
<1> QED BY <1>1, <1>2

LEMMA SaveCatalogueRowSound ==
  ASSUME IInv, SaveCatalogueRow
  PROVE  IInv'
<1>1. job.kind = "dekanat" /\ DekanatUnderWay
  BY DekanatJob DEF SaveCatalogueRow
<1>2. PICK result : result = CatalogueRow(catalogue, job.file.type, Row)
  OBVIOUS
<1>3. /\ catalogue' = IF result.ok THEN result.cat ELSE catalogue
      /\ RowDone(result.ok) /\ accounts' = accounts
  BY <1>2 DEF SaveCatalogueRow
<1>4. result.ok \in BOOLEAN /\ SoundCatalogue(result.cat)
  BY <1>2, CatalogueRowSound DEF IInv
<1>5. SoundCatalogue(catalogue)' /\ AccountsOK(accounts)'
  BY <1>3, <1>4 DEF IInv, TypeOK
<1>6. JobOK' /\ last'.ok \in BOOLEAN /\ runs' \in 0..MaxRuns
  BY <1>1, <1>3, <1>4, RowDoneKeeps
<1> QED BY <1>5, <1>6, NextSound

LEMMA KeptSound ==
  ASSUME IInv, UNCHANGED <<catalogue, accounts, runs>>, job' = NoJob,
         last' = Nothing \/ last' = last
  PROVE  IInv'
<1>1. SoundCatalogue(catalogue)' /\ AccountsOK(accounts)' /\ runs' \in 0..MaxRuns
  BY DEF IInv, TypeOK
<1>2. JobOK'
  BY DEF JobOK
<1>3. last.ok \in BOOLEAN /\ Nothing.ok \in BOOLEAN
  BY DEF IInv, TypeOK, Nothing
<1>4. last'.ok \in BOOLEAN
  BY <1>3
<1> QED BY <1>1, <1>2, <1>4, NextSound

LEMMA RepairStepSound ==
  ASSUME IInv, NEW center, Repair(center)
  PROVE  IInv'
<1>1. runs' \in 0..MaxRuns /\ job = NoJob
  BY StartCounts DEF Repair
<1>2. SoundCatalogue(catalogue)' /\ AccountsOK(accounts)'
  BY RepairSound DEF Repair, IInv, TypeOK
<1>3. JobOK' /\ last'.ok \in BOOLEAN
  BY <1>1 DEF Repair, JobOK, Nothing
<1> QED BY <1>1, <1>2, <1>3, NextSound

-------------------------------------------------------------------------------
(* The theorems                                                              *)

LEMMA StepSound == IInv /\ [Next]_vars => IInv'
<1> SUFFICES ASSUME IInv, [Next]_vars PROVE IInv'
  OBVIOUS
<1>1. ASSUME NEW source \in Journals, ImportLrAccounting(source)
      PROVE  IInv'
  <2>1. SoundTx(ImportJournals(catalogue, accounts, source))
    BY JournalsSound DEF IInv, TypeOK
  <2> QED BY <1>1, <2>1, CommitSound DEF ImportLrAccounting
<1>2. ASSUME NEW source \in OrgFiles, ImportStudlabOrg(source)
      PROVE  IInv'
  <2>1. SoundTx(ImportOrg(catalogue, accounts, source))
    BY OrgSound DEF IInv, TypeOK
  <2> QED BY <1>2, <2>1, CommitSound DEF ImportStudlabOrg
<1>3. ASSUME NEW name \in DraftSemesters, BeginDrafts(name)
      PROVE  IInv'
  BY <1>3, BeginDraftsSound
<1>4. CASE NextDraft
  BY <1>4, NextDraftSound
<1>5. ASSUME NEW include \in BOOLEAN, BeginWorkload(include)
      PROVE  IInv'
  BY <1>5, BeginWorkloadSound
<1>6. CASE NextWorkloadGroup
  BY <1>6, NextWorkloadGroupSound
<1>7. CASE EndWorkload
  BY <1>7, KeptSound DEF EndWorkload
<1>8. ASSUME NEW file \in DekanatFiles, BeginDekanat(file)
      PROVE  IInv'
  BY <1>8, BeginDekanatSound
<1>9. CASE SaveUser
  BY <1>9, SaveUserSound
<1>10. CASE SaveProfile
  BY <1>10, SaveProfileSound
<1>11. CASE SaveCatalogueRow
  BY <1>11, SaveCatalogueRowSound
<1>12. ASSUME NEW center \in RepairCenters, Repair(center)
       PROVE  IInv'
  BY <1>12, RepairStepSound
<1>13. CASE Killed
  BY <1>13, KeptSound DEF Killed
<1>14. CASE UNCHANGED vars
  <2>1. JobOK'
    BY <1>14 DEF vars, IInv, JobOK, DraftsUnderWay, WorkloadUnderWay, DekanatUnderWay
  <2>2. /\ SoundCatalogue(catalogue)' /\ AccountsOK(accounts)' /\ last'.ok \in BOOLEAN
        /\ runs' \in 0..MaxRuns
    BY <1>14 DEF vars, IInv, TypeOK
  <2> QED BY <2>1, <2>2, NextSound
<1> QED BY <1>1, <1>2, <1>3, <1>4, <1>5, <1>6, <1>7, <1>8, <1>9, <1>10, <1>11, <1>12, <1>13,
           <1>14 DEF Next

LEMMA AlwaysSound == Spec => []IInv
BY StartsSound, StepSound, PTL DEF Spec

(* What the database demands of its tables holds after every commit of every *)
(* import command, whatever the files say and wherever a command is killed:  *)
(* no row refers to a row that is gone, no lab work has a duration the       *)
(* constraint refuses or no discipline, no address has two accounts.         *)
THEOREM TypeCorrect == Spec => []TypeOK
<1>1. IInv => TypeOK
  BY DEF IInv
<1> QED BY <1>1, AlwaysSound, PTL

(* No import leaves a room with two lab works of one normalized title.       *)
THEOREM WorksStayUnique == Spec => []OneWorkPerTitleAndRoom
<1>1. IInv => OneWorkPerTitleAndRoom
  BY DEF IInv, SoundCatalogue, OneWorkPerTitleAndRoom
<1> QED BY <1>1, AlwaysSound, PTL

(* Every lab work of a group's plan shares a discipline with the group, so   *)
(* that create_booking would take it.                                        *)
THEOREM PlansStayBookable == Spec => []PlanWorksBookable
<1>1. IInv => PlanWorksBookable
  BY DEF IInv, SoundCatalogue, PlanWorksBookable
<1> QED BY <1>1, AlwaysSound, PTL

(* What a run has given it has counted, if groups without a year do not meet *)
(* groups of year 99.                                                        *)
LEMMA GivenStaysCounted ==
  ASSUME YearsApart, IInv, GivenCounted, [Next]_vars
  PROVE  /\ GivenCounted'
         /\ job.kind = "workload" =>
              \A i \in DOMAIN accounts :
                accounts[i].email \in job.given => accounts'[i].group = accounts[i].group
<1> DEFINE Kept == job.kind = "workload" =>
              \A i \in DOMAIN accounts :
                accounts[i].email \in job.given => accounts'[i].group = accounts[i].group
<1>1. CASE job' = job /\ accounts' = accounts
  BY <1>1 DEF GivenCounted
<1>2. CASE job'.kind # "workload" /\ (job.kind # "workload" \/ accounts' = accounts)
  BY <1>2 DEF GivenCounted
<1>3. CASE NextWorkloadGroup
  <2> DEFINE g == Head(job.todo)
             tx == WorkloadGroup(accounts, job.counters, g)
             done == [job EXCEPT !.todo = Tail(@)]
  <2>1. job.kind = "workload" /\ WorkloadUnderWay /\ job.todo # <<>>
    BY <1>3 DEF NextWorkloadGroup, IInv, JobOK, NoJob
  <2>2. g \in Group
    <3>1. 1 \in DOMAIN job.todo /\ g = job.todo[1]
      BY <2>1, FirstAndRest DEF WorkloadUnderWay
    <3> QED BY <2>1, <3>1 DEF WorkloadUnderWay
  <2>3. \/ accounts' = accounts /\ job' = done
        \/ accounts' = tx.accounts
           /\ job' = [done EXCEPT !.counters = tx.counters, !.given = @ \cup tx.mine]
    BY <1>3 DEF NextWorkloadGroup
  <2> HIDE DEF g
  <2>4. /\ \A e \in tx.mine : Spent(tx.counters, e)
        /\ \A e : Spent(job.counters, e) => Spent(tx.counters, e)
        /\ \A i \in DOMAIN accounts :
             Spent(job.counters, accounts[i].email) => tx.accounts[i] = accounts[i]
    BY <2>1, <2>2, WorkloadGroupSpares DEF IInv, TypeOK, WorkloadUnderWay, WorkloadOK
  <2> HIDE DEF tx
  <2>5. /\ done.kind = "workload" /\ done.counters = job.counters /\ done.given = job.given
        /\ HasColumns(done, {"kind", "include", "todo", "counters", "given"})
    BY <2>1 DEF WorkloadUnderWay, HasColumns
  <2> HIDE DEF done
  <2>6. \A e \in job.given : Spent(job.counters, e)
    BY <2>1 DEF GivenCounted
  <2>7. CASE accounts' = accounts /\ job' = done
    BY <2>5, <2>6, <2>7 DEF GivenCounted
  <2>8. CASE accounts' = tx.accounts
             /\ job' = [done EXCEPT !.counters = tx.counters, !.given = @ \cup tx.mine]
    <3>1. job'.counters = tx.counters /\ job'.given = job.given \cup tx.mine
      BY <2>5, <2>8 DEF HasColumns
    <3> QED BY <2>4, <2>6, <2>8, <3>1 DEF GivenCounted
  <2> QED BY <2>3, <2>7, <2>8
<1>4. CASE \E include \in BOOLEAN : BeginWorkload(include)
  <2>1. job'.given = {} /\ job.kind # "workload"
    BY <1>4 DEF BeginWorkload, Start, Idle, NoJob
  <2> QED BY <2>1 DEF GivenCounted
<1>5. CASE UNCHANGED vars
  BY <1>1, <1>5 DEF vars
<1>6. CASE (\E source \in Journals : ImportLrAccounting(source))
             \/ (\E source \in OrgFiles : ImportStudlabOrg(source))
             \/ (\E center \in RepairCenters : Repair(center))
  <2>1. job' = job /\ job = NoJob
    BY <1>6 DEF ImportLrAccounting, ImportStudlabOrg, Commit, Repair, Start, Idle
  <2> QED BY <1>2, <2>1 DEF NoJob
<1>7. CASE (\E name \in DraftSemesters : BeginDrafts(name))
             \/ (\E file \in DekanatFiles : BeginDekanat(file))
  <2>1. job = NoJob /\ job'.kind \in {"drafts", "dekanat"}
    BY <1>7 DEF BeginDrafts, BeginDekanat, Start, Idle
  <2> QED BY <1>2, <2>1 DEF NoJob
<1>8. CASE EndWorkload \/ Killed
  <2>1. job' = NoJob /\ accounts' = accounts
    BY <1>8 DEF EndWorkload, Killed
  <2> QED BY <1>2, <2>1 DEF NoJob
<1>9. CASE NextDraft
  <2>1. job.kind = "drafts" /\ job'.kind # "workload"
    <3>1. job.kind = "drafts" /\ DraftsUnderWay
      BY <1>9 DEF NextDraft, IInv, JobOK, NoJob
    <3> QED BY <1>9, <3>1 DEF NextDraft, DraftsUnderWay, HasColumns, NoJob
  <2> QED BY <1>2, <2>1
<1>10. CASE SaveUser \/ SaveProfile \/ SaveCatalogueRow
  <2>1. job.kind = "dekanat" /\ DekanatUnderWay
    BY <1>10, DekanatJob DEF SaveUser, SaveProfile, SaveCatalogueRow
  <2>2. job'.kind # "workload"
    <3> DEFINE rest == [job EXCEPT !.todo = Tail(@), !.email = None]
               addressed == [job EXCEPT !.email = RowEmail(accounts, Row)]
    <3>1. rest.kind = "dekanat" /\ addressed.kind = "dekanat"
      BY <2>1 DEF DekanatUnderWay, HasColumns
    <3>2. job' \in {rest, addressed, NoJob}
      BY <1>10 DEF SaveUser, SaveProfile, SaveCatalogueRow, RowDone
    <3> HIDE DEF rest, addressed
    <3> QED BY <3>1, <3>2 DEF NoJob
  <2> QED BY <1>2, <2>1, <2>2
<1> QED BY <1>3, <1>4, <1>5, <1>6, <1>7, <1>8, <1>9, <1>10 DEF Next

(* A run of generate_workload_students never moves an account it has given   *)
(* to another group, if groups without a year do not meet groups of year 99: *)
(* the two would share the numbers of s99....                                *)
THEOREM RunKeepsStudents ==
  ASSUME YearsApart
  PROVE  Spec => RunKeepsItsStudents
<1>1. Init => GivenCounted
  BY DEF Init, NoJob, GivenCounted
<1>2. IInv /\ GivenCounted /\ [Next]_vars => GivenCounted'
  BY GivenStaysCounted
<1>3. IInv /\ GivenCounted /\ [Next]_vars
        => [job.kind = "workload" =>
              \A i \in DOMAIN accounts :
                accounts[i].email \in job.given => accounts'[i].group = accounts[i].group]_vars
  BY GivenStaysCounted
<1> QED BY <1>1, <1>2, <1>3, AlwaysSound, PTL DEF Spec, RunKeepsItsStudents

-------------------------------------------------------------------------------
(* The parser of the journals                                                *)

LEMMA GreatestOf ==
  ASSUME NEW S, S \subseteq Nat, S # {}, NEW bound \in Nat, \A n \in S : n <= bound
  PROVE  Max(S) \in S /\ \A n \in S : n <= Max(S)
<1> DEFINE T == {bound - n : n \in S}
<1>1. T \subseteq Nat /\ T # {}
  <2>1. \A n \in S : n \in Nat /\ bound - n \in Nat
    OBVIOUS
  <2> QED BY <2>1
<1>2. PICK k \in T : \A m \in T : k <= m
  BY <1>1, Numbers!LeastNat
<1>3. PICK n \in S : k = bound - n
  BY <1>2
<1>4. \A m \in S : n >= m
  BY <1>2, <1>3
<1> QED BY <1>3, <1>4 DEF Max

(* Of a finite set of numbers the n-th from the left is one and only one.    *)
Rank(S, c) == Cardinality({k \in S : k <= c})

LEMMA RankOf ==
  ASSUME NEW S, S \subseteq Nat, IsFiniteSet(S), NEW c \in S
  PROVE  /\ Rank(S, c) \in 1..Cardinality(S)
         /\ \A d \in S : Rank(S, d) = Rank(S, c) => d = c
<1> DEFINE UpTo(d) == {k \in S : k <= d}
<1>1. \A d \in S : IsFiniteSet(UpTo(d)) /\ Cardinality(UpTo(d)) \in Nat
  BY FS_Subset, FS_CardinalityType
<1>2. Cardinality(S) \in Nat /\ Cardinality(UpTo(c)) <= Cardinality(S)
  BY FS_Subset, FS_CardinalityType
<1>3. c \in UpTo(c)
  OBVIOUS
<1>4. Cardinality(UpTo(c)) # 0
  BY <1>1, <1>3, FS_EmptySet
<1>5. \A a, b \in S : a < b => Cardinality(UpTo(a)) # Cardinality(UpTo(b))
  <2> SUFFICES ASSUME NEW a \in S, NEW b \in S, a < b
               PROVE  Cardinality(UpTo(a)) # Cardinality(UpTo(b))
    OBVIOUS
  <2>1. UpTo(a) \in SUBSET UpTo(b)
    <3>1. a \in Nat /\ b \in Nat /\ \A k \in S : k \in Nat
      OBVIOUS
    <3>2. \A k \in S : k <= a => k <= b
      BY <3>1
    <3> QED BY <3>2
  <2>2. b \in UpTo(b) /\ b \notin UpTo(a)
    OBVIOUS
  <2> HIDE DEF UpTo
  <2> QED BY <1>1, <2>1, <2>2, FS_Subset
<1> HIDE DEF UpTo
<1>6. \A d \in S : Rank(S, d) = Cardinality(UpTo(d))
  BY DEF Rank, UpTo
<1>7. \A d \in S : d \in Nat
  OBVIOUS
<1>8. Rank(S, c) \in 1..Cardinality(S)
  BY <1>1, <1>2, <1>4, <1>6
<1>9. ASSUME NEW d \in S, Rank(S, d) = Rank(S, c), d # c
      PROVE  FALSE
  <2>1. d < c \/ c < d
    BY <1>7, <1>9
  <2> QED BY <1>5, <1>6, <1>9, <2>1
<1> QED BY <1>8, <1>9

(* Where the headings are found: every other row of the sheet has neither a  *)
(* discipline nor a lab work, and there are more lab works than headings or  *)
(* the headings stand where they are looked for in vain.                     *)
LEMMA LayoutFound ==
  ASSUME NEW rows, IsTable(rows), NEW head \in 1..6, NEW gap \in 1..2,
         head + gap \in DOMAIN rows, \A r \in DOMAIN rows : IsTable(rows[r]),
         \A r \in DOMAIN rows \ {head, head + gap} : ColumnsOf(rows[r], IsData) = {},
         ColumnsOf(rows[head], LooksLikeDiscipline) # {},
         DataCells(rows[head + gap]) > DataCells(rows[head]) \/ <<head, gap>> = <<2, 1>>
  PROVE  HeaderLayout(rows) = <<head, head + gap>>
<1> DEFINE heads == {d \in DOMAIN rows : /\ d <= 6
                                         /\ ColumnsOf(rows[d], LooksLikeDiscipline) # {}
                                         /\ LabRows(rows, d) # {}}
           below == head + gap
<1>1. Len(rows) \in Nat /\ DOMAIN rows = 1..Len(rows)
  BY TableDomain
<1>2. HeaderLayout(rows) = IF heads = {} THEN <<2, 3>>
                           ELSE <<Min(heads), Min(LabRows(rows, Min(heads)))>>
  BY DEF HeaderLayout
<1>3. \A r \in DOMAIN rows : DataCells(rows[r]) \in Nat
  <2> SUFFICES ASSUME NEW r \in DOMAIN rows PROVE DataCells(rows[r]) \in Nat
    OBVIOUS
  <2>1. ColumnsOf(rows[r], IsData) \subseteq DOMAIN rows[r]
    BY DEF ColumnsOf
  <2> QED BY <2>1, FiniteRows DEF DataCells
<1>4. \A r \in DOMAIN rows \ {head, below} :
         DataCells(rows[r]) = 0 /\ ColumnsOf(rows[r], LooksLikeDiscipline) = {}
  <2> SUFFICES ASSUME NEW r \in DOMAIN rows \ {head, below}
               PROVE  DataCells(rows[r]) = 0 /\ ColumnsOf(rows[r], LooksLikeDiscipline) = {}
    OBVIOUS
  <2>1. ColumnsOf(rows[r], IsData) = {}
    OBVIOUS
  <2> QED BY <2>1, FS_EmptySet DEF DataCells, ColumnsOf, LooksLikeDiscipline, IsData
<1>5. LabRows(rows, below) = {}
  <2> SUFFICES ASSUME NEW l \in LabRows(rows, below) PROVE FALSE
    OBVIOUS
  <2>1. l \in DOMAIN rows /\ l \in {below + 1, below + 2}
        /\ DataCells(rows[l]) > DataCells(rows[below])
    BY DEF LabRows
  <2>2. DataCells(rows[l]) = 0
    BY <1>1, <1>4, <2>1
  <2> QED BY <1>3, <2>1, <2>2
<1>6. LabRows(rows, head) \subseteq {below}
  <2> SUFFICES ASSUME NEW l \in LabRows(rows, head), l # below PROVE FALSE
    OBVIOUS
  <2>1. l \in DOMAIN rows /\ l \in {head + 1, head + 2}
        /\ DataCells(rows[l]) > DataCells(rows[head])
    BY DEF LabRows
  <2>2. DataCells(rows[l]) = 0
    BY <1>1, <1>4, <2>1
  <2>3. head \in DOMAIN rows
    BY <1>1
  <2> QED BY <1>3, <2>1, <2>2, <2>3
<1>7. heads \subseteq {head}
  BY <1>4, <1>5
<1>8. head \in heads <=> DataCells(rows[below]) > DataCells(rows[head])
  <2>1. head \in DOMAIN rows /\ head <= 6
    BY <1>1
  <2>2. below \in LabRows(rows, head) <=> DataCells(rows[below]) > DataCells(rows[head])
    BY DEF LabRows
  <2> QED BY <1>6, <2>1, <2>2
<1> HIDE DEF heads
<1>9. CASE heads = {}
  BY <1>2, <1>8, <1>9
<1>10. CASE heads # {}
  <2>1. heads = {head}
    BY <1>7, <1>10
  <2>2. Min(heads) = head
    <3>1. heads \subseteq Nat
      BY <1>7
    <3>2. Min(heads) \in heads
      BY <1>10, <3>1, LeastOf
    <3> QED BY <2>1, <3>2
  <2>3. LabRows(rows, head) = {below}
    <3>1. LabRows(rows, head) # {}
      BY <2>1 DEF heads
    <3> QED BY <1>6, <3>1
  <2>4. Min({below}) = below
    <3>1. below \in Nat
      OBVIOUS
    <3>2. Min({below}) \in {below}
      BY <3>1, LeastOf
    <3> QED BY <3>2
  <2> QED BY <1>2, <1>10, <2>2, <2>3, <2>4
<1> QED BY <1>9, <1>10

(* Every title is read once, whatever the columns.                           *)
LEMMA TitlesRead ==
  ASSUME NEW rows, NEW titles, titles = rows[HeaderLayout(rows)[2]], IsTable(titles)
  PROVE  /\ Len(ParsedWorks(rows)) = DataCells(titles)
         /\ \A c \in ColumnsOf(titles, IsData) : \E i \in DOMAIN ParsedWorks(rows) :
              ParsedWorks(rows)[i] =
                [discipline |-> DisciplineFor(rows[HeaderLayout(rows)[1]], c),
                 title |-> titles[c].text, minutes |-> Duration(rows, c), stand |-> None]
<1> DEFINE columns == ColumnsOf(titles, IsData)
           Nth(n) == CHOOSE c \in columns : Rank(columns, c) = n
           Read(c) == [discipline |-> DisciplineFor(rows[HeaderLayout(rows)[1]], c),
                       title |-> titles[c].text, minutes |-> Duration(rows, c), stand |-> None]
<1>1. columns \subseteq Nat /\ IsFiniteSet(columns)
  <2>1. DOMAIN titles = 1..Len(titles) /\ Len(titles) \in Nat
    BY TableDomain
  <2>2. columns \subseteq DOMAIN titles
    BY DEF ColumnsOf
  <2> QED BY <2>1, <2>2, FiniteRows
<1>2. DataCells(titles) = Cardinality(columns) /\ DataCells(titles) \in Nat
  BY <1>1, FS_CardinalityType DEF DataCells
<1>3. ParsedWorks(rows) = [i \in 1..DataCells(titles) |-> Read(Nth(i))]
  BY DEF ParsedWorks, Rank
<1> HIDE DEF columns, Read
<1>4. DOMAIN ParsedWorks(rows) = 1..DataCells(titles)
  BY <1>3
<1>5. Len(ParsedWorks(rows)) = DataCells(titles)
  BY <1>2, <1>3
<1>6. ASSUME NEW c \in columns
      PROVE  \E i \in DOMAIN ParsedWorks(rows) : ParsedWorks(rows)[i] = Read(c)
  <2>1. Rank(columns, c) \in 1..DataCells(titles)
        /\ \A d \in columns : Rank(columns, d) = Rank(columns, c) => d = c
    BY <1>1, <1>2, <1>6, RankOf
  <2>2. Nth(Rank(columns, c)) = c
    BY <1>6, <2>1
  <2> QED BY <1>3, <1>4, <2>1, <2>2
<1> QED BY <1>5, <1>6 DEF columns, Read

(* A row of headings or titles in the columns of C and nothing else.         *)
LineOf(width, C) == [c \in 1..width |-> IF c \in C THEN Cell("long", c) ELSE Cell("empty", 0)]

LEMMA LineColumns ==
  ASSUME NEW width \in Nat, NEW C \in SUBSET (3..width)
  PROVE  /\ ColumnsOf(LineOf(width, C), IsData) = C
         /\ ColumnsOf(LineOf(width, C), LooksLikeDiscipline) = C
         /\ \A c \in C : LineOf(width, C)[c].text = c
<1>1. \A c \in C : c \in 1..width /\ c >= 3
  OBVIOUS
<1>2. DOMAIN LineOf(width, C) = 1..width
  BY DEF LineOf
<1>3. \A c \in 1..width : LineOf(width, C)[c].kind = IF c \in C THEN "long" ELSE "empty"
  BY DEF LineOf, Cell
<1>4. \A c \in C : LineOf(width, C)[c].text = c
  BY <1>1 DEF LineOf, Cell
<1> QED BY <1>1, <1>2, <1>3, <1>4 DEF ColumnsOf, IsData, LooksLikeDiscipline

LEMMA HeadingFound ==
  ASSUME NEW width \in Nat, NEW heads \in SUBSET (3..width), NEW c \in 3..width
  PROVE  Nearest(heads, c, DisciplineFor(LineOf(width, heads), c))
<1> DEFINE row == LineOf(width, heads)
           left == {k \in heads : k <= c}
<1>1. {k \in ColumnsOf(row, LooksLikeDiscipline) : k <= c} = left
  BY LineColumns
<1>2. DisciplineFor(row, c) = IF left = {} THEN None ELSE row[Max(left)].text
  BY <1>1 DEF DisciplineFor
<1>3. CASE left = {}
  BY <1>2, <1>3 DEF Nearest
<1>4. CASE left # {}
  <2>1. left \subseteq Nat /\ c \in Nat /\ \A n \in left : n <= c
    <3>1. c \in Nat /\ \A k \in heads : k \in Nat
      OBVIOUS
    <3> QED BY <3>1
  <2>2. Max(left) \in left /\ \A n \in left : n <= Max(left)
    BY <1>4, <2>1, GreatestOf
  <2> DEFINE d == Max(left)
  <2> HIDE DEF d
  <2>3. d \in left /\ \A n \in left : n <= d
    BY <2>2 DEF d
  <2>4. DisciplineFor(row, c) = d
    BY <1>2, <1>4, <2>3, LineColumns DEF d
  <2>5. ASSUME NEW k \in heads, d < k, k <= c
        PROVE  FALSE
    <3>1. k \in left
      BY <2>5
    <3>2. k <= d /\ k \in Nat /\ d \in Nat
      BY <2>1, <2>3, <3>1
    <3> QED BY <2>5, <3>2
  <2>6. d \in heads /\ d <= c
    BY <2>3
  <2> QED BY <2>4, <2>5, <2>6 DEF Nearest
<1> QED BY <1>3, <1>4

(* Only the last row of such a journal is one of times, and it has one for   *)
(* every column but those of the words.                                      *)
LEMMA MinutesFound ==
  ASSUME NEW rows, IsTable(rows), NEW width \in Nat, width >= 3,
         NEW times \in DOMAIN rows, NEW c \in 3..width,
         \A r \in DOMAIN rows : Len(rows[r]) = width /\ (rows[r][3].kind = "time" <=> r = times),
         \A k \in 4..width : rows[times][k] = Cell("number", k)
  PROVE  Duration(rows, c) = IF c = 3 THEN 0 ELSE c
<1> DEFINE timed == {i \in DOMAIN rows : /\ Len(rows[i]) >= c /\ rows[i][3].kind = "time"
                                         /\ rows[i][c].kind = "number" /\ rows[i][c].text # 0}
<1>1. Duration(rows, c) = IF c < 4 \/ timed = {} THEN 0 ELSE rows[Max(timed)][c].text
  BY DEF Duration
<1>2. CASE c = 3
  BY <1>1, <1>2
<1>3. CASE c # 3
  <2>1. c \in 4..width /\ ~(c < 4) /\ c # 0
    BY <1>3
  <2>2. rows[times][c].kind = "number" /\ rows[times][c].text = c
    <3>1. rows[times][c] = Cell("number", c)
      BY <2>1
    <3> QED BY <3>1 DEF Cell
  <2>3. timed = {times}
    BY <2>1, <2>2
  <2>4. times \in Nat
    BY TableDomain
  <2>5. Max({times}) = times
    <3>1. {times} \subseteq Nat /\ {times} # {} /\ \A n \in {times} : n <= times
      BY <2>4
    <3>2. Max({times}) \in {times}
      BY <2>4, <3>1, GreatestOf
    <3> QED BY <3>2
  <2> QED BY <1>1, <1>3, <2>1, <2>2, <2>3, <2>5
<1> QED BY <1>2, <1>3

(* Journals of any width, with the headings in any of the six rows that      *)
(* detect_header_layout looks at: nothing is lost, nothing misplaced.        *)
THEOREM EveryJournalRead ==
  ASSUME NEW width \in Nat, width >= 3, NEW head \in 1..6, NEW gap \in 1..2,
         NEW heads \in SUBSET (3..width), NEW titles \in SUBSET (3..width)
  PROVE  JournalRead(width, head, gap, heads, titles)
<1> DEFINE rows == JournalRows(width, head, gap, heads, titles)
           below == head + gap
           end == head + gap + 1
           works == ParsedWorks(rows)
<1> SUFFICES ASSUME heads # {},
                    Cardinality(titles) > Cardinality(heads) \/ <<head, gap>> = <<2, 1>>
             PROVE  /\ Len(works) = Cardinality(titles)
                    /\ \A c \in titles : \E i \in DOMAIN works :
                         /\ works[i].title = c /\ Nearest(heads, c, works[i].discipline)
                         /\ works[i].minutes = IF c = 3 THEN 0 ELSE c
  BY DEF JournalRead
<1>1. head \in 1..end /\ below \in 1..end /\ end \in 1..end /\ end \in Nat /\ head # below
  OBVIOUS
<1>2. /\ DOMAIN rows = 1..end
      /\ rows[head] = LineOf(width, heads) /\ rows[below] = LineOf(width, titles)
      /\ \A r \in 1..end \ {head, below} :
           rows[r] = [c \in 1..width |->
                        Cell(IF r > below /\ c = 3 THEN "time" ELSE "number", c)]
  BY <1>1 DEF JournalRows, LineOf
<1>3. IsTable(rows)
  <2>1. rows = [r \in 1..end |-> rows[r]]
    BY DEF JournalRows
  <2> HIDE DEF rows
  <2> QED BY <1>1, <2>1, TableOf
<1> HIDE DEF rows
<1>4. ASSUME NEW r \in DOMAIN rows
      PROVE  IsTable(rows[r]) /\ DOMAIN rows[r] = 1..width /\ Len(rows[r]) = width
  <2>1. \A C : IsTable(LineOf(width, C)) /\ DOMAIN LineOf(width, C) = 1..width
    <3> SUFFICES ASSUME NEW C
                 PROVE  IsTable(LineOf(width, C)) /\ DOMAIN LineOf(width, C) = 1..width
      OBVIOUS
    <3>1. LineOf(width, C) = [c \in 1..width |-> LineOf(width, C)[c]]
      BY DEF LineOf
    <3> QED BY <3>1, TableOf
  <2>2. ASSUME r \notin {head, below}
        PROVE  IsTable(rows[r]) /\ DOMAIN rows[r] = 1..width
    <3>1. rows[r] = [c \in 1..width |-> rows[r][c]]
      BY <1>2, <2>2
    <3> QED BY <3>1, TableOf
  <2>3. IsTable(rows[r]) /\ DOMAIN rows[r] = 1..width
    BY <1>2, <2>1, <2>2
  <2>4. Len(rows[r]) \in Nat /\ DOMAIN rows[r] = 1..Len(rows[r])
    BY <2>3, TableDomain
  <2> QED BY <2>3, <2>4
<1>5. ASSUME NEW r \in DOMAIN rows \ {head, below}
      PROVE  ColumnsOf(rows[r], IsData) = {}
  <2>1. \A c \in 1..width : rows[r][c].kind \in {"time", "number"}
    BY <1>2 DEF Cell
  <2> QED BY <1>4, <2>1 DEF ColumnsOf, IsData
<1>6. DataCells(rows[head]) = Cardinality(heads) /\ DataCells(rows[below]) = Cardinality(titles)
  BY <1>2, LineColumns DEF DataCells
<1>7. HeaderLayout(rows) = <<head, below>>
  <2>1. ColumnsOf(rows[head], LooksLikeDiscipline) # {}
    BY <1>2, LineColumns
  <2>2. head + gap \in DOMAIN rows
    BY <1>1, <1>2
  <2>3. \A r \in DOMAIN rows : IsTable(rows[r])
    BY <1>4
  <2>4. \A r \in DOMAIN rows \ {head, head + gap} : ColumnsOf(rows[r], IsData) = {}
    BY <1>5
  <2>5. DataCells(rows[head + gap]) > DataCells(rows[head]) \/ <<head, gap>> = <<2, 1>>
    BY <1>6
  <2> HIDE DEF end, works
  <2> QED BY ONLY <1>3, <2>1, <2>2, <2>3, <2>4, <2>5, LayoutFound,
                  head \in 1..6, gap \in 1..2
<1>8. \A r \in DOMAIN rows : rows[r][3].kind = "time" <=> r = end
  <2>1. 3 \in 1..width
    OBVIOUS
  <2>2. \A r \in 1..end : r > below <=> r = end
    OBVIOUS
  <2>3. rows[head][3].kind # "time" /\ rows[below][3].kind # "time"
    BY <1>2, <2>1 DEF LineOf, Cell
  <2>4. \A r \in 1..end \ {head, below} : rows[r][3].kind = "time" <=> r > below
    BY <1>2, <2>1 DEF Cell
  <2>5. end \notin {head, below}
    OBVIOUS
  <2> QED BY <1>2, <2>2, <2>3, <2>4, <2>5
<1>9. \A k \in 4..width : rows[end][k] = Cell("number", k)
  <2>1. end \in 1..end \ {head, below}
    OBVIOUS
  <2> QED BY <1>2, <2>1
<1>10. ASSUME NEW c \in titles
       PROVE  Nearest(heads, c, DisciplineFor(rows[head], c))
              /\ rows[below][c].text = c /\ Duration(rows, c) = IF c = 3 THEN 0 ELSE c
  <2>1. c \in 3..width
    OBVIOUS
  <2>2. Duration(rows, c) = IF c = 3 THEN 0 ELSE c
    <3>1. end \in DOMAIN rows
      BY <1>1, <1>2
    <3>2. \A r \in DOMAIN rows : Len(rows[r]) = width /\ (rows[r][3].kind = "time" <=> r = end)
      BY <1>4, <1>8
    <3> HIDE DEF end
    <3> QED BY <1>3, <1>9, <2>1, <3>1, <3>2, MinutesFound
  <2> QED BY <1>2, <2>1, <2>2, HeadingFound, LineColumns
<1>11. /\ Len(works) = DataCells(rows[below])
       /\ \A c \in ColumnsOf(rows[below], IsData) : \E i \in DOMAIN works :
            works[i] = [discipline |-> DisciplineFor(rows[head], c), title |-> rows[below][c].text,
                        minutes |-> Duration(rows, c), stand |-> None]
  <2>1. HeaderLayout(rows)[1] = head /\ HeaderLayout(rows)[2] = below
    BY <1>7
  <2>2. IsTable(rows[below])
    BY <1>1, <1>2, <1>4
  <2> QED BY <2>1, <2>2, TitlesRead
<1>12. ColumnsOf(rows[below], IsData) = titles
  <2>1. ColumnsOf(LineOf(width, titles), IsData) = titles
    BY LineColumns
  <2> QED BY <1>2, <2>1
<1> HIDE DEF works
<1> QED BY <1>6, <1>10, <1>11, <1>12

(* What the runs check of the sheets of five columns.                        *)
THEOREM JournalsAlwaysRead == Spec => []JournalsRead
<1>1. JournalsRead
  BY EveryJournalRead DEF JournalsRead
<1> QED BY <1>1, PTL
================================================================================
