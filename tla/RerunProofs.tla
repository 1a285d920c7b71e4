------------------------------ MODULE RerunProofs -------------------------------
(*****************************************************************************)
(* A command run again right after it has succeeded changes nothing. Its two *)
(* runs are followed row by row, together: s is what the first run has made  *)
(* so far, t what the second has, and F what the first one ended in. Of each *)
(* cell t has what s has or already what F has.                              *)
(*****************************************************************************)
EXTENDS ImportProofs

Columns == {"semesters", "departments", "laboratories", "rooms", "disciplines", "works", "groups"}

(* Two catalogues that differ in some columns at most.                       *)
Apart(cat, new, columns) ==
  /\ CatalogueShape(cat) /\ CatalogueShape(new)
  /\ \A c \in Columns \ columns : new[c] = cat[c]

(* The table t has of each row what s or F has of it.                        *)
RowsBeside(F, s, t) ==
  /\ DOMAIN t = DOMAIN F /\ DOMAIN s \subseteq DOMAIN F
  /\ \A i \in DOMAIN F : t[i] = F[i] \/ (i \in DOMAIN s /\ t[i] = s[i])

RowWritten(old, i, row, new) ==
  /\ DOMAIN new = DOMAIN old \cup {i} /\ new[i] = row
  /\ \A k \in DOMAIN old \ {i} : new[k] = old[k]

LEMMA WroteBeside ==
  ASSUME NEW F, NEW s, NEW t, RowsBeside(F, s, t), NEW i \in DOMAIN F,
         NEW row, NEW u, RowWritten(s, i, row, u),
         NEW other, NEW v, RowWritten(t, i, other, v), other = row \/ other = F[i]
  PROVE  RowsBeside(F, u, v)
BY DEF RowsBeside, RowWritten

LEMMA ApartNowhere ==
  ASSUME NEW cat, NEW new, NEW columns, Apart(cat, new, columns),
         \A c \in columns : new[c] = cat[c]
  PROVE  new = cat
<1>1. \A c \in Columns : new[c] = cat[c]
  BY DEF Apart
<1> QED BY <1>1 DEF Apart, CatalogueShape, HasColumns, Columns

-------------------------------------------------------------------------------
(* The departments of the organisation                                       *)

OrgGood(t) == OrgOK(t) /\ t.ok = TRUE

LEMMA OrgColumns ==
  ASSUME NEW t, OrgGood(t)
  PROVE  /\ OrgShape(t) /\ SoundCatalogue(t.cat) /\ CatalogueShape(t.cat)
         /\ IsTable(t.cat.departments) /\ AccountsOK(t.accounts)
         /\ \A i \in DOMAIN t.cat.departments : DepartmentShape(t.cat.departments[i])
         /\ \A i, k \in DOMAIN t.cat.departments :
              t.cat.departments[i].title = t.cat.departments[k].title => i = k
         /\ CodesAgree => \A d \in FiledDepartments, i \in DOMAIN t.cat.departments :
                            d.code = t.cat.departments[i].code
                              => d.title = t.cat.departments[i].title
BY SoundColumns, DepartmentRows DEF OrgGood, OrgOK, SoundTx, SoundDepartments

(* A row of departments is written under its title, whichever way it has     *)
(* been found.                                                               *)
DepartmentSaved(t, i, row, new) ==
  /\ OrgShape(new) /\ new.ok = t.ok /\ new.accounts = t.accounts
  /\ Apart(t.cat, new.cat, {"departments"})
  /\ RowWritten(t.cat.departments, i, row, new.cat.departments)
  /\ \A k \in DOMAIN t.cat.departments : t.cat.departments[k].title = row.title <=> k = i

LEMMA NewDepartments ==
  ASSUME NEW t, OrgGood(t), NEW table
  PROVE  LET new == [t EXCEPT !.cat = [t.cat EXCEPT !.departments = table]]
         IN /\ OrgShape(new) /\ new.ok = t.ok /\ new.accounts = t.accounts
            /\ Apart(t.cat, new.cat, {"departments"}) /\ new.cat.departments = table
<1>1. PICK cat : cat = [t.cat EXCEPT !.departments = table]
  OBVIOUS
<1>2. CatalogueShape(t.cat) /\ OrgShape(t)
  BY OrgColumns
<1>3. Apart(t.cat, cat, {"departments"}) /\ cat.departments = table
  BY <1>1, <1>2 DEF Apart, CatalogueShape, HasColumns, Columns
<1>4. PICK new : new = [t EXCEPT !.cat = cat]
  OBVIOUS
<1>5. OrgShape(new) /\ new.ok = t.ok /\ new.accounts = t.accounts /\ new.cat = cat
  BY <1>2, <1>4 DEF OrgShape, HasColumns
<1> QED BY <1>1, <1>3, <1>4, <1>5

LEMMA DepartmentUpserted ==
  ASSUME CodesAgree, NEW t, OrgGood(t), NEW row, DepartmentShape(row), row \in FiledDepartments
  PROVE  \E i : DepartmentSaved(t, i, row, UpsertDepartment(t, row))
<1> DEFINE table == t.cat.departments
           byCode == Where(table, LAMBDA d : d.code = row.code)
           byTitle == Where(table, LAMBDA d : d.title = row.title)
<1>1. /\ byCode = {k \in DOMAIN table : table[k].code = row.code}
      /\ byTitle = {k \in DOMAIN table : table[k].title = row.title}
  BY DEF Where
<1>2. IsTable(table) /\ Len(table) \in Nat /\ DOMAIN table = 1..Len(table)
  BY OrgColumns, TableDomain
<1>3. \A i, k \in DOMAIN table : table[i].title = table[k].title => i = k
  BY OrgColumns
<1>4. UpsertDepartment(t, row) =
        IF byCode # {} THEN t
        ELSE IF byTitle # {} THEN [t EXCEPT !.cat.departments[Min(byTitle)].code = row.code]
        ELSE [t EXCEPT !.cat.departments = Append(@, row)]
  BY DEF UpsertDepartment
<1> HIDE DEF byCode, byTitle
<1>5. CASE byCode # {}
  <2>1. PICK i \in DOMAIN table : table[i].code = row.code
    BY <1>1, <1>5
  <2>2. table[i].title = row.title /\ DepartmentShape(table[i])
    BY <2>1, OrgColumns
  <2>3. table[i] = row
    BY <2>1, <2>2 DEF DepartmentShape, HasColumns
  <2>4. RowWritten(table, i, row, table)
    BY <2>1, <2>3 DEF RowWritten
  <2>5. DepartmentSaved(t, i, row, t)
    BY <1>3, <2>1, <2>2, <2>4, OrgColumns DEF DepartmentSaved, Apart
  <2> QED BY <1>4, <1>5, <2>5
<1>6. CASE byCode = {} /\ byTitle # {}
  <2>1. byTitle \subseteq Nat
    BY <1>1, <1>2
  <2>2. PICK i : i = Min(byTitle) /\ i \in byTitle
    BY <1>6, <2>1, LeastOf
  <2>3. i \in DOMAIN table /\ table[i].title = row.title /\ DepartmentShape(table[i])
    BY <1>1, <2>2, OrgColumns
  <2>4. PICK d : d = [table[i] EXCEPT !.code = row.code]
    OBVIOUS
  <2>5. d = row
    BY <2>3, <2>4 DEF DepartmentShape, HasColumns
  <2>6. PICK new : new = [table EXCEPT ![i] = row]
    OBVIOUS
  <2>7. RowWritten(table, i, row, new)
    BY <2>3, <2>6 DEF RowWritten
  <2>8. UpsertDepartment(t, row) = [t EXCEPT !.cat = [t.cat EXCEPT !.departments = new]]
    BY <1>4, <1>6, <2>2, <2>4, <2>5, <2>6
  <2>9. \A k \in DOMAIN table : table[k].title = row.title <=> k = i
    BY <1>3, <2>3
  <2> QED BY <2>7, <2>8, <2>9, NewDepartments DEF DepartmentSaved
<1>7. CASE byCode = {} /\ byTitle = {}
  <2>1. PICK i, new : i = Len(table) + 1 /\ new = Append(table, row)
    OBVIOUS
  <2>2. new = Put(table, i, row) /\ i \in 1..Len(table) + 1 /\ i \notin DOMAIN table
    BY <1>2, <2>1 DEF Put
  <2>3. Wrote(table, i, row, new)
    BY <1>2, <2>2, PutRow
  <2>4. RowWritten(table, i, row, new)
    BY <2>3 DEF Wrote, RowWritten
  <2>5. UpsertDepartment(t, row) = [t EXCEPT !.cat = [t.cat EXCEPT !.departments = new]]
    BY <1>4, <1>7, <2>1
  <2>6. \A k \in DOMAIN table : table[k].title = row.title <=> k = i
    BY <1>1, <1>7, <2>2
  <2> QED BY <2>4, <2>5, <2>6, NewDepartments DEF DepartmentSaved
<1> QED BY <1>5, <1>6, <1>7

DepartmentsGrown(u, v) ==
  /\ u.cat.laboratories \subseteq v.cat.laboratories
  /\ DOMAIN u.cat.departments \subseteq DOMAIN v.cat.departments
  /\ \A i \in DOMAIN u.cat.departments : u.cat.departments[i].title = v.cat.departments[i].title

DepartmentsBeside(F, s, t) ==
  /\ OrgGood(F) /\ OrgGood(t) /\ t.accounts = F.accounts
  /\ Apart(F.cat, t.cat, {"departments"})
  /\ RowsBeside(F.cat.departments, s.cat.departments, t.cat.departments)

FiledDepartment(row) == DepartmentShape(row) /\ row \in FiledDepartments

LEMMA DepartmentGrows ==
  ASSUME CodesAgree, NEW t, OrgGood(t), NEW row, FiledDepartment(row)
  PROVE  OrgGood(UpsertDepartment(t, row)) /\ DepartmentsGrown(t, UpsertDepartment(t, row))
<1>1. PICK u : u = UpsertDepartment(t, row)
  OBVIOUS
<1>2. PICK i : DepartmentSaved(t, i, row, u)
  BY <1>1, DepartmentUpserted DEF FiledDepartment
<1>3. OrgGood(u)
  BY <1>1, <1>2, UpsertDepartmentKeeps DEF OrgGood, FiledDepartment, DepartmentSaved
<1>4. u.cat.laboratories = t.cat.laboratories
  BY <1>2 DEF DepartmentSaved, Apart, Columns
<1>5. DepartmentsGrown(t, u)
  BY <1>2, <1>4 DEF DepartmentsGrown, DepartmentSaved, RowWritten
<1> QED BY <1>1, <1>3, <1>5

(* The same row of departments, read by both runs.                           *)
LEMMA DepartmentTwice ==
  ASSUME CodesAgree, NEW F, NEW u, NEW v, NEW row, FiledDepartment(row), OrgGood(u),
         DepartmentsGrown(UpsertDepartment(u, row), F), DepartmentsBeside(F, u, v)
  PROVE  DepartmentsBeside(F, UpsertDepartment(u, row), UpsertDepartment(v, row))
<1>1. PICK p, q : p = UpsertDepartment(u, row) /\ q = UpsertDepartment(v, row)
  OBVIOUS
<1> DEFINE fs == F.cat.departments
           us == u.cat.departments
           vs == v.cat.departments
<1>2. OrgGood(v) /\ OrgGood(F) /\ DepartmentsGrown(u, p) /\ DepartmentsGrown(p, F)
  BY <1>1, DepartmentGrows DEF DepartmentsBeside
<1>3. PICK i : DepartmentSaved(u, i, row, p)
  BY <1>1, DepartmentUpserted DEF FiledDepartment
<1>4. PICK k : DepartmentSaved(v, k, row, q)
  BY <1>1, <1>2, DepartmentUpserted DEF FiledDepartment
<1>5. i \in DOMAIN fs /\ fs[i].title = row.title
  BY <1>2, <1>3 DEF DepartmentSaved, RowWritten, DepartmentsGrown
<1>6. \A n \in DOMAIN us : us[n].title = fs[n].title
  BY <1>2 DEF DepartmentsGrown
<1>7. DOMAIN vs = DOMAIN fs /\ \A n \in DOMAIN fs : vs[n].title = fs[n].title
  BY <1>6 DEF DepartmentsBeside, RowsBeside
<1>8. k = i
  BY <1>4, <1>5, <1>7 DEF DepartmentSaved
<1>9. RowsBeside(fs, p.cat.departments, q.cat.departments)
  BY <1>3, <1>4, <1>5, <1>8, WroteBeside DEF DepartmentSaved, DepartmentsBeside
<1>10. Apart(F.cat, q.cat, {"departments"}) /\ q.accounts = F.accounts
  BY <1>4 DEF Apart, DepartmentSaved, DepartmentsBeside
<1>11. OrgGood(q)
  BY <1>1, <1>2, DepartmentGrows
<1> QED BY <1>1, <1>2, <1>9, <1>10, <1>11 DEF DepartmentsBeside

(* A row of laboratories adds one, and its department.                       *)
FiledLaboratory(row) ==
  row.code # None => FiledDepartment([code |-> row.code, title |-> row.title])

WithLaboratory(t, row, new) ==
  /\ OrgGood(new) /\ new.accounts = t.accounts /\ Apart(t.cat, new.cat, {"laboratories"})
  /\ new.cat.laboratories = t.cat.laboratories \cup {row.laboratory}
  /\ OrgLaboratory(t, row) = IF row.code = None THEN new
                             ELSE UpsertDepartment(new, [code |-> row.code, title |-> row.title])

LEMMA LaboratoryAdded ==
  ASSUME NEW t, OrgGood(t), NEW row
  PROVE  \E new : WithLaboratory(t, row, new)
<1>1. PICK cat : cat = [t.cat EXCEPT !.laboratories = @ \cup {row.laboratory}]
  OBVIOUS
<1>2. CatalogueShape(t.cat) /\ SoundCatalogue(t.cat)
  BY OrgColumns
<1>3. /\ Apart(t.cat, cat, {"laboratories"})
      /\ cat.laboratories = t.cat.laboratories \cup {row.laboratory}
      /\ cat.departments = t.cat.departments
      /\ cat.works = t.cat.works /\ cat.disciplines = t.cat.disciplines
      /\ cat.groups = t.cat.groups /\ cat.rooms = t.cat.rooms
  BY <1>1, <1>2 DEF Apart, CatalogueShape, HasColumns, Columns
<1>4. SoundCatalogue(cat)
  BY <1>2, <1>3, SoundColumns, OtherColumns DEF Apart
<1>5. PICK new : new = [t EXCEPT !.cat = cat]
  OBVIOUS
<1>6. new.ok = t.ok /\ new.accounts = t.accounts /\ new.cat = cat
  BY <1>5, OrgColumns DEF OrgShape, HasColumns
<1>7. OrgGood(new)
  BY <1>4, <1>5, <1>6, NewCatalogueKeeps DEF OrgGood
<1>8. OrgLaboratory(t, row) = IF row.code = None THEN new
                              ELSE UpsertDepartment(new, [code |-> row.code, title |-> row.title])
  BY <1>1, <1>5 DEF OrgLaboratory
<1> QED BY <1>3, <1>6, <1>7, <1>8 DEF WithLaboratory

LEMMA LaboratoryGrows ==
  ASSUME CodesAgree, NEW t, OrgGood(t), NEW row, FiledLaboratory(row)
  PROVE  /\ OrgGood(OrgLaboratory(t, row)) /\ DepartmentsGrown(t, OrgLaboratory(t, row))
         /\ row.laboratory \in OrgLaboratory(t, row).cat.laboratories
<1>1. PICK u : WithLaboratory(t, row, u)
  BY LaboratoryAdded
<1>2. OrgGood(u) /\ DepartmentsGrown(t, u) /\ row.laboratory \in u.cat.laboratories
  BY <1>1 DEF WithLaboratory, DepartmentsGrown, Apart, Columns
<1>3. CASE row.code = None
  BY <1>1, <1>2, <1>3 DEF WithLaboratory
<1>4. CASE row.code # None
  <2>1. PICK v : v = UpsertDepartment(u, [code |-> row.code, title |-> row.title])
    OBVIOUS
  <2>2. OrgGood(v) /\ DepartmentsGrown(u, v)
    BY <1>2, <1>4, <2>1, DepartmentGrows DEF FiledLaboratory
  <2>3. OrgLaboratory(t, row) = v
    BY <1>1, <1>4, <2>1 DEF WithLaboratory
  <2> QED BY <1>2, <2>2, <2>3 DEF DepartmentsGrown
<1> QED BY <1>3, <1>4

LEMMA LaboratoryTwice ==
  ASSUME CodesAgree, NEW F, NEW u, NEW v, NEW row, FiledLaboratory(row), OrgGood(u),
         DepartmentsGrown(OrgLaboratory(u, row), F), DepartmentsBeside(F, u, v)
  PROVE  DepartmentsBeside(F, OrgLaboratory(u, row), OrgLaboratory(v, row))
<1>1. PICK p : WithLaboratory(u, row, p)
  BY LaboratoryAdded
<1>2. OrgGood(v)
  BY DEF DepartmentsBeside
<1>3. PICK q : WithLaboratory(v, row, q)
  BY <1>2, LaboratoryAdded
<1>4. row.laboratory \in F.cat.laboratories
  BY LaboratoryGrows DEF DepartmentsGrown
<1>5. DepartmentsBeside(F, p, q)
  <2>1. p.cat.departments = u.cat.departments /\ q.cat.departments = v.cat.departments
    BY <1>1, <1>3 DEF WithLaboratory, Apart, Columns
  <2>2. q.cat.laboratories = F.cat.laboratories
    BY <1>3, <1>4 DEF WithLaboratory, Apart, Columns, DepartmentsBeside
  <2>3. Apart(F.cat, q.cat, {"departments"})
    BY <1>3, <2>2 DEF WithLaboratory, Apart, DepartmentsBeside
  <2> QED BY <1>3, <2>1, <2>3 DEF WithLaboratory, DepartmentsBeside
<1>6. CASE row.code = None
  BY <1>1, <1>3, <1>5, <1>6 DEF WithLaboratory
<1>7. CASE row.code # None
  <2>1. PICK d : d = [code |-> row.code, title |-> row.title]
    OBVIOUS
  <2>2. /\ OrgLaboratory(u, row) = UpsertDepartment(p, d)
        /\ OrgLaboratory(v, row) = UpsertDepartment(q, d)
    BY <1>1, <1>3, <1>7, <2>1 DEF WithLaboratory
  <2>3. FiledDepartment(d) /\ OrgGood(p)
    BY <1>1, <1>7, <2>1 DEF FiledLaboratory, WithLaboratory
  <2>4. DepartmentsGrown(UpsertDepartment(p, d), F)
    BY <2>2
  <2> QED BY <1>5, <2>2, <2>3, <2>4, DepartmentTwice
<1> QED BY <1>6, <1>7

-------------------------------------------------------------------------------
(* The rooms of the organisation                                             *)

RoomsGrown(u, v) ==
  /\ Apart(u.cat, v.cat, {"rooms"}) /\ DOMAIN u.cat.rooms \subseteq DOMAIN v.cat.rooms
  /\ \A r \in DOMAIN u.cat.rooms : u.cat.rooms[r].capacity = v.cat.rooms[r].capacity

RoomsBeside(F, s, t) ==
  /\ OrgGood(F) /\ OrgGood(t) /\ t.accounts = F.accounts
  /\ Apart(F.cat, t.cat, {"rooms"})
  /\ RowsBeside(F.cat.rooms, s.cat.rooms, t.cat.rooms)

(* A room is given to the laboratory of its row, if there is such a one.     *)
GivenRoom(t, row) ==
  LET known == row.room \in DOMAIN t.cat.rooms
  IN [capacity |-> IF known THEN t.cat.rooms[row.room].capacity ELSE 30,
      laboratory |-> IF row.laboratory \in t.cat.laboratories THEN row.laboratory
                     ELSE IF known THEN t.cat.rooms[row.room].laboratory ELSE None]

RoomSaved(t, row, new) ==
  /\ OrgGood(new) /\ new.accounts = t.accounts /\ Apart(t.cat, new.cat, {"rooms"})
  /\ RowWritten(t.cat.rooms, row.room, GivenRoom(t, row), new.cat.rooms)

LEMMA RoomGiven ==
  ASSUME NEW t, OrgGood(t), NEW row
  PROVE  RoomSaved(t, row, OrgRoom(t, row))
<1> DEFINE old == IF row.room \in DOMAIN t.cat.rooms THEN t.cat.rooms[row.room]
                  ELSE [capacity |-> 30, laboratory |-> None]
           given == IF row.laboratory \in t.cat.laboratories THEN row.laboratory
                    ELSE old.laboratory
<1>1. PICK room : room = [old EXCEPT !.laboratory = given]
  OBVIOUS
<1>2. PICK rooms : rooms = With(t.cat.rooms, row.room, room)
  OBVIOUS
<1>3. OrgRoom(t, row) = [t EXCEPT !.cat = [t.cat EXCEPT !.rooms = rooms]]
  BY <1>1, <1>2 DEF OrgRoom
<1>4. CatalogueShape(t.cat) /\ SoundCatalogue(t.cat)
  BY OrgColumns
<1>5. RoomShape(old)
  <2>1. RoomShape([capacity |-> 30, laboratory |-> None])
    BY DEF RoomShape, HasColumns
  <2> QED BY <1>4, <2>1, SoundColumns, RoomRows
<1>6. room = [capacity |-> old.capacity, laboratory |-> given]
  <2> HIDE DEF old, given
  <2> QED BY <1>1, <1>5 DEF RoomShape, HasColumns
<1>7. room = GivenRoom(t, row)
  BY <1>6 DEF GivenRoom
<1>8. RowWritten(t.cat.rooms, row.room, room, rooms)
  BY <1>2 DEF RowWritten, With
<1>9. PICK cat : cat = [t.cat EXCEPT !.rooms = rooms]
  OBVIOUS
<1>10. Apart(t.cat, cat, {"rooms"}) /\ cat.rooms = rooms
  BY <1>4, <1>9 DEF Apart, CatalogueShape, HasColumns, Columns
<1>11. PICK new : new = [t EXCEPT !.cat = cat]
  OBVIOUS
<1>12. new.ok = t.ok /\ new.accounts = t.accounts /\ new.cat = cat
  BY <1>11, OrgColumns DEF OrgShape, HasColumns
<1>13. OrgGood(new)
  BY <1>3, <1>9, <1>11, <1>12, OrgRoomKeeps DEF OrgGood
<1> QED BY <1>3, <1>7, <1>8, <1>9, <1>10, <1>11, <1>12, <1>13 DEF RoomSaved

LEMMA RoomGrows ==
  ASSUME NEW t, OrgGood(t), NEW row
  PROVE  OrgGood(OrgRoom(t, row)) /\ RoomsGrown(t, OrgRoom(t, row))
<1>1. PICK u : u = OrgRoom(t, row)
  OBVIOUS
<1>2. RoomSaved(t, row, u)
  BY <1>1, RoomGiven
<1>3. row.room \in DOMAIN t.cat.rooms
        => GivenRoom(t, row).capacity = t.cat.rooms[row.room].capacity
  BY DEF GivenRoom
<1> QED BY <1>1, <1>2, <1>3 DEF RoomSaved, RoomsGrown, RowWritten

LEMMA RoomTwice ==
  ASSUME NEW F, NEW u, NEW v, NEW row, OrgGood(u),
         RoomsGrown(OrgRoom(u, row), F), RoomsBeside(F, u, v)
  PROVE  RoomsBeside(F, OrgRoom(u, row), OrgRoom(v, row))
<1> DEFINE fs == F.cat.rooms
           us == u.cat.rooms
           vs == v.cat.rooms
           r == row.room
<1>1. PICK p, q : p = OrgRoom(u, row) /\ q = OrgRoom(v, row)
  OBVIOUS
<1>2. OrgGood(v) /\ OrgGood(F)
  BY DEF RoomsBeside
<1>3. RoomSaved(u, row, p) /\ RoomSaved(v, row, q)
  BY <1>1, <1>2, RoomGiven
<1>4. RoomsGrown(u, p) /\ RoomsGrown(p, F)
  BY <1>1, RoomGrows
<1>5. /\ r \in DOMAIN fs /\ fs[r].capacity = GivenRoom(u, row).capacity
      /\ DOMAIN us \subseteq DOMAIN fs
      /\ \A k \in DOMAIN us : us[k].capacity = fs[k].capacity
  BY <1>3, <1>4 DEF RoomsGrown, RoomSaved, RowWritten
<1>6. /\ DOMAIN vs = DOMAIN fs
      /\ vs[r] = fs[r] \/ (r \in DOMAIN us /\ vs[r] = us[r])
  BY <1>5 DEF RoomsBeside, RowsBeside
<1>7. u.cat.laboratories = F.cat.laboratories /\ v.cat.laboratories = F.cat.laboratories
  BY <1>4 DEF RoomsGrown, Apart, Columns, RoomsBeside
<1>8. GivenRoom(v, row) = GivenRoom(u, row) \/ GivenRoom(v, row) = fs[r]
  <2>1. CASE row.laboratory \in F.cat.laboratories
    BY <1>5, <1>6, <1>7, <2>1 DEF GivenRoom
  <2>2. CASE row.laboratory \notin F.cat.laboratories
    <3>1. RoomShape(vs[r])
      BY <1>2, <1>5, <1>6, OrgColumns, SoundColumns, RoomRows
    <3>2. vs[r] = [capacity |-> vs[r].capacity, laboratory |-> vs[r].laboratory]
      BY <3>1 DEF RoomShape, HasColumns
    <3>3. GivenRoom(v, row) = vs[r]
      BY <1>5, <1>6, <1>7, <2>2, <3>2 DEF GivenRoom
    <3>4. CASE vs[r] = fs[r]
      BY <3>3, <3>4
    <3>5. CASE r \in DOMAIN us /\ vs[r] = us[r]
      <4>1. GivenRoom(u, row) = [capacity |-> us[r].capacity, laboratory |-> us[r].laboratory]
        BY <1>7, <2>2, <3>5 DEF GivenRoom
      <4> QED BY <3>2, <3>3, <3>5, <4>1
    <3> QED BY <1>6, <3>4, <3>5
  <2> QED BY <2>1, <2>2
<1>9. RowsBeside(fs, p.cat.rooms, q.cat.rooms)
  <2>1. /\ RowWritten(us, r, GivenRoom(u, row), p.cat.rooms)
        /\ RowWritten(vs, r, GivenRoom(v, row), q.cat.rooms)
    BY <1>3 DEF RoomSaved
  <2>2. RowsBeside(fs, us, vs)
    BY DEF RoomsBeside
  <2> QED BY <1>5, <1>8, <2>1, <2>2, WroteBeside
<1>10. /\ OrgGood(q) /\ q.accounts = F.accounts /\ Apart(F.cat, q.cat, {"rooms"})
  BY <1>3 DEF RoomSaved, RoomsBeside, Apart
<1> QED BY <1>1, <1>2, <1>9, <1>10 DEF RoomsBeside

-------------------------------------------------------------------------------
(* Accounts                                                                  *)

(* The account of an address is written where it is, or added.               *)
AccountSaved(table, i, row, new) ==
  /\ AccountsOK(new) /\ RowWritten(table, i, row, new)
  /\ \A k \in DOMAIN table : table[k].email = row.email <=> k = i

LEMMA AccountPut ==
  ASSUME NEW table, AccountsOK(table), NEW row, AccountShape(row)
  PROVE  \E i : AccountSaved(table, i, row, PutAccount(table, row))
<1> DEFINE found == ByEmail(table, row.email)
           i == First(table, found)
<1>1. found = {k \in DOMAIN table : table[k].email = row.email} /\ IsTable(table)
  BY AccountRows DEF ByEmail, Where
<1> HIDE DEF found
<1>2. /\ i \in 1..Len(table) + 1
      /\ found # {} => i \in found
      /\ found = {} => i \notin DOMAIN table
  BY <1>1, FirstKey
<1> HIDE DEF i
<1>3. PICK new : new = Put(table, i, row)
  OBVIOUS
<1>4. Wrote(table, i, row, new)
  BY <1>1, <1>2, <1>3, PutRow
<1>5. PutAccount(table, row) = new
  BY <1>3 DEF PutAccount, i, found
<1>6. \A k \in DOMAIN table : table[k].email = row.email <=> k = i
  BY <1>1, <1>2, AccountRows
<1>7. AccountsOK(new)
  BY <1>5, PutAccountWrites DEF AccountWritten
<1> QED BY <1>4, <1>5, <1>6, <1>7 DEF AccountSaved, RowWritten, Wrote

LEMMA AccountOf ==
  ASSUME NEW table, AccountsOK(table), NEW email, NEW role, NEW i,
         \A k \in DOMAIN table : table[k].email = email <=> k = i
  PROVE  Account(table, email, role) = IF i \in DOMAIN table THEN table[i]
                                       ELSE NewAccount(email, role)
<1> DEFINE found == ByEmail(table, email)
<1>1. found = {k \in DOMAIN table : table[k].email = email}
  BY DEF ByEmail, Where
<1>2. Account(table, email, role) = IF found = {} THEN NewAccount(email, role)
                                    ELSE table[Min(found)]
  BY DEF Account
<1>3. IsTable(table) /\ DOMAIN table \subseteq Nat
  BY AccountRows, TableDomain
<1> HIDE DEF found
<1>4. CASE i \in DOMAIN table
  <2>1. found # {} /\ found \subseteq Nat
    BY <1>1, <1>3, <1>4
  <2>2. Min(found) \in found
    BY <2>1, LeastOf
  <2>3. Min(found) = i
    BY <1>1, <2>2
  <2> QED BY <1>2, <1>4, <2>1, <2>3
<1>5. CASE i \notin DOMAIN table
  BY <1>1, <1>2, <1>5
<1> QED BY <1>4, <1>5

(* The staff of the organisation.                                            *)
StaffRow(t, row, i) ==
  LET known == i \in DOMAIN t.accounts
      Old(column, new) == IF known THEN t.accounts[i][column] ELSE new
  IN [email |-> row.email, role |-> row.role, groupName |-> Old("groupName", None),
      group |-> Old("group", None), record |-> Old("record", None), center |-> row.center,
      laboratory |-> IF row.laboratory \in t.cat.laboratories THEN row.laboratory ELSE None,
      disciplines |-> Old("disciplines", {})]

StaffSaved(t, row, i, new) ==
  /\ OrgGood(new) /\ new.cat = t.cat
  /\ AccountSaved(t.accounts, i, StaffRow(t, row, i), new.accounts)

LEMMA StaffPut ==
  ASSUME NEW t, OrgGood(t), NEW row
  PROVE  \E i : StaffSaved(t, row, i, OrgStaff(t, row))
<1> DEFINE table == t.accounts
           old == Account(table, row.email, row.role)
           given == IF row.laboratory \in t.cat.laboratories THEN row.laboratory ELSE None
<1>1. AccountsOK(table)
  BY OrgColumns
<1>2. PICK account : account = [old EXCEPT !.role = row.role, !.center = row.center,
                                           !.laboratory = given]
  OBVIOUS
<1>3. AccountShape(old) /\ old.email = row.email
  BY <1>1, AccountFound
<1>4. OrgStaff(t, row) = [t EXCEPT !.accounts = PutAccount(table, account)]
  BY <1>2 DEF OrgStaff
<1>5. AccountShape(account) /\ account.email = row.email
  <2> HIDE DEF old
  <2> QED BY <1>2, <1>3 DEF AccountShape, HasColumns
<1>6. PICK i : AccountSaved(table, i, account, PutAccount(table, account))
  BY <1>1, <1>5, AccountPut
<1>7. old = IF i \in DOMAIN table THEN table[i] ELSE NewAccount(row.email, row.role)
  BY <1>1, <1>5, <1>6, AccountOf DEF AccountSaved
<1>8. account = [email |-> old.email, role |-> row.role, groupName |-> old.groupName,
                 group |-> old.group, record |-> old.record, center |-> row.center,
                 laboratory |-> given, disciplines |-> old.disciplines]
  <2> HIDE DEF old, given
  <2> QED BY <1>2, <1>3 DEF AccountShape, HasColumns
<1>9. account = StaffRow(t, row, i)
  <2>1. i \in DOMAIN table => StaffRow(t, row, i) =
          [email |-> row.email, role |-> row.role, groupName |-> table[i].groupName,
           group |-> table[i].group, record |-> table[i].record, center |-> row.center,
           laboratory |-> given, disciplines |-> table[i].disciplines]
    BY DEF StaffRow
  <2>2. i \notin DOMAIN table => StaffRow(t, row, i) =
          [email |-> row.email, role |-> row.role, groupName |-> None,
           group |-> None, record |-> None, center |-> row.center,
           laboratory |-> given, disciplines |-> {}]
    BY DEF StaffRow
  <2>3. LET none == NewAccount(row.email, row.role)
        IN /\ none.groupName = None /\ none.group = None /\ none.record = None
           /\ none.disciplines = {}
    BY DEF NewAccount
  <2> HIDE DEF old, given
  <2> QED BY <1>3, <1>7, <1>8, <2>1, <2>2, <2>3
<1>10. PICK new : new = OrgStaff(t, row)
  OBVIOUS
<1>11. new.ok = t.ok /\ new.cat = t.cat /\ new.accounts = PutAccount(table, account)
  BY <1>4, <1>10, OrgColumns DEF OrgShape, HasColumns
<1>12. OrgGood(new)
  BY <1>10, <1>11, OrgStaffKeeps DEF OrgGood
<1> QED BY <1>6, <1>9, <1>10, <1>11, <1>12 DEF StaffSaved

SamePerson(a, b) ==
  /\ a.email = b.email /\ a.groupName = b.groupName /\ a.group = b.group
  /\ a.record = b.record /\ a.disciplines = b.disciplines

StaffGrown(u, v) ==
  /\ u.cat = v.cat /\ DOMAIN u.accounts \subseteq DOMAIN v.accounts
  /\ \A i \in DOMAIN u.accounts : SamePerson(u.accounts[i], v.accounts[i])

StaffBeside(F, s, t) ==
  OrgGood(F) /\ OrgGood(t) /\ t.cat = F.cat /\ RowsBeside(F.accounts, s.accounts, t.accounts)

LEMMA StaffGrows ==
  ASSUME NEW t, OrgGood(t), NEW row
  PROVE  OrgGood(OrgStaff(t, row)) /\ StaffGrown(t, OrgStaff(t, row))
<1>1. PICK u : u = OrgStaff(t, row)
  OBVIOUS
<1>2. PICK i : StaffSaved(t, row, i, u)
  BY <1>1, StaffPut
<1>3. i \in DOMAIN t.accounts => t.accounts[i].email = row.email
  BY <1>2 DEF StaffSaved, AccountSaved, StaffRow
<1>4. i \in DOMAIN t.accounts => SamePerson(t.accounts[i], StaffRow(t, row, i))
  BY <1>3 DEF SamePerson, StaffRow
<1>5. \A k \in DOMAIN t.accounts : SamePerson(t.accounts[k], u.accounts[k])
  <2>1. \A k \in DOMAIN t.accounts : SamePerson(t.accounts[k], t.accounts[k])
    BY DEF SamePerson
  <2> QED BY <1>2, <1>4, <2>1 DEF StaffSaved, AccountSaved, RowWritten
<1> QED BY <1>1, <1>2, <1>5 DEF StaffSaved, AccountSaved, RowWritten, StaffGrown

LEMMA StaffTwice ==
  ASSUME NEW F, NEW u, NEW v, NEW row, OrgGood(u),
         StaffGrown(OrgStaff(u, row), F), StaffBeside(F, u, v)
  PROVE  StaffBeside(F, OrgStaff(u, row), OrgStaff(v, row))
<1> DEFINE fs == F.accounts
           us == u.accounts
           vs == v.accounts
<1>1. PICK p, q : p = OrgStaff(u, row) /\ q = OrgStaff(v, row)
  OBVIOUS
<1>2. OrgGood(v) /\ OrgGood(F) /\ StaffGrown(u, p) /\ StaffGrown(p, F)
  BY <1>1, StaffGrows DEF StaffBeside
<1>3. PICK i : StaffSaved(u, row, i, p)
  BY <1>1, StaffPut
<1>4. PICK k : StaffSaved(v, row, k, q)
  BY <1>1, <1>2, StaffPut
<1>5. i \in DOMAIN fs /\ SamePerson(StaffRow(u, row, i), fs[i])
  BY <1>2, <1>3 DEF StaffGrown, StaffSaved, AccountSaved, RowWritten
<1>6. \A n \in DOMAIN us : n \in DOMAIN fs /\ SamePerson(us[n], fs[n])
  BY <1>2 DEF StaffGrown, SamePerson
<1>7. DOMAIN vs = DOMAIN fs /\ \A n \in DOMAIN fs : SamePerson(vs[n], fs[n])
  <2>1. \A n \in DOMAIN fs : SamePerson(fs[n], fs[n])
    BY DEF SamePerson
  <2> QED BY <1>6, <2>1 DEF StaffBeside, RowsBeside
<1>8. k = i
  <2>1. fs[i].email = row.email
    BY <1>5 DEF SamePerson, StaffRow
  <2>2. vs[i].email = row.email
    BY <1>5, <1>7, <2>1 DEF SamePerson
  <2>3. \A n \in DOMAIN vs : vs[n].email = StaffRow(v, row, k).email <=> n = k
    BY <1>4 DEF StaffSaved, AccountSaved
  <2>4. StaffRow(v, row, k).email = row.email
    BY DEF StaffRow
  <2> QED BY <1>5, <1>7, <2>2, <2>3, <2>4
<1>9. StaffRow(v, row, i) = StaffRow(u, row, i)
  <2>1. u.cat = v.cat
    BY <1>2 DEF StaffGrown, StaffBeside
  <2>2. SamePerson(vs[i], fs[i])
    BY <1>5, <1>7
  <2>3. StaffRow(v, row, i) =
          [email |-> row.email, role |-> row.role, groupName |-> vs[i].groupName,
           group |-> vs[i].group, record |-> vs[i].record, center |-> row.center,
           laboratory |-> IF row.laboratory \in u.cat.laboratories THEN row.laboratory ELSE None,
           disciplines |-> vs[i].disciplines]
    BY <1>5, <1>7, <2>1 DEF StaffRow
  <2>4. PICK a : a = StaffRow(u, row, i)
    OBVIOUS
  <2>5. a = [email |-> row.email, role |-> row.role, groupName |-> a.groupName,
             group |-> a.group, record |-> a.record, center |-> row.center,
             laboratory |-> IF row.laboratory \in u.cat.laboratories THEN row.laboratory
                            ELSE None,
             disciplines |-> a.disciplines]
    BY <2>4 DEF StaffRow
  <2> QED BY <1>5, <2>2, <2>3, <2>4, <2>5 DEF SamePerson
<1>10. RowsBeside(fs, p.accounts, q.accounts)
  <2>1. /\ RowWritten(us, i, StaffRow(u, row, i), p.accounts)
        /\ RowWritten(vs, i, StaffRow(v, row, i), q.accounts)
    BY <1>3, <1>4, <1>8 DEF StaffSaved, AccountSaved
  <2>2. RowsBeside(fs, us, vs)
    BY DEF StaffBeside
  <2> QED BY <1>5, <1>9, <2>1, <2>2, WroteBeside
<1>11. OrgGood(q) /\ q.cat = F.cat
  BY <1>4 DEF StaffSaved, StaffBeside
<1> QED BY <1>1, <1>2, <1>10, <1>11 DEF StaffBeside

-------------------------------------------------------------------------------
(* import_studlab_org, run again                                             *)

DepartmentsAgain == INSTANCE RowLoopTwice WITH
  Row <- LAMBDA t, row : IF t.ok THEN UpsertDepartment(t, row) ELSE t,
  Kept <- LAMBDA tx, rows, n, t : TRUE,
  Good <- OrgGood, Grown <- DepartmentsGrown, Beside <- DepartmentsBeside
LaboratoriesAgain == INSTANCE RowLoopTwice WITH
  Row <- LAMBDA t, row : IF t.ok THEN OrgLaboratory(t, row) ELSE t,
  Kept <- LAMBDA tx, rows, n, t : TRUE,
  Good <- OrgGood, Grown <- DepartmentsGrown, Beside <- DepartmentsBeside
RoomsAgain == INSTANCE RowLoopTwice WITH
  Row <- LAMBDA t, row : IF t.ok THEN OrgRoom(t, row) ELSE t,
  Kept <- LAMBDA tx, rows, n, t : TRUE,
  Good <- OrgGood, Grown <- RoomsGrown, Beside <- RoomsBeside
StaffAgain == INSTANCE RowLoopTwice WITH
  Row <- LAMBDA t, row : IF t.ok THEN OrgStaff(t, row) ELSE t,
  Kept <- LAMBDA tx, rows, n, t : TRUE,
  Good <- OrgGood, Grown <- StaffGrown, Beside <- StaffBeside

LEMMA DepartmentsReadAgain ==
  ASSUME CodesAgree, NEW s, OrgGood(s), NEW rows, IsTable(rows),
         \A n \in DOMAIN rows : FiledDepartment(rows[n])
  PROVE  LET end == ForEach(UpsertDepartment, s, rows)
         IN /\ OrgGood(end) /\ DepartmentsGrown(s, end)
            /\ \A F, t : DepartmentsGrown(end, F) /\ DepartmentsBeside(F, s, t)
                           => DepartmentsBeside(F, end, ForEach(UpsertDepartment, t, rows))
<1>1. \A t : ForEach(UpsertDepartment, t, rows) = DepartmentsAgain!Through(t, rows)
  BY DEF ForEach, Through, DepartmentsAgain!Through
<1>2. Len(rows) \in Nat /\ DOMAIN rows = 1..Len(rows)
  BY TableDomain
<1>3. DepartmentsAgain!Grows(rows)
  <2>1. \A i \in 1..Len(rows) : \A u : OrgGood(u) =>
          LET v == IF u.ok THEN UpsertDepartment(u, rows[i]) ELSE u
          IN OrgGood(v) /\ DepartmentsGrown(u, v)
    BY <1>2, DepartmentGrows DEF OrgGood
  <2>2. \A u : DepartmentsGrown(u, u)
    BY DEF DepartmentsGrown
  <2>3. \A u, v, w : DepartmentsGrown(u, v) /\ DepartmentsGrown(v, w) => DepartmentsGrown(u, w)
    BY DEF DepartmentsGrown
  <2> QED BY <2>1, <2>2, <2>3 DEF DepartmentsAgain!Grows
<1>4. /\ OrgGood(DepartmentsAgain!Through(s, rows))
      /\ DepartmentsGrown(s, DepartmentsAgain!Through(s, rows))
  BY <1>2, <1>3, DepartmentsAgain!LoopGrows
<1>5. ASSUME NEW F, NEW t, DepartmentsGrown(DepartmentsAgain!Through(s, rows), F),
             DepartmentsBeside(F, s, t)
      PROVE  DepartmentsBeside(F, DepartmentsAgain!Through(s, rows),
                               DepartmentsAgain!Through(t, rows))
  <2>1. \A i \in 1..Len(rows) : \A u, v :
          /\ OrgGood(u) /\ DepartmentsBeside(F, u, v)
          /\ DepartmentsGrown(IF u.ok THEN UpsertDepartment(u, rows[i]) ELSE u, F)
          => DepartmentsBeside(F, IF u.ok THEN UpsertDepartment(u, rows[i]) ELSE u,
                                  IF v.ok THEN UpsertDepartment(v, rows[i]) ELSE v)
    <3> SUFFICES ASSUME NEW i \in 1..Len(rows), NEW u, NEW v, OrgGood(u),
                        DepartmentsBeside(F, u, v),
                        DepartmentsGrown(IF u.ok THEN UpsertDepartment(u, rows[i]) ELSE u, F)
                 PROVE  DepartmentsBeside(F, IF u.ok THEN UpsertDepartment(u, rows[i]) ELSE u,
                                             IF v.ok THEN UpsertDepartment(v, rows[i]) ELSE v)
      OBVIOUS
    <3>1. u.ok = TRUE /\ v.ok = TRUE
      BY DEF OrgGood, DepartmentsBeside
    <3> QED BY <1>2, <3>1, DepartmentTwice
  <2> QED BY <1>2, <1>3, <1>5, <2>1, DepartmentsAgain!LoopTwice
<1> QED BY <1>1, <1>4, <1>5

LEMMA LaboratoriesReadAgain ==
  ASSUME CodesAgree, NEW s, OrgGood(s), NEW rows, IsTable(rows),
         \A n \in DOMAIN rows : FiledLaboratory(rows[n])
  PROVE  LET end == ForEach(OrgLaboratory, s, rows)
         IN /\ OrgGood(end) /\ DepartmentsGrown(s, end)
            /\ \A F, t : DepartmentsGrown(end, F) /\ DepartmentsBeside(F, s, t)
                           => DepartmentsBeside(F, end, ForEach(OrgLaboratory, t, rows))
<1>1. \A t : ForEach(OrgLaboratory, t, rows) = LaboratoriesAgain!Through(t, rows)
  BY DEF ForEach, Through, LaboratoriesAgain!Through
<1>2. Len(rows) \in Nat /\ DOMAIN rows = 1..Len(rows)
  BY TableDomain
<1>3. LaboratoriesAgain!Grows(rows)
  <2>1. \A i \in 1..Len(rows) : \A u : OrgGood(u) =>
          LET v == IF u.ok THEN OrgLaboratory(u, rows[i]) ELSE u
          IN OrgGood(v) /\ DepartmentsGrown(u, v)
    BY <1>2, LaboratoryGrows DEF OrgGood
  <2>2. \A u : DepartmentsGrown(u, u)
    BY DEF DepartmentsGrown
  <2>3. \A u, v, w : DepartmentsGrown(u, v) /\ DepartmentsGrown(v, w) => DepartmentsGrown(u, w)
    BY DEF DepartmentsGrown
  <2> QED BY <2>1, <2>2, <2>3 DEF LaboratoriesAgain!Grows
<1>4. /\ OrgGood(LaboratoriesAgain!Through(s, rows))
      /\ DepartmentsGrown(s, LaboratoriesAgain!Through(s, rows))
  BY <1>2, <1>3, LaboratoriesAgain!LoopGrows
<1>5. ASSUME NEW F, NEW t, DepartmentsGrown(LaboratoriesAgain!Through(s, rows), F),
             DepartmentsBeside(F, s, t)
      PROVE  DepartmentsBeside(F, LaboratoriesAgain!Through(s, rows),
                               LaboratoriesAgain!Through(t, rows))
  <2>1. \A i \in 1..Len(rows) : \A u, v :
          /\ OrgGood(u) /\ DepartmentsBeside(F, u, v)
          /\ DepartmentsGrown(IF u.ok THEN OrgLaboratory(u, rows[i]) ELSE u, F)
          => DepartmentsBeside(F, IF u.ok THEN OrgLaboratory(u, rows[i]) ELSE u,
                                  IF v.ok THEN OrgLaboratory(v, rows[i]) ELSE v)
    <3> SUFFICES ASSUME NEW i \in 1..Len(rows), NEW u, NEW v, OrgGood(u),
                        DepartmentsBeside(F, u, v),
                        DepartmentsGrown(IF u.ok THEN OrgLaboratory(u, rows[i]) ELSE u, F)
                 PROVE  DepartmentsBeside(F, IF u.ok THEN OrgLaboratory(u, rows[i]) ELSE u,
                                             IF v.ok THEN OrgLaboratory(v, rows[i]) ELSE v)
      OBVIOUS
    <3>1. u.ok = TRUE /\ v.ok = TRUE
      BY DEF OrgGood, DepartmentsBeside
    <3> QED BY <1>2, <3>1, LaboratoryTwice
  <2> QED BY <1>2, <1>3, <1>5, <2>1, LaboratoriesAgain!LoopTwice
<1> QED BY <1>1, <1>4, <1>5

LEMMA RoomsReadAgain ==
  ASSUME NEW s, OrgGood(s), NEW rows, IsTable(rows)
  PROVE  LET end == ForEach(OrgRoom, s, rows)
         IN /\ OrgGood(end) /\ RoomsGrown(s, end)
            /\ \A F, t : RoomsGrown(end, F) /\ RoomsBeside(F, s, t)
                           => RoomsBeside(F, end, ForEach(OrgRoom, t, rows))
<1>1. \A t : ForEach(OrgRoom, t, rows) = RoomsAgain!Through(t, rows)
  BY DEF ForEach, Through, RoomsAgain!Through
<1>2. Len(rows) \in Nat /\ DOMAIN rows = 1..Len(rows)
  BY TableDomain
<1>3. RoomsAgain!Grows(rows)
  <2>1. \A i \in 1..Len(rows) : \A u : OrgGood(u) =>
          LET v == IF u.ok THEN OrgRoom(u, rows[i]) ELSE u
          IN OrgGood(v) /\ RoomsGrown(u, v)
    BY <1>2, RoomGrows DEF OrgGood
  <2>2. \A u : OrgGood(u) => RoomsGrown(u, u)
    BY OrgColumns DEF RoomsGrown, Apart
  <2>3. \A u, v, w : RoomsGrown(u, v) /\ RoomsGrown(v, w) => RoomsGrown(u, w)
    BY DEF RoomsGrown, Apart
  <2> QED BY <2>1, <2>2, <2>3 DEF RoomsAgain!Grows
<1>4. /\ OrgGood(RoomsAgain!Through(s, rows))
      /\ RoomsGrown(s, RoomsAgain!Through(s, rows))
  BY <1>2, <1>3, RoomsAgain!LoopGrows
<1>5. ASSUME NEW F, NEW t, RoomsGrown(RoomsAgain!Through(s, rows), F),
             RoomsBeside(F, s, t)
      PROVE  RoomsBeside(F, RoomsAgain!Through(s, rows),
                               RoomsAgain!Through(t, rows))
  <2>1. \A i \in 1..Len(rows) : \A u, v :
          /\ OrgGood(u) /\ RoomsBeside(F, u, v)
          /\ RoomsGrown(IF u.ok THEN OrgRoom(u, rows[i]) ELSE u, F)
          => RoomsBeside(F, IF u.ok THEN OrgRoom(u, rows[i]) ELSE u,
                                  IF v.ok THEN OrgRoom(v, rows[i]) ELSE v)
    <3> SUFFICES ASSUME NEW i \in 1..Len(rows), NEW u, NEW v, OrgGood(u),
                        RoomsBeside(F, u, v),
                        RoomsGrown(IF u.ok THEN OrgRoom(u, rows[i]) ELSE u, F)
                 PROVE  RoomsBeside(F, IF u.ok THEN OrgRoom(u, rows[i]) ELSE u,
                                             IF v.ok THEN OrgRoom(v, rows[i]) ELSE v)
      OBVIOUS
    <3>1. u.ok = TRUE /\ v.ok = TRUE
      BY DEF OrgGood, RoomsBeside
    <3> QED BY <1>2, <3>1, RoomTwice
  <2> QED BY <1>2, <1>3, <1>5, <2>1, RoomsAgain!LoopTwice
<1> QED BY <1>1, <1>4, <1>5

LEMMA StaffReadAgain ==
  ASSUME NEW s, OrgGood(s), NEW rows, IsTable(rows)
  PROVE  LET end == ForEach(OrgStaff, s, rows)
         IN /\ OrgGood(end) /\ StaffGrown(s, end)
            /\ \A F, t : StaffGrown(end, F) /\ StaffBeside(F, s, t)
                           => StaffBeside(F, end, ForEach(OrgStaff, t, rows))
<1>1. \A t : ForEach(OrgStaff, t, rows) = StaffAgain!Through(t, rows)
  BY DEF ForEach, Through, StaffAgain!Through
<1>2. Len(rows) \in Nat /\ DOMAIN rows = 1..Len(rows)
  BY TableDomain
<1>3. StaffAgain!Grows(rows)
  <2>1. \A i \in 1..Len(rows) : \A u : OrgGood(u) =>
          LET v == IF u.ok THEN OrgStaff(u, rows[i]) ELSE u
          IN OrgGood(v) /\ StaffGrown(u, v)
    BY <1>2, StaffGrows DEF OrgGood
  <2>2. \A u : StaffGrown(u, u)
    BY DEF StaffGrown, SamePerson
  <2>3. \A u, v, w : StaffGrown(u, v) /\ StaffGrown(v, w) => StaffGrown(u, w)
    BY DEF StaffGrown, SamePerson
  <2> QED BY <2>1, <2>2, <2>3 DEF StaffAgain!Grows
<1>4. /\ OrgGood(StaffAgain!Through(s, rows))
      /\ StaffGrown(s, StaffAgain!Through(s, rows))
  BY <1>2, <1>3, StaffAgain!LoopGrows
<1>5. ASSUME NEW F, NEW t, StaffGrown(StaffAgain!Through(s, rows), F),
             StaffBeside(F, s, t)
      PROVE  StaffBeside(F, StaffAgain!Through(s, rows),
                               StaffAgain!Through(t, rows))
  <2>1. \A i \in 1..Len(rows) : \A u, v :
          /\ OrgGood(u) /\ StaffBeside(F, u, v)
          /\ StaffGrown(IF u.ok THEN OrgStaff(u, rows[i]) ELSE u, F)
          => StaffBeside(F, IF u.ok THEN OrgStaff(u, rows[i]) ELSE u,
                                  IF v.ok THEN OrgStaff(v, rows[i]) ELSE v)
    <3> SUFFICES ASSUME NEW i \in 1..Len(rows), NEW u, NEW v, OrgGood(u),
                        StaffBeside(F, u, v),
                        StaffGrown(IF u.ok THEN OrgStaff(u, rows[i]) ELSE u, F)
                 PROVE  StaffBeside(F, IF u.ok THEN OrgStaff(u, rows[i]) ELSE u,
                                             IF v.ok THEN OrgStaff(v, rows[i]) ELSE v)
      OBVIOUS
    <3>1. u.ok = TRUE /\ v.ok = TRUE
      BY DEF OrgGood, StaffBeside
    <3> QED BY <1>2, <3>1, StaffTwice
  <2> QED BY <1>2, <1>3, <1>5, <2>1, StaffAgain!LoopTwice
<1> QED BY <1>1, <1>4, <1>5

LEMMA SameTable ==
  ASSUME NEW a, IsTable(a), NEW b, IsTable(b), RowsBeside(a, a, b)
  PROVE  b = a
<1>1. /\ Len(a) \in Nat /\ DOMAIN a = 1..Len(a) /\ Len(b) \in Nat /\ DOMAIN b = 1..Len(b)
      /\ a = [i \in 1..Len(a) |-> a[i]] /\ b = [i \in 1..Len(b) |-> b[i]]
  BY TableDomain DEF IsTable
<1>2. DOMAIN a = DOMAIN b /\ \A i \in DOMAIN a : b[i] = a[i]
  BY DEF RowsBeside
<1> QED BY <1>1, <1>2

LEMMA SameRooms ==
  ASSUME NEW a, RoomsOK(a), NEW b, RoomsOK(b), RowsBeside(a, a, b)
  PROVE  b = a
<1>1. DOMAIN a = DOMAIN b /\ \A i \in DOMAIN a : b[i] = a[i]
  BY DEF RowsBeside
<1> QED BY <1>1 DEF RoomsOK, HasColumns

LEMMA SameOrg ==
  ASSUME NEW F, OrgGood(F), NEW t, OrgGood(t), t.cat = F.cat, t.accounts = F.accounts
  PROVE  t = F
BY DEF OrgGood, OrgOK, OrgShape, HasColumns

LEMMA OrgTwice ==
  ASSUME CodesAgree, NEW cat, SoundCatalogue(cat), NEW table, AccountsOK(table),
         NEW source \in OrgFiles
  PROVE  LET F == ImportOrg(cat, table, source)
         IN F.ok = TRUE /\ ImportOrg(F.cat, F.accounts, source) = F
<1> DEFINE Departments(t) == ForEach(UpsertDepartment, t, source.departments)
           Laboratories(t) == ForEach(OrgLaboratory, t, source.laboratories)
           Rooms(t) == ForEach(OrgRoom, t, source.rooms)
           Employees(t) == ForEach(OrgStaff, t, source.staff)
<1>1. PICK start : start = [ok |-> TRUE, cat |-> cat, accounts |-> table]
  OBVIOUS
<1>2. PICK d, l, r, F : /\ d = Departments(start) /\ l = Laboratories(d)
                        /\ r = Rooms(l) /\ F = Employees(r)
  OBVIOUS
<1>3. F = ImportOrg(cat, table, source)
  BY <1>1, <1>2 DEF ImportOrg
<1>4. OrgGood(start)
  <2>1. OrgShape(start) /\ start.ok = TRUE /\ start.cat = cat /\ start.accounts = table
    BY <1>1 DEF OrgShape, HasColumns
  <2> QED BY <2>1 DEF OrgGood, OrgOK, SoundTx
<1>5. /\ IsTable(source.departments) /\ IsTable(source.laboratories)
      /\ IsTable(source.rooms) /\ IsTable(source.staff)
      /\ \A i \in DOMAIN source.departments : FiledDepartment(source.departments[i])
      /\ \A i \in DOMAIN source.laboratories : FiledLaboratory(source.laboratories[i])
  <2>1. /\ IsTable(source.departments) /\ IsTable(source.laboratories)
        /\ IsTable(source.rooms) /\ IsTable(source.staff)
        /\ \A i \in DOMAIN source.departments : DepartmentShape(source.departments[i])
    BY FilesAssumption DEF Table, DepartmentShape
  <2>2. /\ \A i \in DOMAIN source.departments : source.departments[i] \in FiledDepartments
        /\ \A i \in DOMAIN source.laboratories :
             source.laboratories[i].code # None
               => [code |-> source.laboratories[i].code, title |-> source.laboratories[i].title]
                    \in FiledDepartments
    BY DEF FiledDepartments, Range
  <2>3. \A c, name : DepartmentShape([code |-> c, title |-> name])
    BY DEF DepartmentShape, HasColumns
  <2> QED BY <2>1, <2>2, <2>3 DEF FiledDepartment, FiledLaboratory
<1>6. /\ OrgGood(d) /\ DepartmentsGrown(start, d)
      /\ \A t : DepartmentsGrown(d, F) /\ DepartmentsBeside(F, start, t)
                  => DepartmentsBeside(F, d, Departments(t))
  BY <1>2, <1>4, <1>5, DepartmentsReadAgain
<1>7. /\ OrgGood(l) /\ DepartmentsGrown(d, l)
      /\ \A t : DepartmentsGrown(l, F) /\ DepartmentsBeside(F, d, t)
                  => DepartmentsBeside(F, l, Laboratories(t))
  BY <1>2, <1>5, <1>6, LaboratoriesReadAgain
<1>8. /\ OrgGood(r) /\ RoomsGrown(l, r)
      /\ \A t : RoomsGrown(r, F) /\ RoomsBeside(F, l, t) => RoomsBeside(F, r, Rooms(t))
  BY <1>2, <1>5, <1>7, RoomsReadAgain
<1>9. /\ OrgGood(F) /\ StaffGrown(r, F)
      /\ \A t : StaffGrown(F, F) /\ StaffBeside(F, r, t) => StaffBeside(F, F, Employees(t))
  BY <1>2, <1>5, <1>8, StaffReadAgain
<1> HIDE DEF Departments, Laboratories, Rooms, Employees
<1>10. F.cat = r.cat /\ Apart(l.cat, F.cat, {"rooms"}) /\ RoomsGrown(r, F) /\ StaffGrown(F, F)
  BY <1>8, <1>9, OrgColumns DEF StaffGrown, RoomsGrown, Apart, SamePerson
<1>11. /\ F.cat.departments = l.cat.departments /\ F.cat.laboratories = l.cat.laboratories
  BY <1>10 DEF Apart, Columns
<1>12. DepartmentsGrown(l, F) /\ DepartmentsGrown(d, F) /\ DepartmentsGrown(start, F)
  BY <1>6, <1>7, <1>11 DEF DepartmentsGrown
<1>13. DepartmentsBeside(F, start, F)
  BY <1>9, <1>12, OrgColumns DEF DepartmentsBeside, DepartmentsGrown, RowsBeside, Apart
<1>14. PICK dl : dl = Laboratories(Departments(F))
  OBVIOUS
<1>15. DepartmentsBeside(F, l, dl)
  BY <1>6, <1>7, <1>12, <1>13, <1>14
<1>16. dl = F
  <2>1. OrgGood(dl) /\ dl.accounts = F.accounts /\ Apart(F.cat, dl.cat, {"departments"})
        /\ RowsBeside(F.cat.departments, F.cat.departments, dl.cat.departments)
    BY <1>11, <1>15 DEF DepartmentsBeside
  <2>2. dl.cat.departments = F.cat.departments
    BY <1>9, <2>1, OrgColumns, SameTable
  <2>3. dl.cat = F.cat
    BY <2>1, <2>2, ApartNowhere
  <2> QED BY <1>9, <2>1, <2>3, SameOrg
<1>17. RoomsBeside(F, l, F)
  BY <1>8, <1>9, <1>10, OrgColumns DEF RoomsBeside, RoomsGrown, RowsBeside, Apart
<1>18. Rooms(F) = F
  <2>1. PICK t : t = Rooms(F)
    OBVIOUS
  <2>2. RoomsBeside(F, r, t)
    BY <1>8, <1>10, <1>17, <2>1
  <2>3. OrgGood(t) /\ t.accounts = F.accounts /\ Apart(F.cat, t.cat, {"rooms"})
        /\ RowsBeside(F.cat.rooms, F.cat.rooms, t.cat.rooms)
    BY <1>10, <2>2 DEF RoomsBeside
  <2>4. RoomsOK(F.cat.rooms) /\ RoomsOK(t.cat.rooms)
    BY <1>9, <2>3, OrgColumns, SoundColumns
  <2>5. t.cat.rooms = F.cat.rooms
    BY <2>3, <2>4, SameRooms
  <2>6. t.cat = F.cat
    BY <2>3, <2>5, ApartNowhere
  <2> QED BY <1>9, <2>1, <2>3, <2>6, SameOrg
<1>19. StaffBeside(F, r, F)
  BY <1>9 DEF StaffBeside, StaffGrown, RowsBeside
<1>20. Employees(F) = F
  <2>1. PICK t : t = Employees(F)
    OBVIOUS
  <2>2. StaffBeside(F, F, t)
    BY <1>9, <1>10, <1>19, <2>1
  <2>3. IsTable(F.accounts) /\ IsTable(t.accounts)
    BY <1>9, <2>2, OrgColumns, AccountRows DEF StaffBeside
  <2>4. t.accounts = F.accounts
    BY <2>2, <2>3, SameTable DEF StaffBeside
  <2> QED BY <1>9, <2>1, <2>2, <2>4, SameOrg DEF StaffBeside
<1>21. ImportOrg(F.cat, F.accounts, source) = Employees(Rooms(Laboratories(Departments(F))))
  <2>1. F = [ok |-> TRUE, cat |-> F.cat, accounts |-> F.accounts]
    BY <1>9 DEF OrgGood, OrgOK, OrgShape, HasColumns
  <2> QED BY <2>1 DEF ImportOrg, Departments, Laboratories, Rooms, Employees
<1>22. F.ok = TRUE
  BY <1>9 DEF OrgGood
<1> QED BY <1>3, <1>14, <1>16, <1>18, <1>20, <1>21, <1>22

-------------------------------------------------------------------------------
(* The theorem                                                               *)

(* While a command is under way none has just ended.                         *)
LastEnded == job # NoJob => last = Nothing

LEMMA LastEndedStays ==
  ASSUME LastEnded, [Next]_vars
  PROVE  LastEnded'
<1>1. job.kind # "none" => job # NoJob
  BY DEF NoJob
<1>2. CASE \E source \in Journals : ImportLrAccounting(source)
  BY <1>2 DEF ImportLrAccounting, Commit, Start, Idle, LastEnded
<1>3. CASE \E source \in OrgFiles : ImportStudlabOrg(source)
  BY <1>3 DEF ImportStudlabOrg, Commit, Start, Idle, LastEnded
<1>4. CASE \E name \in DraftSemesters : BeginDrafts(name)
  BY <1>4 DEF BeginDrafts, LastEnded
<1>5. CASE NextDraft
  BY <1>5 DEF NextDraft, LastEnded
<1>6. CASE \E include \in BOOLEAN : BeginWorkload(include)
  BY <1>6 DEF BeginWorkload, LastEnded
<1>7. CASE NextWorkloadGroup \/ EndWorkload \/ SaveUser
  BY <1>1, <1>7 DEF NextWorkloadGroup, EndWorkload, SaveUser, LastEnded
<1>8. CASE \E file \in DekanatFiles : BeginDekanat(file)
  BY <1>8 DEF BeginDekanat, LastEnded
<1>9. CASE SaveProfile \/ SaveCatalogueRow
  BY <1>9 DEF SaveProfile, SaveCatalogueRow, RowDone, LastEnded
<1>10. CASE \E center \in RepairCenters : Repair(center)
  BY <1>10 DEF Repair, LastEnded
<1>11. CASE Killed
  BY <1>11 DEF Killed, LastEnded
<1>12. CASE UNCHANGED vars
  BY <1>12 DEF vars, LastEnded
<1> QED BY <1>2, <1>3, <1>4, <1>5, <1>6, <1>7, <1>8, <1>9, <1>10, <1>11, <1>12 DEF Next

(* What a step can do to the command that has just ended.                    *)
EndsOther ==
  \/ UNCHANGED <<catalogue, accounts, last>>
  \/ last' = Nothing \/ last'.kind \in {"journals", "drafts"}

LEMMA LastCommand ==
  ASSUME LastEnded, [Next]_vars, ~SaveProfile, ~SaveCatalogueRow,
         ~\E source \in OrgFiles : ImportStudlabOrg(source)
  PROVE  EndsOther
<1>1. job.kind # "none" => job # NoJob
  BY DEF NoJob
<1>2. CASE \E source \in Journals : ImportLrAccounting(source)
  BY <1>2 DEF ImportLrAccounting, Commit, EndsOther
<1>3. CASE NextDraft
  BY <1>3 DEF NextDraft, EndsOther
<1>4. CASE NextWorkloadGroup \/ EndWorkload \/ SaveUser
  BY <1>1, <1>4 DEF NextWorkloadGroup, EndWorkload, SaveUser, LastEnded, EndsOther
<1>5. CASE \E name \in DraftSemesters : BeginDrafts(name)
  BY <1>5 DEF BeginDrafts, EndsOther
<1>6. CASE \E include \in BOOLEAN : BeginWorkload(include)
  BY <1>6 DEF BeginWorkload, EndsOther
<1>7. CASE \E file \in DekanatFiles : BeginDekanat(file)
  BY <1>7 DEF BeginDekanat, EndsOther
<1>8. CASE \E center \in RepairCenters : Repair(center)
  BY <1>8 DEF Repair, EndsOther
<1>9. CASE Killed
  BY <1>9 DEF Killed, EndsOther
<1>10. CASE UNCHANGED vars
  BY <1>10 DEF vars, EndsOther
<1> QED BY <1>2, <1>3, <1>4, <1>5, <1>6, <1>7, <1>8, <1>9, <1>10 DEF Next

-------------------------------------------------------------------------------
(* The organisation                                                          *)

OrgEnded == last.kind = "org" => RerunChangesNothing

LEMMA OrgAgain ==
  ASSUME CodesAgree, IInv, NEW source \in OrgFiles, ImportStudlabOrg(source)
  PROVE  OrgEnded'
<1> DEFINE F == ImportOrg(catalogue, accounts, source)
<1>1. F.ok = TRUE /\ ImportOrg(F.cat, F.accounts, source) = F
  BY OrgTwice DEF IInv, TypeOK
<1> HIDE DEF F
<1>2. /\ catalogue' = F.cat /\ accounts' = F.accounts
      /\ last' = [kind |-> "org", source |-> source, ok |-> TRUE]
  BY <1>1 DEF ImportStudlabOrg, Commit, F
<1>3. Again' = F
  <2>1. last'.kind = "org" /\ last'.source = source
    BY <1>2
  <2>2. ImportOrg(catalogue', accounts', last'.source) = F
    BY <1>1, <1>2, <2>1
  <2> QED BY <2>1, <2>2 DEF Again
<1> QED BY <1>1, <1>2, <1>3 DEF OrgEnded, RerunChangesNothing

(* import_studlab_org, run again right after it has succeeded, succeeds and  *)
(* changes nothing, whatever was imported and killed before, provided a code *)
(* is one department's in all its files and in the database before. Without  *)
(* that it does: a department is found by its code before its title, and the *)
(* code a row of the same run has given away finds another one next time.    *)
THEOREM OrgRerunChangesNothing ==
  ASSUME CodesAgree
  PROVE  Spec => [](last.kind = "org" => RerunChangesNothing)
<1>1. Init => LastEnded /\ OrgEnded
  BY DEF Init, LastEnded, OrgEnded, Nothing
<1>2. IInv /\ LastEnded /\ OrgEnded /\ [Next]_vars => OrgEnded'
  <2> SUFFICES ASSUME IInv, LastEnded, OrgEnded, [Next]_vars
               PROVE  OrgEnded'
    OBVIOUS
  <2>1. CASE UNCHANGED <<catalogue, accounts, last>>
    BY <2>1 DEF OrgEnded, RerunChangesNothing, Again
  <2>2. CASE EndsOther
    BY <2>1, <2>2 DEF EndsOther, OrgEnded, Nothing
  <2>3. CASE \E source \in OrgFiles : ImportStudlabOrg(source)
    BY <2>3, OrgAgain
  <2>4. CASE SaveProfile \/ SaveCatalogueRow
    BY <2>4 DEF SaveProfile, SaveCatalogueRow, RowDone, Nothing, OrgEnded
  <2> QED BY <2>2, <2>3, <2>4, LastCommand
<1>3. OrgEnded => (last.kind = "org" => RerunChangesNothing)
  BY DEF OrgEnded
<1> QED BY <1>1, <1>2, <1>3, LastEndedStays, AlwaysSound, PTL DEF Spec

-------------------------------------------------------------------------------
(* The rows of the dekanat                                                   *)

DekanatShape(t) == HasColumns(t, {"ok", "cat", "accounts", "type"})
DekanatGood(t) ==
  /\ DekanatShape(t) /\ t.ok = TRUE
  /\ SoundCatalogue(t.cat) /\ AccountsOK(t.accounts)

(* The table t has of each cell what s or F has of it.                       *)
CellsBeside(F, s, t, columns) ==
  /\ DOMAIN t = DOMAIN F /\ DOMAIN s \subseteq DOMAIN F
  /\ \A i \in DOMAIN F : \A c \in columns :
       t[i][c] = F[i][c] \/ (i \in DOMAIN s /\ t[i][c] = s[i][c])

LEMMA CellsWritten ==
  ASSUME NEW F, NEW s, NEW t, NEW columns, CellsBeside(F, s, t, columns), NEW i \in DOMAIN F,
         NEW row, NEW u, RowWritten(s, i, row, u), NEW other, NEW v, RowWritten(t, i, other, v),
         \A c \in columns : other[c] = row[c] \/ other[c] = F[i][c]
  PROVE  CellsBeside(F, u, v, columns)
BY DEF CellsBeside, RowWritten

AccountColumns ==
  {"email", "role", "groupName", "group", "record", "center", "laboratory", "disciplines"}
DisciplineColumns == {"code", "title", "semester", "centers", "laboratories"}

LEMMA CellsSame ==
  ASSUME NEW columns, NEW a, IsTable(a), NEW b, IsTable(b), CellsBeside(a, a, b, columns),
         \A i \in DOMAIN a : HasColumns(a[i], columns),
         \A i \in DOMAIN b : HasColumns(b[i], columns)
  PROVE  b = a
<1>1. DOMAIN a = DOMAIN b /\ \A i \in DOMAIN a : b[i] = a[i]
  BY DEF CellsBeside, HasColumns
<1> QED BY <1>1, SameTable DEF RowsBeside

-------------------------------------------------------------------------------
(* Students and staff of the dekanat                                         *)

(* The account as it is when both its rows have been saved.                  *)
DekanatPerson(t, row, i) ==
  LET old == IF i \in DOMAIN t.accounts THEN t.accounts[i] ELSE NewAccount(row.email, row.role)
      found == Where(t.cat.disciplines, LAMBDA d : d.code = row.code)
      binds == /\ row.role # "TEACHER" /\ row.center = Center
               /\ JournalLaboratory \in t.cat.laboratories
  IN IF t.type = "students"
     THEN [old EXCEPT !.role = row.role, !.groupName = row.group, !.record = row.record,
                      !.group = IF row.group \in DOMAIN t.cat.groups THEN row.group ELSE @]
     ELSE [old EXCEPT !.role = row.role,
                      !.center = IF row.center = None THEN @ ELSE row.center,
                      !.laboratory = IF @ = None /\ binds THEN JournalLaboratory ELSE @,
                      !.disciplines = IF found = {} THEN @ ELSE @ \cup {Min(found)}]

PersonSaved(t, row, i, new) ==
  /\ DekanatGood(new) /\ new.cat = t.cat /\ new.type = t.type
  /\ AccountSaved(t.accounts, i, DekanatPerson(t, row, i), new.accounts)
  /\ AccountShape(DekanatPerson(t, row, i)) /\ DekanatPerson(t, row, i).email = row.email

(* The profile written over the account just saved.                          *)
LEMMA ProfileSaved ==
  ASSUME NEW table, AccountsOK(table), NEW i, NEW user, AccountShape(user), NEW users,
         AccountSaved(table, i, user, users), NEW person, AccountShape(person),
         person.email = user.email
  PROVE  /\ Min(ByEmail(users, user.email)) = i /\ users[i] = user
         /\ \A new : Reprofiled(users, i, person, new) => AccountSaved(table, i, person, new)
<1> DEFINE found == ByEmail(users, user.email)
<1>1. /\ AccountsOK(users) /\ DOMAIN users = DOMAIN table \cup {i} /\ users[i] = user
      /\ \A k \in DOMAIN table \ {i} : users[k] = table[k]
      /\ \A k \in DOMAIN table : table[k].email = user.email <=> k = i
  BY DEF AccountSaved, RowWritten
<1>2. found = {i}
  BY <1>1 DEF ByEmail, Where
<1>3. DOMAIN users \subseteq Nat
  BY <1>1, AccountRows, TableDomain
<1>4. Min(found) \in found
  BY <1>1, <1>2, <1>3, LeastOf
<1>5. SUFFICES ASSUME NEW new, Reprofiled(users, i, person, new)
              PROVE  AccountSaved(table, i, person, new)
  BY <1>1, <1>2, <1>4
<1>6. AccountsOK(new)
  BY <1>1, <1>5, ProfileWritten
<1>7. /\ DOMAIN new = DOMAIN users /\ new[i] = person
      /\ \A k \in DOMAIN users \ {i} : new[k] = users[k]
  BY <1>1, <1>5 DEF Reprofiled
<1> QED BY <1>1, <1>6, <1>7 DEF AccountSaved, RowWritten

LEMMA UserSaved ==
  ASSUME NEW table, AccountsOK(table), NEW row, row.email # None
  PROVE  \E i, user : /\ AccountSaved(table, i, user, UpsertUser(table, row))
                      /\ AccountShape(user) /\ user.email = row.email
                      /\ LET old == IF i \in DOMAIN table THEN table[i]
                                    ELSE NewAccount(row.email, row.role)
                         IN AccountShape(old) /\ user = [old EXCEPT !.role = row.role]
<1>1. PICK old, user : /\ old = Account(table, row.email, row.role)
                       /\ user = [old EXCEPT !.role = row.role]
  OBVIOUS
<1>2. AccountShape(old) /\ old.email = row.email
  BY <1>1, AccountFound
<1>3. AccountShape(user) /\ user.email = row.email
  BY <1>1, <1>2 DEF AccountShape, HasColumns
<1>4. UpsertUser(table, row) = PutAccount(table, user)
  BY <1>1 DEF UpsertUser, RowEmail
<1>5. PICK i : AccountSaved(table, i, user, PutAccount(table, user))
  BY <1>3, AccountPut
<1>6. old = IF i \in DOMAIN table THEN table[i] ELSE NewAccount(row.email, row.role)
  BY <1>1, <1>3, <1>5, AccountOf DEF AccountSaved
<1> QED BY <1>1, <1>2, <1>3, <1>4, <1>5, <1>6

LEMMA TypedAccounts ==
  ASSUME NEW t, DekanatGood(t), NEW table, AccountsOK(table)
  PROVE  LET new == [t EXCEPT !.accounts = table]
         IN /\ DekanatGood(new) /\ new.cat = t.cat /\ new.type = t.type /\ new.accounts = table
<1> DEFINE new == [t EXCEPT !.accounts = table]
<1>1. /\ DekanatShape(new) /\ new.ok = t.ok
      /\ new.cat = t.cat /\ new.type = t.type /\ new.accounts = table
  BY DEF DekanatGood, DekanatShape, HasColumns
<1> HIDE DEF new
<1>2. DekanatGood(new)
  BY <1>1 DEF DekanatGood
<1> QED BY <1>1, <1>2 DEF new

LEMMA StudentPut ==
  ASSUME NEW t, DekanatGood(t), t.type = "students", NEW row, row.email # None
  PROVE  \E i : PersonSaved(t, row, i, DekanatRow(t, row))
<1> DEFINE users == UpsertUser(t.accounts, row)
           groups == DOMAIN t.cat.groups
<1>1. AccountsOK(t.accounts)
  BY DEF DekanatGood
<1>2. PICK i, user : /\ AccountSaved(t.accounts, i, user, users)
                     /\ AccountShape(user) /\ user.email = row.email
                     /\ LET old == IF i \in DOMAIN t.accounts THEN t.accounts[i]
                                   ELSE NewAccount(row.email, row.role)
                        IN AccountShape(old) /\ user = [old EXCEPT !.role = row.role]
  BY <1>1, UserSaved
<1>3. PICK old : /\ old = IF i \in DOMAIN t.accounts THEN t.accounts[i]
                          ELSE NewAccount(row.email, row.role)
                 /\ AccountShape(old) /\ user = [old EXCEPT !.role = row.role]
  BY <1>2
<1>4. PICK group : group = IF row.group \in groups THEN row.group ELSE old.group
  OBVIOUS
<1>5. PICK person : person = [user EXCEPT !.groupName = row.group, !.record = row.record,
                                          !.group = group]
  OBVIOUS
<1>6. AccountShape(person) /\ person.email = user.email
  BY <1>2, <1>5 DEF AccountShape, HasColumns
<1> HIDE DEF users
<1>a. PICK table : Reprofiled(users, i, person, table)
  BY DEF Reprofiled
<1>7. /\ Min(ByEmail(users, row.email)) = i /\ users[i] = user
      /\ AccountSaved(t.accounts, i, person, table)
  <2>1. Min(ByEmail(users, user.email)) = i /\ users[i] = user
        /\ AccountSaved(t.accounts, i, person, table)
    <3>1. /\ AccountSaved(t.accounts, i, user, users) /\ AccountShape(user)
          /\ Reprofiled(users, i, person, table)
      BY <1>2, <1>a
    <3> QED BY ONLY <1>1, <1>6, <3>1, ProfileSaved
  <2> QED BY <1>2, <2>1
<1>8. i \in DOMAIN users
  BY <1>2 DEF AccountSaved, RowWritten
<1>9. user.group = old.group
  BY <1>3 DEF AccountShape, HasColumns
<1>10. StudentProfile(users, row, row.email, groups) = [users EXCEPT ![i] = person]
  <2>1. [users EXCEPT ![i].groupName = row.group, ![i].record = row.record, ![i].group = group]
          = [users EXCEPT ![i] = person]
    BY <1>2, <1>5, <1>7, <1>8 DEF AccountShape, HasColumns
  <2>2. StudentProfile(users, row, row.email, groups)
          = [users EXCEPT ![i].groupName = row.group, ![i].record = row.record,
                          ![i].group = group]
    BY <1>2, <1>4, <1>7, <1>8, <1>9 DEF StudentProfile, AccountShape, HasColumns
  <2> QED BY <2>1, <2>2
<1>11. DekanatPerson(t, row, i) = person
  <2>1. DekanatPerson(t, row, i) =
          [old EXCEPT !.role = row.role, !.groupName = row.group, !.record = row.record,
                      !.group = group]
    BY <1>3, <1>4 DEF DekanatPerson, AccountShape, HasColumns
  <2> QED BY <1>3, <1>5, <2>1 DEF AccountShape, HasColumns
<1>12. table = [users EXCEPT ![i] = person]
  BY <1>a DEF Reprofiled
<1>13. DekanatRow(t, row) = [t EXCEPT !.accounts = table]
  BY <1>10, <1>12 DEF DekanatRow, users
<1>14. PICK new : new = [t EXCEPT !.accounts = table]
  OBVIOUS
<1>15. AccountsOK(table)
  BY <1>7, <1>12 DEF AccountSaved
<1>16. DekanatGood(new) /\ new.cat = t.cat /\ new.type = t.type /\ new.accounts = table
  BY <1>14, <1>15, TypedAccounts
<1> QED BY <1>2, <1>6, <1>7, <1>11, <1>12, <1>13, <1>14, <1>16 DEF PersonSaved

LEMMA StaffMemberPut ==
  ASSUME NEW t, DekanatGood(t), t.type = "staff", NEW row, row.email # None
  PROVE  \E i : PersonSaved(t, row, i, DekanatRow(t, row))
<1> DEFINE users == UpsertUser(t.accounts, row)
           found == Where(t.cat.disciplines, LAMBDA d : d.code = row.code)
           binds == /\ row.role # "TEACHER" /\ row.center = Center
                    /\ JournalLaboratory \in t.cat.laboratories
<1>1. AccountsOK(t.accounts)
  BY DEF DekanatGood
<1>2. PICK i, user : /\ AccountSaved(t.accounts, i, user, users)
                     /\ AccountShape(user) /\ user.email = row.email
                     /\ LET old == IF i \in DOMAIN t.accounts THEN t.accounts[i]
                                   ELSE NewAccount(row.email, row.role)
                        IN AccountShape(old) /\ user = [old EXCEPT !.role = row.role]
  BY <1>1, UserSaved
<1>3. PICK old : /\ old = IF i \in DOMAIN t.accounts THEN t.accounts[i]
                          ELSE NewAccount(row.email, row.role)
                 /\ AccountShape(old) /\ user = [old EXCEPT !.role = row.role]
  BY <1>2
<1>4. PICK center, laboratory, disciplines :
        /\ center = IF row.center = None THEN old.center ELSE row.center
        /\ laboratory = IF old.laboratory = None /\ binds THEN JournalLaboratory
                        ELSE old.laboratory
        /\ disciplines = IF found = {} THEN old.disciplines
                         ELSE old.disciplines \cup {Min(found)}
  OBVIOUS
<1>5. PICK person : person = [user EXCEPT !.center = center, !.laboratory = laboratory,
                                          !.disciplines = disciplines]
  OBVIOUS
<1>6. AccountShape(person) /\ person.email = user.email
  BY <1>2, <1>5 DEF AccountShape, HasColumns
<1> HIDE DEF users
<1>a. PICK table : Reprofiled(users, i, person, table)
  BY DEF Reprofiled
<1>7. /\ Min(ByEmail(users, row.email)) = i /\ users[i] = user
      /\ AccountSaved(t.accounts, i, person, table)
  <2>1. Min(ByEmail(users, user.email)) = i /\ users[i] = user
        /\ AccountSaved(t.accounts, i, person, table)
    <3>1. /\ AccountSaved(t.accounts, i, user, users) /\ AccountShape(user)
          /\ Reprofiled(users, i, person, table)
      BY <1>2, <1>a
    <3> QED BY ONLY <1>1, <1>6, <3>1, ProfileSaved
  <2> QED BY <1>2, <2>1
<1>8. i \in DOMAIN users
  BY <1>2 DEF AccountSaved, RowWritten
<1>9. /\ user.center = old.center /\ user.laboratory = old.laboratory
      /\ user.disciplines = old.disciplines
  BY <1>3 DEF AccountShape, HasColumns
<1>10. StaffProfile(users, row, row.email, t.cat) = [users EXCEPT ![i] = person]
  <2>1. [users EXCEPT ![i].center = center, ![i].laboratory = laboratory,
                      ![i].disciplines = disciplines]
          = [users EXCEPT ![i] = person]
    BY <1>2, <1>5, <1>7, <1>8 DEF AccountShape, HasColumns
  <2>2. StaffProfile(users, row, row.email, t.cat)
          = [users EXCEPT ![i].center = center, ![i].laboratory = laboratory,
                          ![i].disciplines = disciplines]
    <3> HIDE DEF found
    <3>1. StaffProfile(users, row, row.email, t.cat)
          = [users EXCEPT ![i].center = IF row.center = None THEN @ ELSE row.center,
                          ![i].laboratory = IF user.laboratory = None /\ binds
                                            THEN JournalLaboratory ELSE user.laboratory,
                          ![i].disciplines = IF found = {} THEN @ ELSE @ \cup {Min(found)}]
      BY <1>7 DEF StaffProfile, found
    <3>2. StaffProfile(users, row, row.email, t.cat)
          = [users EXCEPT ![i].center = IF row.center = None THEN user.center ELSE row.center,
                          ![i].laboratory = IF user.laboratory = None /\ binds
                                            THEN JournalLaboratory ELSE user.laboratory,
                          ![i].disciplines = IF found = {} THEN user.disciplines
                                             ELSE user.disciplines \cup {Min(found)}]
      BY <1>2, <1>7, <1>8, <3>1 DEF AccountShape, HasColumns
    <3> QED BY <1>4, <1>9, <3>2
  <2> QED BY <2>1, <2>2
<1>11. DekanatPerson(t, row, i) = person
  <2>1. DekanatPerson(t, row, i) =
          [old EXCEPT !.role = row.role, !.center = center, !.laboratory = laboratory,
                      !.disciplines = disciplines]
    <3> HIDE DEF found
    <3>1. DekanatPerson(t, row, i) =
            [old EXCEPT !.role = row.role,
                        !.center = IF row.center = None THEN @ ELSE row.center,
                        !.laboratory = IF @ = None /\ binds THEN JournalLaboratory ELSE @,
                        !.disciplines = IF found = {} THEN @ ELSE @ \cup {Min(found)}]
      BY <1>3 DEF DekanatPerson, found
    <3> QED BY <1>3, <1>4, <3>1 DEF AccountShape, HasColumns
  <2> QED BY <1>3, <1>5, <2>1 DEF AccountShape, HasColumns
<1>12. table = [users EXCEPT ![i] = person]
  BY <1>a DEF Reprofiled
<1>13. DekanatRow(t, row) = [t EXCEPT !.accounts = table]
  BY <1>10, <1>12 DEF DekanatRow, users
<1>14. PICK new : new = [t EXCEPT !.accounts = table]
  OBVIOUS
<1>15. AccountsOK(table)
  BY <1>7, <1>12 DEF AccountSaved
<1>16. DekanatGood(new) /\ new.cat = t.cat /\ new.type = t.type /\ new.accounts = table
  BY <1>14, <1>15, TypedAccounts
<1> QED BY <1>2, <1>6, <1>7, <1>11, <1>12, <1>13, <1>14, <1>16 DEF PersonSaved

LEMMA PersonPut ==
  ASSUME NEW t, DekanatGood(t), t.type \in {"students", "staff"}, NEW row, row.email # None
  PROVE  \E i : PersonSaved(t, row, i, DekanatRow(t, row))
BY StudentPut, StaffMemberPut

(* The columns of that account, from those of the old one.                   *)
PersonBefore(t, row, i) ==
  IF i \in DOMAIN t.accounts THEN t.accounts[i] ELSE NewAccount(row.email, row.role)
Binds(cat, row) ==
  /\ row.role # "TEACHER" /\ row.center = Center /\ JournalLaboratory \in cat.laboratories
PersonColumns(t, row, old, new) ==
  /\ new.email = old.email /\ new.role = row.role
  /\ t.type = "students" =>
       /\ new.groupName = row.group /\ new.record = row.record
       /\ new.group = IF row.group \in DOMAIN t.cat.groups THEN row.group ELSE old.group
       /\ new.center = old.center /\ new.laboratory = old.laboratory
       /\ new.disciplines = old.disciplines
  /\ t.type # "students" =>
       /\ new.groupName = old.groupName /\ new.record = old.record /\ new.group = old.group
       /\ new.center = IF row.center = None THEN old.center ELSE row.center
       /\ new.laboratory = IF old.laboratory = None /\ Binds(t.cat, row) THEN JournalLaboratory
                           ELSE old.laboratory
       /\ LET found == Where(t.cat.disciplines, LAMBDA d : d.code = row.code)
          IN new.disciplines = IF found = {} THEN old.disciplines
                               ELSE old.disciplines \cup {Min(found)}

LEMMA PersonOf ==
  ASSUME NEW t, DekanatGood(t), NEW row, NEW i
  PROVE  PersonColumns(t, row, PersonBefore(t, row, i), DekanatPerson(t, row, i))
<1> DEFINE found == Where(t.cat.disciplines, LAMBDA d : d.code = row.code)
<1>1. PICK old : old = PersonBefore(t, row, i)
  OBVIOUS
<1>2. AccountShape(old)
  <2>1. AccountShape(NewAccount(row.email, row.role))
    BY DEF AccountShape, NewAccount, HasColumns
  <2>2. i \in DOMAIN t.accounts => AccountShape(t.accounts[i])
    BY AccountRows DEF DekanatGood
  <2> QED BY <1>1, <2>1, <2>2 DEF PersonBefore
<1>3. PICK set : set = found
  OBVIOUS
<1>4. DekanatPerson(t, row, i) =
        IF t.type = "students"
        THEN [old EXCEPT !.role = row.role, !.groupName = row.group, !.record = row.record,
                         !.group = IF row.group \in DOMAIN t.cat.groups THEN row.group ELSE @]
        ELSE [old EXCEPT !.role = row.role,
                         !.center = IF row.center = None THEN @ ELSE row.center,
                         !.laboratory = IF @ = None /\ Binds(t.cat, row) THEN JournalLaboratory
                                        ELSE @,
                         !.disciplines = IF set = {} THEN @ ELSE @ \cup {Min(set)}]
  BY <1>1, <1>3 DEF DekanatPerson, PersonBefore, Binds
<1> HIDE DEF found
<1>5. PICK new : new = DekanatPerson(t, row, i)
  OBVIOUS
<1>6. PersonColumns(t, row, old, new)
  <2>1. CASE t.type = "students"
    BY <1>2, <1>4, <1>5, <2>1 DEF PersonColumns, AccountShape, HasColumns
  <2>2. CASE t.type # "students"
    BY <1>2, <1>3, <1>4, <1>5, <2>2 DEF PersonColumns, AccountShape, HasColumns, found
  <2> QED BY <2>1, <2>2
<1> QED BY <1>1, <1>5, <1>6

PeopleGrown(u, v) ==
  /\ v.type = u.type /\ v.cat = u.cat /\ DOMAIN u.accounts \subseteq DOMAIN v.accounts
  /\ \A i \in DOMAIN u.accounts :
       LET a == u.accounts[i]
           b == v.accounts[i]
       IN /\ b.email = a.email /\ a.disciplines \subseteq b.disciplines
          /\ a.laboratory # None => b.laboratory = a.laboratory
PeopleBeside(F, s, t) ==
  /\ DekanatGood(t) /\ t.type = F.type /\ t.cat = F.cat
  /\ CellsBeside(F.accounts, s.accounts, t.accounts, AccountColumns)

LEMMA PeopleGrow ==
  ASSUME NEW t, DekanatGood(t), t.type \in {"students", "staff"}, NEW row, row.email # None
  PROVE  DekanatGood(DekanatRow(t, row)) /\ PeopleGrown(t, DekanatRow(t, row))
<1>1. PICK new : new = DekanatRow(t, row)
  OBVIOUS
<1>2. PICK i : PersonSaved(t, row, i, new)
  BY <1>1, PersonPut
<1>3. PICK old, person : old = PersonBefore(t, row, i) /\ person = DekanatPerson(t, row, i)
  OBVIOUS
<1>4. PersonColumns(t, row, old, person)
  BY <1>3, PersonOf
<1>5. /\ person.email = old.email /\ old.disciplines \subseteq person.disciplines
      /\ old.laboratory # None => person.laboratory = old.laboratory
  BY <1>4 DEF PersonColumns
<1>6. /\ DOMAIN new.accounts = DOMAIN t.accounts \cup {i} /\ new.accounts[i] = person
      /\ \A k \in DOMAIN t.accounts \ {i} : new.accounts[k] = t.accounts[k]
  BY <1>2, <1>3 DEF PersonSaved, AccountSaved, RowWritten
<1>7. i \in DOMAIN t.accounts => old = t.accounts[i]
  BY <1>3 DEF PersonBefore
<1>8. PeopleGrown(t, new)
  BY <1>2, <1>5, <1>6, <1>7 DEF PeopleGrown, PersonSaved
<1> QED BY <1>1, <1>2, <1>8 DEF PersonSaved

LEMMA PeopleTwice ==
  ASSUME NEW F, DekanatGood(F), NEW u, DekanatGood(u), u.type \in {"students", "staff"}, NEW v,
         NEW row, row.email # None, PeopleGrown(DekanatRow(u, row), F), PeopleBeside(F, u, v)
  PROVE  PeopleBeside(F, DekanatRow(u, row), DekanatRow(v, row))
<1> DEFINE fs == F.accounts
           us == u.accounts
           vs == v.accounts
<1>1. PICK p, q : p = DekanatRow(u, row) /\ q = DekanatRow(v, row)
  OBVIOUS
<1>2. PeopleGrown(u, p) /\ PeopleGrown(p, F)
  BY <1>1, PeopleGrow
<1>3. /\ DekanatGood(v) /\ v.type = u.type /\ v.cat = u.cat /\ F.cat = u.cat /\ F.type = u.type
      /\ CellsBeside(fs, us, vs, AccountColumns)
  BY <1>2 DEF PeopleBeside, PeopleGrown
<1>4. PICK i : PersonSaved(u, row, i, p)
  BY <1>1, PersonPut
<1>5. PICK k : PersonSaved(v, row, k, q)
  BY <1>1, <1>3, PersonPut
<1>6. PICK ou, a : ou = PersonBefore(u, row, i) /\ a = DekanatPerson(u, row, i)
  OBVIOUS
<1>7. PICK ov, b : ov = PersonBefore(v, row, i) /\ b = DekanatPerson(v, row, i)
  OBVIOUS
<1>8. PersonColumns(u, row, ou, a) /\ PersonColumns(v, row, ov, b)
  BY <1>3, <1>6, <1>7, PersonOf
<1>9. /\ DOMAIN p.accounts = DOMAIN us \cup {i} /\ p.accounts[i] = a /\ a.email = row.email
      /\ \A n \in DOMAIN us : us[n].email = a.email <=> n = i
  BY <1>4, <1>6 DEF PersonSaved, AccountSaved, RowWritten
<1>10. /\ i \in DOMAIN fs /\ fs[i].email = row.email /\ a.disciplines \subseteq fs[i].disciplines
       /\ a.laboratory # None => fs[i].laboratory = a.laboratory
  BY <1>2, <1>9 DEF PeopleGrown
<1>11. i \in DOMAIN vs /\ DOMAIN us \subseteq DOMAIN fs
       /\ \A c \in AccountColumns : vs[i][c] = fs[i][c] \/ (i \in DOMAIN us /\ vs[i][c] = us[i][c])
  BY <1>3, <1>10 DEF CellsBeside
<1>12. vs[i].email = row.email
  BY <1>9, <1>10, <1>11 DEF AccountColumns
<1>13. k = i
  BY <1>5, <1>11, <1>12 DEF PersonSaved, AccountSaved
<1>14. ov = vs[i]
  BY <1>7, <1>11 DEF PersonBefore
<1>15. i \in DOMAIN us => ou = us[i]
  BY <1>6 DEF PersonBefore
<1>16. i \notin DOMAIN us => ou.laboratory = None /\ ou.disciplines = {}
  BY <1>6 DEF PersonBefore, NewAccount
<1>17. \A c \in AccountColumns : b[c] = a[c] \/ b[c] = fs[i][c]
  <2>1. \A c \in AccountColumns : ov[c] = fs[i][c] \/ (i \in DOMAIN us /\ ov[c] = ou[c])
    BY <1>11, <1>14, <1>15
  <2> HIDE DEF fs, us, vs
  <2>2. b.email = a.email \/ b.email = fs[i].email
    BY <1>8, <2>1 DEF PersonColumns, AccountColumns
  <2>3. b.role = a.role
    BY <1>8 DEF PersonColumns
  <2>4. /\ b.groupName = a.groupName \/ b.groupName = fs[i].groupName
        /\ b.record = a.record \/ b.record = fs[i].record
        /\ b.group = a.group \/ b.group = fs[i].group
        /\ b.center = a.center \/ b.center = fs[i].center
    BY <1>3, <1>8, <2>1 DEF PersonColumns, AccountColumns
  <2>5. b.laboratory = a.laboratory \/ b.laboratory = fs[i].laboratory
    BY <1>3, <1>8, <1>10, <1>16, <2>1 DEF PersonColumns, AccountColumns
  <2>6. b.disciplines = a.disciplines \/ b.disciplines = fs[i].disciplines
    <3>1. ov.disciplines = fs[i].disciplines \/ ov.disciplines = ou.disciplines
      BY <2>1 DEF AccountColumns
    <3>2. CASE u.type = "students"
      BY <1>3, <1>8, <3>1, <3>2 DEF PersonColumns
    <3>3. CASE u.type # "students"
      <4>1. PICK found : found = Where(u.cat.disciplines, LAMBDA d : d.code = row.code)
        OBVIOUS
      <4>2. /\ a.disciplines = IF found = {} THEN ou.disciplines
                               ELSE ou.disciplines \cup {Min(found)}
            /\ b.disciplines = IF found = {} THEN ov.disciplines
                               ELSE ov.disciplines \cup {Min(found)}
        BY <1>3, <1>8, <3>3, <4>1 DEF PersonColumns
      <4> QED BY <1>10, <3>1, <4>2
    <3> QED BY <3>2, <3>3
  <2> QED BY <2>2, <2>3, <2>4, <2>5, <2>6 DEF AccountColumns
<1>18. CellsBeside(fs, p.accounts, q.accounts, AccountColumns)
  <2>1. RowWritten(us, i, a, p.accounts) /\ RowWritten(vs, i, b, q.accounts)
    BY <1>4, <1>5, <1>6, <1>7, <1>13 DEF PersonSaved, AccountSaved
  <2> HIDE DEF fs, us, vs
  <2> QED BY <1>3, <1>10, <1>17, <2>1, CellsWritten
<1>19. DekanatGood(q) /\ q.type = F.type /\ q.cat = F.cat
  BY <1>3, <1>5 DEF PersonSaved
<1> QED BY <1>1, <1>18, <1>19 DEF PeopleBeside

LEMMA PeopleStart ==
  ASSUME NEW u, NEW F, DekanatGood(F), PeopleGrown(u, F)
  PROVE  PeopleBeside(F, u, F)
BY DEF PeopleGrown, PeopleBeside, CellsBeside

LEMMA PeopleEnd ==
  ASSUME NEW F, DekanatGood(F), NEW t, PeopleBeside(F, F, t)
  PROVE  t.ok = TRUE /\ t.cat = F.cat /\ t.accounts = F.accounts
<1>1. /\ IsTable(F.accounts) /\ IsTable(t.accounts)
      /\ \A i \in DOMAIN F.accounts : AccountShape(F.accounts[i])
      /\ \A i \in DOMAIN t.accounts : AccountShape(t.accounts[i])
  BY AccountRows DEF PeopleBeside, DekanatGood
<1>2. t.accounts = F.accounts
  <2>1. /\ \A i \in DOMAIN F.accounts : HasColumns(F.accounts[i], AccountColumns)
        /\ \A i \in DOMAIN t.accounts : HasColumns(t.accounts[i], AccountColumns)
    BY <1>1 DEF AccountShape, AccountColumns
  <2> QED BY <1>1, <2>1, CellsSame DEF PeopleBeside
<1> QED BY <1>2 DEF PeopleBeside, DekanatGood

-------------------------------------------------------------------------------
(* Groups, curricula and bindings of the dekanat: a row read again finds all *)
(* it would write                                                            *)

LEMMA SameState ==
  ASSUME NEW t, DekanatGood(t), NEW new, DekanatShape(new),
         new.ok = TRUE, new.cat = t.cat, new.accounts = t.accounts, new.type = t.type
  PROVE  new = t
BY DEF DekanatGood, DekanatShape, HasColumns

(* A row of the catalogue that raises nothing.                               *)
RowSaved(t, row, cat, new) ==
  /\ CatalogueRow(t.cat, t.type, row).ok = TRUE /\ cat = CatalogueRow(t.cat, t.type, row).cat
  /\ new = DekanatRow(t, row)

LEMMA CatalogueRowRead ==
  ASSUME NEW t, DekanatGood(t), t.type \notin {"students", "staff"}, NEW row,
         NEW cat, NEW new, RowSaved(t, row, cat, new)
  PROVE  /\ DekanatGood(new) /\ new.cat = cat
         /\ new.accounts = t.accounts /\ new.type = t.type
         /\ cat = t.cat => new = t
<1>0. PICK c : c = CatalogueRow(t.cat, t.type, row)
  OBVIOUS
<1>1. c.ok = TRUE /\ c.cat = cat /\ new = [t EXCEPT !.ok = c.ok, !.cat = c.cat]
  BY <1>0 DEF DekanatRow, RowSaved
<1>2. /\ DekanatShape(new) /\ new.ok = TRUE
      /\ new.cat = cat /\ new.accounts = t.accounts /\ new.type = t.type
  BY <1>1 DEF DekanatGood, DekanatShape, HasColumns
<1>3. SoundCatalogue(cat)
  BY <1>0, <1>1, CatalogueRowSound DEF DekanatGood
<1>4. cat = t.cat => new = t
  BY <1>2, SameState
<1> QED BY <1>2, <1>3, <1>4 DEF DekanatGood

GroupsGrown(u, v) == v.type = u.type /\ DOMAIN u.cat.groups \subseteq DOMAIN v.cat.groups

LEMMA GroupGrows ==
  ASSUME NEW t, DekanatGood(t), t.type = "groups", NEW row
  PROVE  /\ DekanatGood(DekanatRow(t, row)) /\ GroupsGrown(t, DekanatRow(t, row))
         /\ row.group \in DOMAIN DekanatRow(t, row).cat.groups
<1>1. PICK cat, new : cat = DekanatGroup(t.cat, row.group) /\ new = DekanatRow(t, row)
  OBVIOUS
<1>2. RowSaved(t, row, cat, new)
  BY <1>1 DEF RowSaved, CatalogueRow
<1>3. DekanatGood(new) /\ new.cat = cat /\ new.type = t.type
  BY <1>2, CatalogueRowRead
<1>4. cat.groups = With(t.cat.groups, row.group, GroupRow(t.cat, row.group))
  BY <1>1, SoundColumns DEF DekanatGroup, DekanatGood, CatalogueShape, HasColumns
<1>5. DOMAIN cat.groups = DOMAIN t.cat.groups \cup {row.group}
  BY <1>4 DEF With
<1> QED BY <1>1, <1>3, <1>5 DEF GroupsGrown

LEMMA GroupFound ==
  ASSUME NEW t, DekanatGood(t), t.type = "groups", NEW row, row.group \in DOMAIN t.cat.groups
  PROVE  DekanatRow(t, row) = t
<1>1. PICK new : new = DekanatRow(t, row)
  OBVIOUS
<1>2. GroupRow(t.cat, row.group) = t.cat.groups[row.group]
  BY DEF GroupRow
<1>3. With(t.cat.groups, row.group, t.cat.groups[row.group]) = t.cat.groups
  BY SoundColumns DEF DekanatGood, GroupsByName, With, HasColumns
<1>4. DekanatGroup(t.cat, row.group) = t.cat
  BY <1>2, <1>3, SoundColumns DEF DekanatGroup, DekanatGood, CatalogueShape, HasColumns
<1>5. RowSaved(t, row, t.cat, new)
  BY <1>1, <1>4 DEF RowSaved, CatalogueRow
<1> QED BY <1>1, <1>5, CatalogueRowRead

CurriculaGrown(u, v) ==
  /\ v.type = u.type /\ v.cat.disciplines = u.cat.disciplines
  /\ DOMAIN v.cat.groups = DOMAIN u.cat.groups
  /\ \A g \in DOMAIN u.cat.groups :
       u.cat.groups[g].disciplines \subseteq v.cat.groups[g].disciplines

(* What a row of a curriculum asks for is there.                             *)
Taught(cat, row) ==
  LET found == Where(cat.disciplines, LAMBDA d : d.code = row.code)
  IN row.group \in DOMAIN cat.groups /\ found # {}
       => Min(found) \in cat.groups[row.group].disciplines

Planned(cat, g, d, new) == new = Plan(cat, g, {d}, {})

LEMMA PlanGrown ==
  ASSUME NEW cat, SoundCatalogue(cat), NEW g, g \in DOMAIN cat.groups, NEW d,
         NEW new, Planned(cat, g, d, new)
  PROVE  /\ new.disciplines = cat.disciplines /\ DOMAIN new.groups = DOMAIN cat.groups
         /\ \A k \in DOMAIN cat.groups :
              cat.groups[k].disciplines \subseteq new.groups[k].disciplines
         /\ d \in new.groups[g].disciplines
         /\ d \in cat.groups[g].disciplines => new = cat
<1>1. PICK old : old = cat.groups[g]
  OBVIOUS
<1>2. PICK row : row = [old EXCEPT !.disciplines = @ \cup {d}, !.works = @ \cup {}]
  OBVIOUS
<1>3. HasColumns(old, {"disciplines", "works", "department"})
  BY <1>1 DEF SoundCatalogue, CatalogueOK, GroupOK
<1>4. /\ row.disciplines = old.disciplines \cup {d}
      /\ d \in old.disciplines => row = old
  BY <1>2, <1>3 DEF HasColumns
<1>6. new = [cat EXCEPT !.groups = With(cat.groups, g, row)]
  BY <1>1, <1>2 DEF Plan, GroupRow, Planned
<1>7. /\ new.disciplines = cat.disciplines /\ new.groups = With(cat.groups, g, row)
      /\ With(cat.groups, g, row) = cat.groups => new = cat
  BY <1>6, SoundColumns DEF CatalogueShape, HasColumns
<1>8. row = old => With(cat.groups, g, row) = cat.groups
  BY <1>1, SoundColumns DEF GroupsByName, With, HasColumns
<1>9. /\ DOMAIN new.groups = DOMAIN cat.groups /\ new.groups[g] = row
      /\ \A k \in DOMAIN cat.groups \ {g} : new.groups[k] = cat.groups[k]
  BY <1>7 DEF With
<1> QED BY <1>1, <1>4, <1>7, <1>8, <1>9

LEMMA CurriculumGrows ==
  ASSUME NEW t, DekanatGood(t), t.type = "curriculum", NEW row
  PROVE  /\ DekanatGood(DekanatRow(t, row)) /\ CurriculaGrown(t, DekanatRow(t, row))
         /\ Taught(DekanatRow(t, row).cat, row)
<1> DEFINE found == Where(t.cat.disciplines, LAMBDA d : d.code = row.code)
<1>1. PICK cat, new : cat = DekanatCurriculum(t.cat, row) /\ new = DekanatRow(t, row)
  OBVIOUS
<1>2. RowSaved(t, row, cat, new)
  BY <1>1 DEF RowSaved, CatalogueRow
<1>3. DekanatGood(new) /\ new.cat = cat /\ new.type = t.type
  BY <1>2, CatalogueRowRead
<1>4. CASE row.group \notin DOMAIN t.cat.groups \/ found = {}
  <2>1. cat = t.cat
    BY <1>1, <1>4 DEF DekanatCurriculum
  <2> QED BY <1>1, <1>3, <1>4, <2>1 DEF CurriculaGrown, Taught
<1>5. CASE row.group \in DOMAIN t.cat.groups /\ found # {}
  <2>1. PICK d : d = Min(found)
    OBVIOUS
  <2>2. Planned(t.cat, row.group, d, cat)
    BY <1>1, <1>5, <2>1 DEF DekanatCurriculum, Planned
  <2>3. /\ cat.disciplines = t.cat.disciplines /\ DOMAIN cat.groups = DOMAIN t.cat.groups
        /\ \A k \in DOMAIN t.cat.groups :
             t.cat.groups[k].disciplines \subseteq cat.groups[k].disciplines
        /\ d \in cat.groups[row.group].disciplines
    <3>1. SoundCatalogue(t.cat)
      BY DEF DekanatGood
    <3> HIDE DEF found
    <3> QED BY ONLY <1>5, <2>2, <3>1, PlanGrown
  <2>4. CurriculaGrown(t, new)
    BY <1>3, <2>3 DEF CurriculaGrown
  <2>5. Taught(cat, row)
    BY <2>1, <2>3 DEF Taught
  <2> QED BY <1>1, <1>3, <2>4, <2>5
<1> QED BY <1>4, <1>5

LEMMA CurriculumFound ==
  ASSUME NEW t, DekanatGood(t), t.type = "curriculum", NEW row, Taught(t.cat, row)
  PROVE  DekanatRow(t, row) = t
<1> DEFINE found == Where(t.cat.disciplines, LAMBDA d : d.code = row.code)
<1>1. PICK new : new = DekanatRow(t, row)
  OBVIOUS
<1>2. DekanatCurriculum(t.cat, row) = t.cat
  <2>1. CASE row.group \notin DOMAIN t.cat.groups \/ found = {}
    BY <2>1 DEF DekanatCurriculum
  <2>2. CASE row.group \in DOMAIN t.cat.groups /\ found # {}
    <3>1. PICK d : d = Min(found)
      OBVIOUS
    <3>2. PICK plan : Planned(t.cat, row.group, d, plan)
      BY DEF Planned
    <3>3. DekanatCurriculum(t.cat, row) = plan
      BY <2>2, <3>1, <3>2 DEF DekanatCurriculum, Planned
    <3>4. SoundCatalogue(t.cat) /\ d \in t.cat.groups[row.group].disciplines
      BY <2>2, <3>1 DEF Taught, DekanatGood
    <3> HIDE DEF found
    <3>5. plan = t.cat
      BY ONLY <2>2, <3>2, <3>4, PlanGrown
    <3> QED BY <3>3, <3>5
  <2> QED BY <2>1, <2>2
<1>3. RowSaved(t, row, t.cat, new)
  BY <1>1, <1>2 DEF RowSaved, CatalogueRow
<1> QED BY <1>1, <1>3, CatalogueRowRead

Binding(type) == type \notin {"students", "staff", "disciplines", "groups", "curriculum"}

BindingsGrown(u, v) ==
  /\ v.type = u.type
  /\ DOMAIN v.cat.disciplines = DOMAIN u.cat.disciplines /\ DOMAIN v.cat.works = DOMAIN u.cat.works
  /\ \A i \in DOMAIN u.cat.disciplines :
       /\ v.cat.disciplines[i].code = u.cat.disciplines[i].code
       /\ u.cat.disciplines[i].centers \subseteq v.cat.disciplines[i].centers
  /\ \A w \in DOMAIN u.cat.works :
       /\ v.cat.works[w].disciplines = u.cat.works[w].disciplines
       /\ u.cat.works[w].centers \subseteq v.cat.works[w].centers

(* What a binding asks for is there.                                         *)
Coded(cat, code) == {i \in DOMAIN cat.disciplines : cat.disciplines[i].code = code}
BoundTo(cat, d, center) ==
  /\ center \in cat.disciplines[d].centers
  /\ \A w \in DOMAIN cat.works :
       d \in cat.works[w].disciplines => center \in cat.works[w].centers
Bound(cat, row) == Coded(cat, row.code) # {} => BoundTo(cat, Min(Coded(cat, row.code)), row.center)

(* A discipline and its lab works bound to a centre.                         *)
BoundNow(cat, d, center, new) ==
  new = [cat EXCEPT !.disciplines[d].centers = @ \cup {center},
                    !.works = [w \in DOMAIN cat.works |->
                      IF d \in cat.works[w].disciplines
                      THEN [cat.works[w] EXCEPT !.centers = @ \cup {center}] ELSE cat.works[w]]]

LEMMA CodedFirst ==
  ASSUME NEW cat, SoundCatalogue(cat), NEW code, Coded(cat, code) # {}
  PROVE  Min(Coded(cat, code)) \in DOMAIN cat.disciplines
<1>1. Coded(cat, code) \subseteq DOMAIN cat.disciplines
  BY DEF Coded
<1>2. DOMAIN cat.disciplines \subseteq Nat
  BY SoundColumns, TableDomain
<1> QED BY <1>1, <1>2, LeastOf

LEMMA BindingWritten ==
  ASSUME NEW cat, SoundCatalogue(cat), NEW d \in DOMAIN cat.disciplines, NEW center,
         NEW new, BoundNow(cat, d, center, new)
  PROVE  /\ DOMAIN new.disciplines = DOMAIN cat.disciplines /\ DOMAIN new.works = DOMAIN cat.works
         /\ \A i \in DOMAIN cat.disciplines :
              /\ new.disciplines[i].code = cat.disciplines[i].code
              /\ cat.disciplines[i].centers \subseteq new.disciplines[i].centers
         /\ \A w \in DOMAIN cat.works :
              /\ new.works[w].disciplines = cat.works[w].disciplines
              /\ cat.works[w].centers \subseteq new.works[w].centers
         /\ BoundTo(new, d, center)
         /\ BoundTo(cat, d, center) => new = cat
<1>1. PICK ds, ws : /\ ds = [cat.disciplines EXCEPT ![d].centers = @ \cup {center}]
                    /\ ws = [w \in DOMAIN cat.works |->
                              IF d \in cat.works[w].disciplines
                              THEN [cat.works[w] EXCEPT !.centers = @ \cup {center}]
                              ELSE cat.works[w]]
  OBVIOUS
<1>2. CatalogueShape(cat)
  BY SoundColumns
<1>3. /\ new.disciplines = ds /\ new.works = ws
      /\ ds = cat.disciplines /\ ws = cat.works => new = cat
  BY <1>1, <1>2 DEF BoundNow, CatalogueShape, HasColumns
<1>4. \A i \in DOMAIN cat.disciplines : DisciplineShape(cat.disciplines[i])
  BY SoundColumns, DisciplineRows
<1>5. \A w \in DOMAIN cat.works : WorkShape(cat.works[w])
  BY SoundColumns
<1>6. /\ DOMAIN ds = DOMAIN cat.disciplines
      /\ ds[d].centers = cat.disciplines[d].centers \cup {center}
      /\ \A i \in DOMAIN cat.disciplines : ds[i].code = cat.disciplines[i].code
      /\ \A i \in DOMAIN cat.disciplines \ {d} : ds[i] = cat.disciplines[i]
  BY <1>1, <1>4 DEF DisciplineShape, HasColumns
<1>7. /\ DOMAIN ws = DOMAIN cat.works
      /\ \A w \in DOMAIN cat.works :
           /\ ws[w].disciplines = cat.works[w].disciplines
           /\ ws[w].centers = IF d \in cat.works[w].disciplines
                              THEN cat.works[w].centers \cup {center} ELSE cat.works[w].centers
  BY <1>1, <1>5 DEF WorkShape, HasColumns
<1>8. BoundTo(new, d, center)
  BY <1>3, <1>6, <1>7 DEF BoundTo
<1>9. ASSUME BoundTo(cat, d, center)
      PROVE  new = cat
  <2>1. \A i \in DOMAIN cat.disciplines : ds[i] = cat.disciplines[i]
    <3>1. center \in cat.disciplines[d].centers
      BY <1>9 DEF BoundTo
    <3>2. PICK row : row = cat.disciplines[d]
      OBVIOUS
    <3>3. [row EXCEPT !.centers = @ \cup {center}] = row
      BY <1>4, <3>1, <3>2 DEF DisciplineShape, HasColumns
    <3>4. ds[d] = cat.disciplines[d]
      BY <1>1, <3>2, <3>3
    <3> QED BY <1>6, <3>4
  <2>2. \A w \in DOMAIN cat.works : ws[w] = cat.works[w]
    <3>1. ASSUME NEW w \in DOMAIN cat.works, center \in cat.works[w].centers
          PROVE  [cat.works[w] EXCEPT !.centers = @ \cup {center}] = cat.works[w]
      BY <1>5, <3>1 DEF WorkShape, HasColumns
    <3> QED BY <1>1, <1>9, <3>1 DEF BoundTo
  <2>3. ds = [i \in DOMAIN cat.disciplines |-> ds[i]] /\ ws = [w \in DOMAIN cat.works |-> ws[w]]
    BY <1>1
  <2>4. /\ cat.disciplines = [i \in DOMAIN cat.disciplines |-> cat.disciplines[i]]
        /\ cat.works = [w \in DOMAIN cat.works |-> cat.works[w]]
    BY SoundColumns, TableDomain DEF IsTable
  <2> QED BY <1>3, <2>1, <2>2, <2>3, <2>4
<1> QED BY <1>3, <1>6, <1>7, <1>8, <1>9

LEMMA BindingOf ==
  ASSUME NEW cat, SoundCatalogue(cat), NEW row
  PROVE  /\ Coded(cat, row.code) = {} => DekanatLabBinding(cat, row) = cat
         /\ Coded(cat, row.code) # {} =>
              BoundNow(cat, Min(Coded(cat, row.code)), row.center, DekanatLabBinding(cat, row))
<1>1. Where(cat.disciplines, LAMBDA d : d.code = row.code) = Coded(cat, row.code)
  BY DEF Where, Coded
<1> QED BY <1>1 DEF DekanatLabBinding, BoundNow

LEMMA BindingGrows ==
  ASSUME NEW t, DekanatGood(t), Binding(t.type), NEW row
  PROVE  /\ DekanatGood(DekanatRow(t, row)) /\ BindingsGrown(t, DekanatRow(t, row))
         /\ Bound(DekanatRow(t, row).cat, row)
<1>1. PICK cat, new : cat = DekanatLabBinding(t.cat, row) /\ new = DekanatRow(t, row)
  OBVIOUS
<1>2. RowSaved(t, row, cat, new)
  BY <1>1 DEF RowSaved, CatalogueRow, Binding
<1>3. DekanatGood(new) /\ new.cat = cat /\ new.type = t.type
  BY <1>2, CatalogueRowRead DEF Binding
<1>4. SoundCatalogue(t.cat)
  BY DEF DekanatGood
<1>5. CASE Coded(t.cat, row.code) = {}
  <2>1. cat = t.cat
    BY <1>1, <1>4, <1>5, BindingOf
  <2> QED BY <1>1, <1>3, <1>5, <2>1 DEF BindingsGrown, Bound
<1>6. CASE Coded(t.cat, row.code) # {}
  <2>1. PICK d : d = Min(Coded(t.cat, row.code))
    OBVIOUS
  <2>2. d \in DOMAIN t.cat.disciplines /\ BoundNow(t.cat, d, row.center, cat)
    BY <1>1, <1>4, <1>6, <2>1, BindingOf, CodedFirst
  <2>3. /\ DOMAIN cat.disciplines = DOMAIN t.cat.disciplines
        /\ DOMAIN cat.works = DOMAIN t.cat.works
        /\ \A i \in DOMAIN t.cat.disciplines :
             /\ cat.disciplines[i].code = t.cat.disciplines[i].code
             /\ t.cat.disciplines[i].centers \subseteq cat.disciplines[i].centers
        /\ \A w \in DOMAIN t.cat.works :
             /\ cat.works[w].disciplines = t.cat.works[w].disciplines
             /\ t.cat.works[w].centers \subseteq cat.works[w].centers
        /\ BoundTo(cat, d, row.center)
    BY <1>4, <2>2, BindingWritten
  <2>4. Coded(cat, row.code) = Coded(t.cat, row.code)
    BY <2>3 DEF Coded
  <2>5. Bound(cat, row)
    BY <2>1, <2>3, <2>4 DEF Bound
  <2>6. BindingsGrown(t, new)
    BY <1>3, <2>3 DEF BindingsGrown
  <2> QED BY <1>1, <1>3, <2>5, <2>6
<1> QED BY <1>5, <1>6

LEMMA BindingFound ==
  ASSUME NEW t, DekanatGood(t), Binding(t.type), NEW row, Bound(t.cat, row)
  PROVE  DekanatRow(t, row) = t
<1>1. PICK cat, new : cat = DekanatLabBinding(t.cat, row) /\ new = DekanatRow(t, row)
  OBVIOUS
<1>2. SoundCatalogue(t.cat)
  BY DEF DekanatGood
<1>3. cat = t.cat
  <2>1. CASE Coded(t.cat, row.code) = {}
    BY <1>1, <1>2, <2>1, BindingOf
  <2>2. CASE Coded(t.cat, row.code) # {}
    <3>1. PICK d : d = Min(Coded(t.cat, row.code))
      OBVIOUS
    <3>2. /\ d \in DOMAIN t.cat.disciplines /\ BoundNow(t.cat, d, row.center, cat)
          /\ BoundTo(t.cat, d, row.center)
      BY <1>1, <1>2, <2>2, <3>1, BindingOf, CodedFirst DEF Bound
    <3> QED BY <1>2, <3>2, BindingWritten
  <2> QED BY <2>1, <2>2
<1>4. RowSaved(t, row, cat, new)
  BY <1>1 DEF RowSaved, CatalogueRow, Binding
<1> QED BY <1>1, <1>3, <1>4, CatalogueRowRead DEF Binding

LEMMA BoundStays ==
  ASSUME NEW u, NEW v, BindingsGrown(u, v), SoundCatalogue(u.cat), NEW row, Bound(u.cat, row)
  PROVE  Bound(v.cat, row)
<1>1. Coded(v.cat, row.code) = Coded(u.cat, row.code)
  BY DEF Coded, BindingsGrown
<1>2. Coded(u.cat, row.code) # {} => Min(Coded(u.cat, row.code)) \in DOMAIN u.cat.disciplines
  BY CodedFirst
<1> QED BY <1>1, <1>2 DEF Bound, BoundTo, BindingsGrown

LEMMA TaughtStays ==
  ASSUME NEW u, NEW v, CurriculaGrown(u, v), NEW row, Taught(u.cat, row)
  PROVE  Taught(v.cat, row)
<1> DEFINE found == Where(u.cat.disciplines, LAMBDA d : d.code = row.code)
<1>1. Where(v.cat.disciplines, LAMBDA d : d.code = row.code) = found
  BY DEF CurriculaGrown
<1> HIDE DEF found
<1>2. PICK d : d = Min(found)
  OBVIOUS
<1>3. row.group \in DOMAIN u.cat.groups /\ found # {} => d \in u.cat.groups[row.group].disciplines
  BY <1>2 DEF Taught, found
<1>4. row.group \in DOMAIN v.cat.groups /\ found # {} => d \in v.cat.groups[row.group].disciplines
  BY <1>3 DEF CurriculaGrown
<1> QED BY <1>1, <1>2, <1>4 DEF Taught

-------------------------------------------------------------------------------
(* Disciplines of the dekanat                                                *)

Matches(row, d) == IF row.code # None THEN d.code = row.code ELSE d.title = row.title

DisciplineBefore(t, row, i) ==
  IF i \in DOMAIN t.cat.disciplines THEN t.cat.disciplines[i]
  ELSE [code |-> row.code, centers |-> {}, laboratories |-> {}]
DisciplineAfter(t, row, i) ==
  LET old == DisciplineBefore(t, row, i)
  IN [code |-> IF old.code = None THEN <<"DISC", i>> ELSE old.code, title |-> row.title,
      semester |-> SemesterOf(t.cat, row), centers |-> old.centers \cup ({row.center} \ {None}),
      laboratories |-> old.laboratories]

DisciplineSaved(t, row, i, new) ==
  /\ DekanatGood(new) /\ new.accounts = t.accounts /\ new.type = t.type
  /\ Apart(t.cat, new.cat, {"disciplines"})
  /\ RowWritten(t.cat.disciplines, i, DisciplineAfter(t, row, i), new.cat.disciplines)
  /\ \A k \in DOMAIN t.cat.disciplines : Matches(row, t.cat.disciplines[k]) <=> k = i

LEMMA NewDisciplines ==
  ASSUME NEW cat, CatalogueShape(cat), NEW table, NEW new, new = [cat EXCEPT !.disciplines = table]
  PROVE  Apart(cat, new, {"disciplines"}) /\ new.disciplines = table
BY DEF Apart, CatalogueShape, HasColumns, Columns

LEMMA AtMostOne ==
  ASSUME NEW table, IsTable(table), NEW S, S \subseteq DOMAIN table, Cardinality(S) <= 1,
         NEW i \in S
  PROVE  \A k \in S : k = i
<1>1. IsFiniteSet(S) /\ Cardinality(S) \in Nat
  BY FiniteRows
<1>2. Cardinality(S) # 0
  BY <1>1, FS_EmptySet
<1>3. \E x : S = {x}
  BY <1>1, <1>2, FS_Singleton
<1> QED BY <1>3

LEMMA DisciplinePut ==
  ASSUME NEW t, DekanatGood(t), t.type = "disciplines", NEW row,
         CatalogueRow(t.cat, t.type, row).ok = TRUE
  PROVE  \E i : DisciplineSaved(t, row, i, DekanatRow(t, row))
<1> DEFINE table == t.cat.disciplines
           found == {k \in DOMAIN table : Matches(row, table[k])}
           i == First(table, found)
           old == IF found # {} THEN table[i]
                  ELSE [code |-> row.code, centers |-> {}, laboratories |-> {}]
           entry == [code |-> IF old.code = None THEN <<"DISC", i>> ELSE old.code,
                     title |-> row.title, semester |-> SemesterOf(t.cat, row),
                     centers |-> old.centers \cup ({row.center} \ {None}),
                     laboratories |-> old.laboratories]
<1>1. Where(table, LAMBDA d : IF row.code # None THEN d.code = row.code ELSE d.title = row.title)
        = found
  BY DEF Where, Matches
<1>2. CatalogueRow(t.cat, t.type, row) =
        [ok |-> Cardinality(found) <= 1,
         cat |-> [t.cat EXCEPT !.disciplines = Put(@, i, entry)]]
  BY <1>1 DEF CatalogueRow, DekanatDiscipline
<1>3. PICK cat, new : /\ cat = [t.cat EXCEPT !.disciplines = Put(@, i, entry)]
                      /\ new = DekanatRow(t, row)
  OBVIOUS
<1>4. RowSaved(t, row, cat, new) /\ Cardinality(found) <= 1
  <2>1. PICK c : c = CatalogueRow(t.cat, t.type, row)
    OBVIOUS
  <2> HIDE DEF found, i, entry
  <2>2. c = [ok |-> Cardinality(found) <= 1, cat |-> cat] /\ c.ok = TRUE
    BY <1>2, <1>3, <2>1
  <2>3. Cardinality(found) <= 1 /\ c.cat = cat
    BY <2>2
  <2> QED BY <1>3, <2>1, <2>2, <2>3 DEF RowSaved
<1>5. DekanatGood(new) /\ new.cat = cat /\ new.accounts = t.accounts /\ new.type = t.type
  BY <1>4, CatalogueRowRead
<1>6. IsTable(table) /\ CatalogueShape(t.cat)
  BY SoundColumns DEF DekanatGood
<1>7. found \subseteq DOMAIN table
  OBVIOUS
<1>8. \A k \in DOMAIN table : Matches(row, table[k]) <=> k \in found
  OBVIOUS
<1> HIDE DEF found
<1>9. /\ i \in 1..Len(table) + 1
      /\ found # {} => i \in found
      /\ found = {} => i \notin DOMAIN table
  BY <1>6, <1>7, FirstKey
<1>10. \A k \in found : k = i
  <2> HIDE DEF i
  <2>1. found # {} => i \in found
    BY <1>9
  <2> QED BY <1>4, <1>6, <1>7, <2>1, AtMostOne
<1>11. \A k \in DOMAIN table : Matches(row, table[k]) <=> k = i
  BY <1>7, <1>8, <1>9, <1>10
<1>12. entry = DisciplineAfter(t, row, i)
  <2>1. old = DisciplineBefore(t, row, i)
    BY <1>7, <1>9 DEF DisciplineBefore
  <2> HIDE DEF i, old
  <2> QED BY <2>1 DEF DisciplineAfter
<1> HIDE DEF entry, i
<1>13. PICK rows : rows = Put(table, i, entry)
  OBVIOUS
<1>14. Wrote(table, i, entry, rows)
  BY <1>6, <1>9, <1>13, PutRow
<1>15. Apart(t.cat, cat, {"disciplines"}) /\ cat.disciplines = rows
  BY <1>3, <1>6, <1>13, NewDisciplines
<1>16. RowWritten(table, i, DisciplineAfter(t, row, i), cat.disciplines)
  BY <1>12, <1>14, <1>15 DEF RowWritten, Wrote
<1> QED BY <1>3, <1>5, <1>11, <1>15, <1>16 DEF DisciplineSaved

(* What the rows of a file look disciplines up by, when all have a code and  *)
(* when none has.                                                            *)
KeyOf(coded, d) == IF coded THEN d.code ELSE d.title

DisciplinesGrown(coded, u, v) ==
  /\ v.type = u.type /\ v.accounts = u.accounts /\ Apart(u.cat, v.cat, {"disciplines"})
  /\ DOMAIN u.cat.disciplines \subseteq DOMAIN v.cat.disciplines
  /\ \A i \in DOMAIN u.cat.disciplines :
       LET a == u.cat.disciplines[i]
           b == v.cat.disciplines[i]
       IN /\ KeyOf(coded, b) = KeyOf(coded, a) /\ (a.code # None => b.code = a.code)
          /\ a.centers \subseteq b.centers /\ b.laboratories = a.laboratories
  /\ \A i \in DOMAIN v.cat.disciplines \ DOMAIN u.cat.disciplines :
       /\ \A k \in DOMAIN u.cat.disciplines :
            KeyOf(coded, v.cat.disciplines[i]) # KeyOf(coded, u.cat.disciplines[k])
       /\ v.cat.disciplines[i].laboratories = {}
DisciplinesBeside(coded, F, s, t) ==
  /\ DekanatGood(t) /\ t.type = F.type /\ t.accounts = F.accounts
  /\ Apart(F.cat, t.cat, {"disciplines"})
  /\ CellsBeside(F.cat.disciplines, s.cat.disciplines, t.cat.disciplines, DisciplineColumns)
  /\ \A i \in DOMAIN F.cat.disciplines :
       KeyOf(coded, t.cat.disciplines[i]) = KeyOf(coded, F.cat.disciplines[i])

LEMMA DisciplinesGrow ==
  ASSUME NEW t, DekanatGood(t), t.type = "disciplines", NEW row, NEW coded \in BOOLEAN,
         coded = (row.code # None), CatalogueRow(t.cat, t.type, row).ok = TRUE
  PROVE  DekanatGood(DekanatRow(t, row)) /\ DisciplinesGrown(coded, t, DekanatRow(t, row))
<1>1. PICK new, i : new = DekanatRow(t, row) /\ DisciplineSaved(t, row, i, new)
  BY DisciplinePut
<1>2. PICK old, entry : old = DisciplineBefore(t, row, i) /\ entry = DisciplineAfter(t, row, i)
  OBVIOUS
<1>3. /\ entry.code = IF old.code = None THEN <<"DISC", i>> ELSE old.code
      /\ entry.title = row.title /\ old.centers \subseteq entry.centers
      /\ entry.laboratories = old.laboratories
  BY <1>2 DEF DisciplineAfter
<1>4. /\ DOMAIN new.cat.disciplines = DOMAIN t.cat.disciplines \cup {i}
      /\ new.cat.disciplines[i] = entry
      /\ \A k \in DOMAIN t.cat.disciplines \ {i} : new.cat.disciplines[k] = t.cat.disciplines[k]
      /\ \A k \in DOMAIN t.cat.disciplines : Matches(row, t.cat.disciplines[k]) <=> k = i
  BY <1>1, <1>2 DEF DisciplineSaved, RowWritten
<1>5. \A k \in DOMAIN t.cat.disciplines :
        KeyOf(coded, t.cat.disciplines[k]) = KeyOf(coded, row) <=> k = i
  BY <1>4 DEF Matches, KeyOf
<1>6. i \in DOMAIN t.cat.disciplines => old = t.cat.disciplines[i]
  BY <1>2 DEF DisciplineBefore
<1>7. i \notin DOMAIN t.cat.disciplines => old.code = row.code /\ old.laboratories = {}
  BY <1>2 DEF DisciplineBefore
<1>8. KeyOf(coded, entry) = KeyOf(coded, row)
  BY <1>3, <1>5, <1>6, <1>7 DEF KeyOf
<1>9. DisciplinesGrown(coded, t, new)
  BY <1>1, <1>3, <1>4, <1>5, <1>6, <1>7, <1>8 DEF DisciplinesGrown, DisciplineSaved
<1> QED BY <1>1, <1>9 DEF DisciplineSaved

LEMMA DisciplinesGrowOn ==
  ASSUME NEW coded, NEW u, NEW v, NEW w,
         DisciplinesGrown(coded, u, v), DisciplinesGrown(coded, v, w)
  PROVE  DisciplinesGrown(coded, u, w)
<1>1. /\ w.type = u.type /\ w.accounts = u.accounts /\ Apart(u.cat, w.cat, {"disciplines"})
      /\ DOMAIN u.cat.disciplines \subseteq DOMAIN w.cat.disciplines
  BY DEF DisciplinesGrown, Apart
<1> DEFINE us == u.cat.disciplines
           vs == v.cat.disciplines
           ws == w.cat.disciplines
<1>2. ASSUME NEW i \in DOMAIN us
      PROVE  /\ KeyOf(coded, ws[i]) = KeyOf(coded, us[i])
             /\ (us[i].code # None => ws[i].code = us[i].code)
             /\ us[i].centers \subseteq ws[i].centers /\ ws[i].laboratories = us[i].laboratories
  BY <1>2 DEF DisciplinesGrown
<1>3. ASSUME NEW i \in DOMAIN ws \ DOMAIN us
      PROVE  /\ \A k \in DOMAIN us : KeyOf(coded, ws[i]) # KeyOf(coded, us[k])
             /\ ws[i].laboratories = {}
  <2>1. CASE i \in DOMAIN vs
    BY <1>3, <2>1 DEF DisciplinesGrown
  <2>2. CASE i \notin DOMAIN vs
    BY <1>3, <2>2 DEF DisciplinesGrown
  <2> QED BY <2>1, <2>2
<1> QED BY <1>1, <1>2, <1>3 DEF DisciplinesGrown

LEMMA OneFound ==
  ASSUME NEW t, DekanatGood(t), t.type = "disciplines", NEW row, NEW i \in DOMAIN t.cat.disciplines,
         \A k \in DOMAIN t.cat.disciplines : Matches(row, t.cat.disciplines[k]) <=> k = i
  PROVE  CatalogueRow(t.cat, t.type, row).ok = TRUE
<1> DEFINE table == t.cat.disciplines
           found == Where(table, LAMBDA d : IF row.code # None THEN d.code = row.code
                                            ELSE d.title = row.title)
<1>1. found = {i}
  BY DEF Where, Matches
<1>2. Cardinality(found) <= 1
  <2>1. Cardinality({i}) = 1
    BY FS_Singleton
  <2> HIDE DEF found
  <2> QED BY <1>1, <2>1
<1>3. PICK cat : CatalogueRow(t.cat, t.type, row) = [ok |-> Cardinality(found) <= 1, cat |-> cat]
  BY DEF CatalogueRow, DekanatDiscipline
<1> HIDE DEF found
<1>4. PICK few : few = (Cardinality(found) <= 1)
  OBVIOUS
<1>5. few = TRUE
  BY <1>2, <1>4
<1>6. CatalogueRow(t.cat, t.type, row) = [ok |-> few, cat |-> cat]
  BY <1>3, <1>4, Zenon
<1> QED BY <1>5, <1>6

(* The semester of a row, from those of the database.                        *)
SemesterAmong(semesters, row) ==
  IF row.semester \in DOMAIN semesters \/ ~\E s \in DOMAIN semesters : semesters[s]
  THEN row.semester ELSE CHOOSE s \in DOMAIN semesters : semesters[s]

LEMMA SameSemester ==
  ASSUME NEW cat, NEW other, other.semesters = cat.semesters, NEW row
  PROVE  SemesterOf(other, row) = SemesterOf(cat, row)
<1>1. /\ SemesterOf(cat, row) = SemesterAmong(cat.semesters, row)
      /\ SemesterOf(other, row) = SemesterAmong(other.semesters, row)
  BY DEF SemesterOf, SemesterAmong
<1> QED BY <1>1

(* What a row makes of a discipline, column by column.                       *)
DisciplineCells(row, semester, i, old, new) ==
  /\ new.code = IF old.code = None THEN <<"DISC", i>> ELSE old.code
  /\ new.title = row.title /\ new.semester = semester
  /\ new.centers = old.centers \cup ({row.center} \ {None})
  /\ new.laboratories = old.laboratories

LEMMA DisciplineOf ==
  ASSUME NEW t, NEW row, NEW i
  PROVE  DisciplineCells(row, SemesterOf(t.cat, row), i, DisciplineBefore(t, row, i),
                         DisciplineAfter(t, row, i))
<1>1. PICK old : old = DisciplineBefore(t, row, i)
  OBVIOUS
<1>2. PICK semester : semester = SemesterOf(t.cat, row)
  OBVIOUS
<1>3. DisciplineAfter(t, row, i) =
        [code |-> IF old.code = None THEN <<"DISC", i>> ELSE old.code, title |-> row.title,
         semester |-> semester, centers |-> old.centers \cup ({row.center} \ {None}),
         laboratories |-> old.laboratories]
  BY <1>1, <1>2 DEF DisciplineAfter
<1> QED BY <1>1, <1>2, <1>3 DEF DisciplineCells

LEMMA DisciplinesTwice ==
  ASSUME NEW F, DekanatGood(F), NEW u, DekanatGood(u), u.type = "disciplines", NEW v,
         NEW coded \in BOOLEAN, NEW row, coded = (row.code # None),
         CatalogueRow(u.cat, u.type, row).ok = TRUE,
         DisciplinesGrown(coded, DekanatRow(u, row), F), DisciplinesBeside(coded, F, u, v)
  PROVE  DisciplinesBeside(coded, F, DekanatRow(u, row), DekanatRow(v, row))
<1> DEFINE fs == F.cat.disciplines
           us == u.cat.disciplines
           vs == v.cat.disciplines
<1>1. PICK p, q : p = DekanatRow(u, row) /\ q = DekanatRow(v, row)
  OBVIOUS
<1>2. DisciplinesGrown(coded, u, p) /\ DisciplinesGrown(coded, p, F)
  BY <1>1, DisciplinesGrow
<1>3. /\ DekanatGood(v) /\ v.type = F.type /\ v.accounts = F.accounts /\ F.type = u.type
      /\ Apart(F.cat, v.cat, {"disciplines"}) /\ CellsBeside(fs, us, vs, DisciplineColumns)
      /\ \A i \in DOMAIN fs : KeyOf(coded, vs[i]) = KeyOf(coded, fs[i])
  BY <1>2 DEF DisciplinesBeside, DisciplinesGrown
<1>4. v.cat.semesters = u.cat.semesters
  BY <1>2, <1>3 DEF DisciplinesGrown, Apart, Columns
<1>5. PICK i : DisciplineSaved(u, row, i, p)
  BY <1>1, DisciplinePut
<1>6. PICK ou, a : ou = DisciplineBefore(u, row, i) /\ a = DisciplineAfter(u, row, i)
  OBVIOUS
<1>7. PICK ov, b : ov = DisciplineBefore(v, row, i) /\ b = DisciplineAfter(v, row, i)
  OBVIOUS
<1>8. PICK semester : /\ semester = SemesterOf(u.cat, row) /\ semester = SemesterOf(v.cat, row)
                      /\ DisciplineCells(row, semester, i, ou, a)
                      /\ DisciplineCells(row, semester, i, ov, b)
  BY <1>4, <1>6, <1>7, SameSemester, DisciplineOf
<1>9. /\ DOMAIN p.cat.disciplines = DOMAIN us \cup {i} /\ p.cat.disciplines[i] = a
      /\ \A k \in DOMAIN us \ {i} : p.cat.disciplines[k] = us[k]
      /\ \A k \in DOMAIN us : KeyOf(coded, us[k]) = KeyOf(coded, row) <=> k = i
      /\ RowWritten(us, i, a, p.cat.disciplines)
  BY <1>5, <1>6 DEF DisciplineSaved, RowWritten, Matches, KeyOf
<1>10. i \in DOMAIN us => ou = us[i]
  BY <1>6 DEF DisciplineBefore
<1>11. i \notin DOMAIN us => ou.code = row.code /\ ou.laboratories = {} /\ ou.centers = {}
  BY <1>6 DEF DisciplineBefore
<1>12. KeyOf(coded, a) = KeyOf(coded, row)
  BY <1>8, <1>9, <1>10, <1>11 DEF KeyOf, DisciplineCells
<1>13. /\ i \in DOMAIN fs /\ KeyOf(coded, fs[i]) = KeyOf(coded, row)
       /\ (a.code # None => fs[i].code = a.code)
       /\ a.centers \subseteq fs[i].centers /\ fs[i].laboratories = a.laboratories
  BY <1>2, <1>9, <1>12 DEF DisciplinesGrown
<1>14. \A k \in DOMAIN fs : KeyOf(coded, fs[k]) = KeyOf(coded, row) <=> k = i
  <2>1. ASSUME NEW k \in DOMAIN fs, KeyOf(coded, fs[k]) = KeyOf(coded, row)
        PROVE  k = i
    <3>1. k \in DOMAIN p.cat.disciplines
      BY <1>2, <1>9, <1>12, <2>1 DEF DisciplinesGrown
    <3>2. KeyOf(coded, p.cat.disciplines[k]) = KeyOf(coded, row)
      BY <1>2, <2>1, <3>1 DEF DisciplinesGrown
    <3> QED BY <1>9, <3>1, <3>2
  <2> QED BY <1>13, <2>1
<1>15. i \in DOMAIN vs /\ DOMAIN vs = DOMAIN fs /\ DOMAIN us \subseteq DOMAIN fs
       /\ \A c \in DisciplineColumns :
            vs[i][c] = fs[i][c] \/ (i \in DOMAIN us /\ vs[i][c] = us[i][c])
  BY <1>3, <1>13 DEF CellsBeside
<1>16. \A k \in DOMAIN vs : Matches(row, vs[k]) <=> k = i
  <2>1. \A k \in DOMAIN vs : KeyOf(coded, vs[k]) = KeyOf(coded, row) <=> k = i
    BY <1>3, <1>14, <1>15
  <2>2. \A d : Matches(row, d) <=> KeyOf(coded, d) = KeyOf(coded, row)
    BY DEF Matches, KeyOf
  <2> HIDE DEF vs
  <2> QED BY <2>1, <2>2
<1>17. CatalogueRow(v.cat, v.type, row).ok = TRUE
  BY <1>3, <1>15, <1>16, OneFound
<1>18. DisciplineSaved(v, row, i, q)
  <2>1. PICK k : DisciplineSaved(v, row, k, q)
    BY <1>1, <1>3, <1>17, DisciplinePut
  <2>2. k = i
    BY <1>15, <1>16, <2>1 DEF DisciplineSaved
  <2> QED BY <2>1, <2>2
<1>19. ov = vs[i]
  BY <1>7, <1>15 DEF DisciplineBefore
<1>20. \A c \in DisciplineColumns : b[c] = a[c] \/ b[c] = fs[i][c]
  <2>1. \A c \in DisciplineColumns : ov[c] = fs[i][c] \/ (i \in DOMAIN us /\ ov[c] = ou[c])
    BY <1>10, <1>15, <1>19
  <2> HIDE DEF fs, us, vs
  <2>2. b.title = a.title /\ b.semester = a.semester
    BY <1>8 DEF DisciplineCells
  <2>3. b.code = a.code \/ b.code = fs[i].code
    <3>1. ov.code = fs[i].code \/ ov.code = ou.code
      BY <2>1 DEF DisciplineColumns
    <3> QED BY <1>8, <1>13, <3>1 DEF DisciplineCells
  <2>4. b.laboratories = a.laboratories \/ b.laboratories = fs[i].laboratories
    <3>1. ov.laboratories = fs[i].laboratories \/ ov.laboratories = ou.laboratories
      BY <2>1 DEF DisciplineColumns
    <3> QED BY <1>8, <3>1 DEF DisciplineCells
  <2>5. b.centers = a.centers \/ b.centers = fs[i].centers
    <3>1. ov.centers = fs[i].centers \/ ov.centers = ou.centers
      BY <2>1 DEF DisciplineColumns
    <3> QED BY <1>8, <1>13, <3>1 DEF DisciplineCells
  <2> QED BY <2>2, <2>3, <2>4, <2>5 DEF DisciplineColumns
<1>21. CellsBeside(fs, p.cat.disciplines, q.cat.disciplines, DisciplineColumns)
  <2>1. RowWritten(vs, i, b, q.cat.disciplines)
    BY <1>7, <1>18 DEF DisciplineSaved
  <2> HIDE DEF fs, us, vs
  <2> QED BY <1>3, <1>9, <1>13, <1>20, <2>1, CellsWritten
<1>22. KeyOf(coded, b) = KeyOf(coded, row)
  <2>1. KeyOf(coded, ov) = KeyOf(coded, row)
    BY <1>3, <1>13, <1>19
  <2> QED BY <1>8, <2>1 DEF KeyOf, DisciplineCells
<1>23. \A k \in DOMAIN fs : KeyOf(coded, q.cat.disciplines[k]) = KeyOf(coded, fs[k])
  BY <1>3, <1>7, <1>13, <1>15, <1>18, <1>22 DEF DisciplineSaved, RowWritten
<1>24. /\ DekanatGood(q) /\ q.type = F.type /\ q.accounts = F.accounts
       /\ Apart(F.cat, q.cat, {"disciplines"})
  BY <1>3, <1>18 DEF DisciplineSaved, Apart
<1> QED BY <1>1, <1>21, <1>23, <1>24 DEF DisciplinesBeside

LEMMA DisciplinesStart ==
  ASSUME NEW coded, NEW u, NEW F, DekanatGood(F), DisciplinesGrown(coded, u, F)
  PROVE  DisciplinesBeside(coded, F, u, F)
BY DEF DisciplinesGrown, DisciplinesBeside, CellsBeside, Apart

LEMMA DisciplinesEnd ==
  ASSUME NEW coded, NEW F, DekanatGood(F), NEW t, DisciplinesBeside(coded, F, F, t)
  PROVE  t.ok = TRUE /\ t.cat = F.cat /\ t.accounts = F.accounts
<1>1. DekanatGood(t) /\ t.accounts = F.accounts /\ Apart(F.cat, t.cat, {"disciplines"})
  BY DEF DisciplinesBeside
<1>2. /\ IsTable(F.cat.disciplines) /\ IsTable(t.cat.disciplines)
      /\ \A i \in DOMAIN F.cat.disciplines : DisciplineShape(F.cat.disciplines[i])
      /\ \A i \in DOMAIN t.cat.disciplines : DisciplineShape(t.cat.disciplines[i])
  BY <1>1, SoundColumns, DisciplineRows DEF DekanatGood
<1>3. t.cat.disciplines = F.cat.disciplines
  <2>1. /\ \A i \in DOMAIN F.cat.disciplines : HasColumns(F.cat.disciplines[i], DisciplineColumns)
        /\ \A i \in DOMAIN t.cat.disciplines : HasColumns(t.cat.disciplines[i], DisciplineColumns)
    BY <1>2 DEF DisciplineShape, DisciplineColumns
  <2> QED BY <1>2, <2>1, CellsSame DEF DisciplinesBeside
<1>4. t.cat = F.cat
  BY <1>1, <1>3, ApartNowhere
<1> QED BY <1>1, <1>4 DEF DekanatGood

-------------------------------------------------------------------------------
(* A file of the dekanat, read twice                                         *)

(* A file of disciplines names all of them by code or all by title.          *)
OneKey(file) ==
  file.type = "disciplines" =>
    \A i, k \in DOMAIN file.rows : file.rows[i].code = None <=> file.rows[k].code = None
ByCode(file) == file.rows[1].code # None

(* What a row of the file has when the file is Addressed and OneKey.         *)
Fits(file, row) ==
  /\ file.type \in {"students", "staff"} => row.email # None
  /\ file.type = "disciplines" => (row.code # None) = ByCode(file)
Ready(t, row) == t.type = "disciplines" => CatalogueRow(t.cat, t.type, row).ok = TRUE

DekanatGrown(file, u, v) ==
  /\ v.type = u.type
  /\ file.type \in {"students", "staff"} => PeopleGrown(u, v)
  /\ file.type = "disciplines" => DisciplinesGrown(ByCode(file), u, v)
  /\ file.type = "groups" => GroupsGrown(u, v)
  /\ file.type = "curriculum" => CurriculaGrown(u, v)
  /\ Binding(file.type) => BindingsGrown(u, v)
DekanatBeside(file, F, s, t) ==
  IF file.type \in {"students", "staff"} THEN PeopleBeside(F, s, t)
  ELSE IF file.type = "disciplines" THEN DisciplinesBeside(ByCode(file), F, s, t)
  ELSE t = F

LEMMA DekanatGrows ==
  ASSUME NEW file, NEW t, DekanatGood(t), t.type = file.type, NEW row,
         Fits(file, row), Ready(t, row)
  PROVE  DekanatGood(DekanatRow(t, row)) /\ DekanatGrown(file, t, DekanatRow(t, row))
<1>1. PICK new : new = DekanatRow(t, row)
  OBVIOUS
<1>2. CASE file.type \in {"students", "staff"}
  <2>1. DekanatGood(new) /\ PeopleGrown(t, new)
    BY <1>1, <1>2, PeopleGrow DEF Fits
  <2> QED BY <1>1, <1>2, <2>1 DEF DekanatGrown, PeopleGrown, Binding
<1>3. CASE file.type = "disciplines"
  <2>1. PICK coded \in BOOLEAN : coded = ByCode(file) /\ coded = (row.code # None)
    BY <1>3 DEF Fits, ByCode
  <2>2. DekanatGood(new) /\ DisciplinesGrown(coded, t, new)
    BY <1>1, <1>3, <2>1, DisciplinesGrow DEF Ready
  <2>3. DisciplinesGrown(ByCode(file), t, new)
    BY <2>1, <2>2
  <2> QED BY <1>1, <1>3, <2>2, <2>3 DEF DekanatGrown, DisciplinesGrown, Binding
<1>4. CASE file.type = "groups"
  <2>1. DekanatGood(new) /\ GroupsGrown(t, new)
    BY <1>1, <1>4, GroupGrows
  <2> QED BY <1>1, <1>4, <2>1 DEF DekanatGrown, GroupsGrown, Binding
<1>5. CASE file.type = "curriculum"
  <2>1. DekanatGood(new) /\ CurriculaGrown(t, new)
    BY <1>1, <1>5, CurriculumGrows
  <2> QED BY <1>1, <1>5, <2>1 DEF DekanatGrown, CurriculaGrown, Binding
<1>6. CASE Binding(file.type)
  <2>1. DekanatGood(new) /\ BindingsGrown(t, new)
    BY <1>1, <1>6, BindingGrows
  <2> QED BY <1>1, <1>6, <2>1 DEF DekanatGrown, BindingsGrown, Binding
<1> QED BY <1>2, <1>3, <1>4, <1>5, <1>6 DEF Binding

LEMMA DekanatGrownOn ==
  ASSUME NEW file, NEW u, NEW v, NEW w, DekanatGrown(file, u, v), DekanatGrown(file, v, w)
  PROVE  DekanatGrown(file, u, w)
<1>1. PeopleGrown(u, v) /\ PeopleGrown(v, w) => PeopleGrown(u, w)
  BY DEF PeopleGrown
<1>2. /\ GroupsGrown(u, v) /\ GroupsGrown(v, w) => GroupsGrown(u, w)
      /\ CurriculaGrown(u, v) /\ CurriculaGrown(v, w) => CurriculaGrown(u, w)
  BY DEF GroupsGrown, CurriculaGrown
<1>3. BindingsGrown(u, v) /\ BindingsGrown(v, w) => BindingsGrown(u, w)
  BY DEF BindingsGrown
<1> QED BY <1>1, <1>2, <1>3, DisciplinesGrowOn DEF DekanatGrown

LEMMA DekanatGrownSelf ==
  ASSUME NEW file, NEW u, DekanatGood(u)
  PROVE  DekanatGrown(file, u, u)
<1>1. CatalogueShape(u.cat)
  BY SoundColumns DEF DekanatGood
<1>2. DisciplinesGrown(ByCode(file), u, u)
  BY <1>1 DEF DisciplinesGrown, Apart
<1> QED BY <1>2 DEF DekanatGrown, PeopleGrown, GroupsGrown, CurriculaGrown, BindingsGrown

LEMMA DekanatStart ==
  ASSUME NEW file, NEW u, NEW F, DekanatGood(F), DekanatGrown(file, u, F)
  PROVE  DekanatBeside(file, F, u, F)
BY PeopleStart, DisciplinesStart DEF DekanatGrown, DekanatBeside

LEMMA DekanatEnd ==
  ASSUME NEW file, NEW F, DekanatGood(F), NEW t, DekanatBeside(file, F, F, t)
  PROVE  t.ok = TRUE /\ t.cat = F.cat /\ t.accounts = F.accounts
<1>1. CASE file.type \in {"students", "staff"}
  BY <1>1, PeopleEnd DEF DekanatBeside
<1>2. CASE file.type = "disciplines"
  BY <1>2, DisciplinesEnd DEF DekanatBeside
<1>3. CASE file.type \notin {"students", "staff", "disciplines"}
  BY <1>3 DEF DekanatBeside, DekanatGood
<1> QED BY <1>1, <1>2, <1>3

LEMMA DekanatTwice ==
  ASSUME NEW file, NEW F, DekanatGood(F), NEW u, DekanatGood(u), u.type = file.type, NEW v,
         NEW row, Fits(file, row), Ready(u, row),
         DekanatGrown(file, DekanatRow(u, row), F), DekanatBeside(file, F, u, v)
  PROVE  v.ok = TRUE /\ DekanatBeside(file, F, DekanatRow(u, row), DekanatRow(v, row))
<1>1. PICK p, q : p = DekanatRow(u, row) /\ q = DekanatRow(v, row)
  OBVIOUS
<1>2. DekanatGood(p) /\ DekanatGrown(file, u, p) /\ DekanatGrown(file, p, F)
  BY <1>1, DekanatGrows
<1>3. F.type = u.type
  BY <1>2 DEF DekanatGrown
<1>4. CASE file.type \in {"students", "staff"}
  <2>1. PeopleBeside(F, u, v) /\ PeopleGrown(p, F)
    BY <1>2, <1>4 DEF DekanatBeside, DekanatGrown
  <2>2. PeopleBeside(F, p, q)
    BY <1>1, <1>4, <2>1, PeopleTwice DEF Fits
  <2> QED BY <1>1, <1>4, <2>1, <2>2 DEF DekanatBeside, PeopleBeside, DekanatGood
<1>5. CASE file.type = "disciplines"
  <2>1. PICK coded \in BOOLEAN : coded = ByCode(file) /\ coded = (row.code # None)
    BY <1>5 DEF Fits, ByCode
  <2>2. DisciplinesBeside(coded, F, u, v) /\ DisciplinesGrown(coded, p, F)
    BY <1>2, <1>5, <2>1 DEF DekanatBeside, DekanatGrown
  <2>3. DisciplinesBeside(coded, F, p, q)
    BY <1>1, <1>5, <2>1, <2>2, DisciplinesTwice DEF Ready
  <2>4. DisciplinesBeside(ByCode(file), F, p, q)
    BY <2>1, <2>3
  <2> QED BY <1>1, <1>5, <2>2, <2>4 DEF DekanatBeside, DisciplinesBeside, DekanatGood
<1>6. CASE file.type \notin {"students", "staff", "disciplines"}
  <2>1. v = F /\ v.ok = TRUE
    BY <1>6 DEF DekanatBeside, DekanatGood
  <2>2. CASE file.type = "groups"
    BY <1>1, <1>2, <1>3, <2>1, <2>2, GroupGrows, GroupFound
       DEF DekanatBeside, DekanatGrown, GroupsGrown
  <2>3. CASE file.type = "curriculum"
    BY <1>1, <1>2, <1>3, <2>1, <2>3, CurriculumGrows, CurriculumFound, TaughtStays
       DEF DekanatBeside, DekanatGrown
  <2>4. CASE Binding(file.type)
    <3>1. SoundCatalogue(p.cat)
      BY <1>2 DEF DekanatGood
    <3> QED BY <1>1, <1>2, <1>3, <1>6, <2>1, <2>4, <3>1, BindingGrows, BindingFound, BoundStays
            DEF DekanatBeside, DekanatGrown
  <2> QED BY <1>6, <2>2, <2>3, <2>4 DEF Binding
<1> QED BY <1>4, <1>5, <1>6

(* A second run, from F, of the first n rows.                                *)
Stepped(t, row) == IF t.ok THEN DekanatRow(t, row) ELSE t
ReadAgain(file, n, F, again) ==
  again[0] = F /\ \A m \in 1..n : again[m] = Stepped(again[m - 1], file.rows[m])

(* Wherever the first run, now at cur after n rows, may end, a second one    *)
(* from there will after these rows be beside it.                            *)
Replayed(file, n, cur) ==
  \A F, again : DekanatGood(F) /\ DekanatGrown(file, cur, F) /\ ReadAgain(file, n, F, again)
                  => DekanatBeside(file, F, cur, again[n])

DekanatLoop == INSTANCE RowLoop WITH Row <- Stepped, Kept <- LAMBDA tx, rows, n, t : TRUE

LEMMA ReplayBegins ==
  ASSUME NEW file, NEW cur
  PROVE  Replayed(file, 0, cur)
BY DekanatStart DEF Replayed, ReadAgain

LEMMA ReplayGoes ==
  ASSUME NEW file, NEW n \in Nat, NEW cur, DekanatGood(cur), cur.type = file.type,
         Fits(file, file.rows[n + 1]), Ready(cur, file.rows[n + 1]), Replayed(file, n, cur)
  PROVE  LET new == DekanatRow(cur, file.rows[n + 1])
         IN DekanatGood(new) /\ new.type = file.type /\ Replayed(file, n + 1, new)
<1>1. PICK row, new : row = file.rows[n + 1] /\ new = DekanatRow(cur, row)
  OBVIOUS
<1>2. DekanatGood(new) /\ DekanatGrown(file, cur, new)
  BY <1>1, DekanatGrows
<1>3. ASSUME NEW F, NEW again, DekanatGood(F), DekanatGrown(file, new, F),
             ReadAgain(file, n + 1, F, again)
      PROVE  DekanatBeside(file, F, new, again[n + 1])
  <2>1. DekanatGrown(file, cur, F)
    BY <1>2, <1>3, DekanatGrownOn
  <2>2. ReadAgain(file, n, F, again) /\ again[n + 1] = Stepped(again[n], row)
    <3>1. 1..n \subseteq 1..n + 1 /\ n + 1 \in 1..n + 1 /\ (n + 1) - 1 = n
      OBVIOUS
    <3> QED BY <1>1, <1>3, <3>1 DEF ReadAgain
  <2>3. PICK v : v = again[n]
    OBVIOUS
  <2>4. DekanatBeside(file, F, cur, v)
    BY <1>3, <2>1, <2>2, <2>3 DEF Replayed
  <2>5. v.ok = TRUE /\ DekanatBeside(file, F, new, DekanatRow(v, row))
    BY <1>1, <1>3, <2>4, DekanatTwice
  <2> QED BY <2>2, <2>3, <2>5 DEF Stepped
<1>4. new.type = file.type
  BY <1>2 DEF DekanatGrown
<1> QED BY <1>1, <1>2, <1>3, <1>4 DEF Replayed

LEMMA ReplayEnds ==
  ASSUME NEW file, IsTable(file.rows), NEW cur, DekanatGood(cur),
         Replayed(file, Len(file.rows), cur)
  PROVE  LET end == ForEach(DekanatRow, cur, file.rows)
         IN end.ok = TRUE /\ end.cat = cur.cat /\ end.accounts = cur.accounts
<1>1. Len(file.rows) \in Nat
  BY TableDomain
<1>2. PICK again : /\ again[0] = cur
                   /\ DekanatLoop!Through(cur, file.rows) = again[Len(file.rows)]
                   /\ \A m \in 1..Len(file.rows) : again[m] = Stepped(again[m - 1], file.rows[m])
  <2>1. PICK rows : rows = file.rows /\ Len(rows) \in Nat
    BY <1>1
  <2>2. \E again : /\ again[0] = cur
                   /\ DekanatLoop!Through(cur, rows) = again[Len(rows)]
                   /\ \A m \in 1..Len(rows) : again[m] = Stepped(again[m - 1], rows[m])
    BY <2>1, DekanatLoop!LoopStates, SMTT(30)
  <2> QED BY <2>1, <2>2
<1>3. ForEach(DekanatRow, cur, file.rows) = DekanatLoop!Through(cur, file.rows)
  BY DEF ForEach, Through, DekanatLoop!Through, Stepped
<1>4. ReadAgain(file, Len(file.rows), cur, again)
  BY <1>2 DEF ReadAgain
<1>5. PICK end : end = ForEach(DekanatRow, cur, file.rows)
  OBVIOUS
<1>6. DekanatBeside(file, cur, cur, end)
  BY <1>2, <1>3, <1>4, <1>5, DekanatGrownSelf DEF Replayed
<1> QED BY <1>5, <1>6, DekanatEnd

(* What is left of the rows after n of them.                                 *)
RestOf(rows, n, todo) ==
  /\ IsTable(todo) /\ n \in 0..Len(rows) /\ Len(todo) = Len(rows) - n
  /\ \A i \in 1..Len(todo) : todo[i] = rows[n + i]

LEMMA RestGoes ==
  ASSUME NEW rows, IsTable(rows), NEW n, NEW todo, RestOf(rows, n, todo), todo # <<>>
  PROVE  /\ n \in Nat /\ n + 1 \in DOMAIN rows /\ Head(todo) = rows[n + 1]
         /\ RestOf(rows, n + 1, Tail(todo))
         /\ Tail(todo) = <<>> <=> n + 1 = Len(rows)
<1>1. /\ Len(rows) \in Nat /\ DOMAIN rows = 1..Len(rows)
      /\ Len(todo) \in Nat /\ DOMAIN todo = 1..Len(todo)
  BY TableDomain DEF RestOf
<1>2. 1 \in DOMAIN todo /\ Head(todo) = todo[1] /\ IsTable(Tail(todo))
  BY FirstAndRest DEF RestOf
<1>3. Len(Tail(todo)) = Len(todo) - 1 /\ \A i \in 1..Len(todo) - 1 : Tail(todo)[i] = todo[i + 1]
  <2> DEFINE Rows == {todo[i] : i \in DOMAIN todo}
  <2>1. todo = [i \in 1..Len(todo) |-> todo[i]]
    BY DEF RestOf, IsTable
  <2>2. \A i \in 1..Len(todo) : todo[i] \in Rows
    BY <1>1
  <2> HIDE DEF Rows
  <2>3. todo \in Seq(Rows)
    BY <1>1, <2>1, <2>2
  <2> QED BY <1>1, <1>2, <2>3
<1>4. RestOf(rows, n + 1, Tail(todo))
  BY <1>1, <1>2, <1>3 DEF RestOf
<1>5. Tail(todo) = <<>> <=> Len(Tail(todo)) = 0
  <2>1. PICK rest : rest = Tail(todo)
    OBVIOUS
  <2> DEFINE Rows == {rest[i] : i \in DOMAIN rest}
  <2>2. Len(rest) \in Nat /\ DOMAIN rest = 1..Len(rest) /\ rest = [i \in 1..Len(rest) |-> rest[i]]
    BY <1>2, <2>1, TableDomain DEF IsTable
  <2>3. \A i \in 1..Len(rest) : rest[i] \in Rows
    BY <2>2
  <2> HIDE DEF Rows
  <2>4. rest \in Seq(Rows)
    BY <2>2, <2>3
  <2>5. rest = <<>> <=> Len(rest) = 0
    BY <2>4
  <2> QED BY <2>1, <2>5
<1> QED BY <1>1, <1>2, <1>3, <1>4, <1>5 DEF RestOf

-------------------------------------------------------------------------------
(* import_dekanat_csv at work                                                *)

(* Where the command would be if its rows were read as a second run's are.   *)
Current(table) == [ok |-> TRUE, cat |-> catalogue, accounts |-> table, type |-> job.file.type]

(* Between the two saves of a person, the accounts are those that were there *)
(* before, with the user just saved.                                         *)
Reading(file, n) ==
  /\ RestOf(file.rows, n, job.todo) /\ job.todo # <<>>
  /\ job.email = None => Replayed(file, n, Current(accounts))
  /\ job.email # None =>
       /\ file.type \in {"students", "staff"}
       /\ \E table : /\ AccountsOK(table) /\ Replayed(file, n, Current(table))
                     /\ accounts = UpsertUser(table, Row) /\ job.email = RowEmail(table, Row)
DekanatReading ==
  job.kind = "dekanat" /\ Addressed(job.file) /\ OneKey(job.file)
    => job.file \in DekanatFiles /\ \E n : Reading(job.file, n)

LEMMA CurrentGood ==
  ASSUME IInv, NEW table, AccountsOK(table)
  PROVE  /\ DekanatGood(Current(table)) /\ Current(table).type = job.file.type
         /\ Current(table).cat = catalogue /\ Current(table).accounts = table
BY DEF Current, DekanatGood, DekanatShape, HasColumns, IInv

LEMMA BeginReads ==
  ASSUME NEW file \in DekanatFiles, BeginDekanat(file)
  PROVE  DekanatReading'
<1>1. job' = [kind |-> "dekanat", file |-> file, todo |-> file.rows, email |-> None]
  BY DEF BeginDekanat
<1>2. job'.file = file /\ job'.todo = file.rows /\ job'.email = None
  BY <1>1
<1>3. IsTable(file.rows) /\ file.rows # <<>>
  BY FilesAssumption
<1>4. RestOf(file.rows, 0, file.rows)
  BY <1>3, TableDomain DEF RestOf
<1>5. Reading(file, 0)'
  BY <1>2, <1>3, <1>4, ReplayBegins DEF Reading
<1> QED BY <1>2, <1>5 DEF DekanatReading

LEMMA UserReads ==
  ASSUME IInv, DekanatReading, SaveUser
  PROVE  DekanatReading'
<1>1. job.kind = "dekanat" /\ DekanatUnderWay
  BY DekanatJob DEF SaveUser
<1>2. /\ accounts' = UpsertUser(accounts, Row) /\ catalogue' = catalogue /\ job.email = None
      /\ job' = [job EXCEPT !.email = RowEmail(accounts, Row)]
      /\ job.file.type \in {"students", "staff"}
  BY DEF SaveUser, People
<1>3. /\ job'.kind = job.kind /\ job'.file = job.file /\ job'.todo = job.todo
      /\ job'.email = RowEmail(accounts, Row)
  BY <1>1, <1>2 DEF DekanatUnderWay, HasColumns
<1>4. SUFFICES ASSUME Addressed(job.file), OneKey(job.file)
               PROVE  job.file \in DekanatFiles /\ \E n : Reading(job.file, n)'
  BY <1>3 DEF DekanatReading
<1>5. job.file \in DekanatFiles /\ \E n : Reading(job.file, n)
  BY <1>1, <1>4 DEF DekanatReading
<1>6. PICK n : Reading(job.file, n)
  BY <1>5
<1>7. Row' = Row /\ \A table : Current(table)' = Current(table)
  BY <1>2, <1>3 DEF Row, Current
<1>8. RowEmail(accounts, Row) # None
  <2>1. PICK k : k \in DOMAIN job.file.rows /\ Row = job.file.rows[k]
    BY <1>5, <1>6, FilesAssumption, RestGoes DEF Reading, Row
  <2> QED BY <1>2, <1>4, <2>1 DEF Addressed, People, RowEmail
<1>9. AccountsOK(accounts) /\ Replayed(job.file, n, Current(accounts))
  BY <1>2, <1>6 DEF IInv, TypeOK, Reading
<1>10. Reading(job.file, n)'
  BY <1>2, <1>3, <1>6, <1>7, <1>8, <1>9 DEF Reading
<1> QED BY <1>5, <1>10

(* A row that the first run has read, and what the file's last one ends.     *)
LEMMA RowReads ==
  ASSUME IInv, job.kind = "dekanat", job.file \in DekanatFiles,
         Addressed(job.file), OneKey(job.file),
         NEW n, RestOf(job.file.rows, n, job.todo), job.todo # <<>>,
         NEW table, AccountsOK(table), Replayed(job.file, n, Current(table)),
         Ready(Current(table), Row),
         NEW new, new = DekanatRow(Current(table), Row),
         catalogue' = new.cat, accounts' = new.accounts, RowDone(TRUE)
  PROVE  DekanatReading' /\ (last'.kind = "dekanat" => RerunChangesNothing')
<1> DEFINE file == job.file
           rest == [job EXCEPT !.todo = Tail(@), !.email = None]
<1>1. DekanatUnderWay
  BY DekanatJob
<1>2. /\ rest.kind = "dekanat" /\ rest.file = file /\ rest.todo = Tail(job.todo)
      /\ rest.email = None
  BY <1>1 DEF DekanatUnderWay, HasColumns
<1>3. /\ job' = IF rest.todo # <<>> THEN rest ELSE NoJob
      /\ last' = IF rest.todo # <<>> THEN Nothing
                 ELSE [kind |-> "dekanat", source |-> file, ok |-> TRUE]
  BY DEF RowDone
<1> HIDE DEF rest
<1>4. IsTable(file.rows)
  BY FilesAssumption
<1>5. /\ n \in Nat /\ n + 1 \in DOMAIN file.rows /\ Row = file.rows[n + 1]
      /\ RestOf(file.rows, n + 1, Tail(job.todo))
      /\ Tail(job.todo) = <<>> <=> n + 1 = Len(file.rows)
  BY <1>4, RestGoes DEF Row
<1>6. Fits(file, Row)
  <2>1. file.type \in {"students", "staff"} => Row.email # None
    BY <1>5 DEF Addressed, People
  <2>2. file.type = "disciplines" => (Row.code # None) = ByCode(file)
    <3>1. 1 \in DOMAIN file.rows
      BY <1>4, <1>5, TableDomain
    <3> QED BY <1>5, <3>1 DEF OneKey, ByCode
  <2> QED BY <2>1, <2>2 DEF Fits
<1>7. DekanatGood(Current(table)) /\ Current(table).type = file.type
  BY CurrentGood
<1>8. DekanatGood(new) /\ new.type = file.type /\ Replayed(file, n + 1, new)
  BY <1>5, <1>6, <1>7, ReplayGoes
<1>9. PICK now : now = [ok |-> TRUE, cat |-> catalogue', accounts |-> accounts', type |-> file.type]
  OBVIOUS
<1>10. now = new
  <2>1. /\ now.ok = TRUE /\ now.cat = new.cat /\ now.accounts = new.accounts
        /\ now.type = new.type /\ DekanatShape(now)
    BY <1>8, <1>9 DEF DekanatShape, HasColumns
  <2> QED BY <1>8, <2>1, SameState
<1>11. CASE rest.todo # <<>>
  <2>1. job' = rest /\ last'.kind = "none"
    BY <1>3, <1>11 DEF Nothing
  <2>2. Current(accounts)' = now
    BY <1>2, <1>9, <2>1 DEF Current
  <2>3. Reading(file, n + 1)'
    BY <1>2, <1>5, <1>8, <1>10, <1>11, <2>1, <2>2 DEF Reading
  <2> QED BY <1>2, <2>1, <2>3 DEF DekanatReading
<1>12. CASE rest.todo = <<>>
  <2>1. job'.kind = "none" /\ last' = [kind |-> "dekanat", source |-> file, ok |-> TRUE]
    BY <1>3, <1>12 DEF NoJob
  <2>2. Replayed(file, Len(file.rows), new)
    BY <1>2, <1>5, <1>8, <1>12
  <2>3. PICK end : end = ForEach(DekanatRow, now, file.rows)
    OBVIOUS
  <2>4. end.ok = TRUE /\ end.cat = new.cat /\ end.accounts = new.accounts
    BY <1>4, <1>8, <1>10, <2>2, <2>3, ReplayEnds
  <2>5. Again' = end
    BY <1>9, <2>1, <2>3 DEF Again
  <2>6. RerunChangesNothing'
    BY <2>1, <2>4, <2>5 DEF RerunChangesNothing
  <2> QED BY <2>1, <2>6 DEF DekanatReading
<1> QED BY <1>11, <1>12

DekanatEnded == last.kind = "dekanat" /\ OneKey(last.source) => RerunChangesNothing

(* A row's command has ended, of a file of which this is not said, or with   *)
(* the row raising.                                                          *)
LEMMA Unread ==
  ASSUME IInv, job.kind = "dekanat", NEW ok \in BOOLEAN, RowDone(ok),
         ok => ~(Addressed(job.file) /\ OneKey(job.file))
  PROVE  DekanatReading' /\ DekanatEnded'
<1> DEFINE rest == [job EXCEPT !.todo = Tail(@), !.email = None]
<1>1. DekanatUnderWay
  BY DekanatJob
<1>2. rest.kind = "dekanat" /\ rest.file = job.file
  BY <1>1 DEF DekanatUnderWay, HasColumns
<1>3. /\ job' = IF ok /\ rest.todo # <<>> THEN rest ELSE NoJob
      /\ last' = IF ok /\ rest.todo # <<>> THEN Nothing
                 ELSE [kind |-> "dekanat", source |-> job.file, ok |-> ok]
  BY DEF RowDone
<1> HIDE DEF rest
<1>4. DekanatReading'
  BY <1>2, <1>3 DEF DekanatReading, NoJob
<1>5. DekanatEnded'
  BY <1>3 DEF DekanatEnded, RerunChangesNothing, Nothing
<1> QED BY <1>4, <1>5

LEMMA ProfileReads ==
  ASSUME IInv, DekanatReading, SaveProfile
  PROVE  DekanatReading' /\ DekanatEnded'
<1>1. job.kind = "dekanat" /\ job.email # None /\ RowDone(TRUE) /\ catalogue' = catalogue
  BY DEF SaveProfile
<1>2. CASE ~(Addressed(job.file) /\ OneKey(job.file))
  BY <1>1, <1>2, Unread
<1>3. CASE Addressed(job.file) /\ OneKey(job.file)
  <2>1. job.file \in DekanatFiles /\ \E n : Reading(job.file, n)
    BY <1>1, <1>3 DEF DekanatReading
  <2>2. PICK n : Reading(job.file, n)
    BY <2>1
  <2>3. PICK table : /\ AccountsOK(table) /\ Replayed(job.file, n, Current(table))
                     /\ accounts = UpsertUser(table, Row) /\ job.email = RowEmail(table, Row)
    BY <1>1, <2>2 DEF Reading
  <2>4. /\ RestOf(job.file.rows, n, job.todo) /\ job.todo # <<>>
        /\ job.file.type \in {"students", "staff"}
    BY <1>1, <2>2 DEF Reading
  <2>5. job.email = Row.email
    <3>1. PICK k : k \in DOMAIN job.file.rows /\ Row = job.file.rows[k]
      BY <2>1, <2>4, FilesAssumption, RestGoes DEF Row
    <3> QED BY <1>3, <2>3, <2>4, <3>1 DEF Addressed, People, RowEmail
  <2>6. PICK cur, new : cur = Current(table) /\ new = DekanatRow(cur, Row)
    OBVIOUS
  <2>7. DekanatGood(cur) /\ cur.type = job.file.type /\ cur.cat = catalogue /\ cur.accounts = table
    BY <2>3, <2>6, CurrentGood
  <2>8. Ready(cur, Row)
    BY <2>4, <2>7 DEF Ready
  <2>9. new = [cur EXCEPT !.accounts = accounts']
    <3>1. CASE job.file.type = "students"
      BY <2>3, <2>5, <2>6, <2>7, <3>1 DEF DekanatRow, SaveProfile
    <3>2. CASE job.file.type = "staff"
      BY <2>3, <2>5, <2>6, <2>7, <3>2 DEF DekanatRow, SaveProfile
    <3> QED BY <2>4, <3>1, <3>2
  <2>10. catalogue' = new.cat /\ accounts' = new.accounts
    BY <1>1, <2>7, <2>9 DEF DekanatGood, DekanatShape, HasColumns
  <2>11. DekanatReading' /\ (last'.kind = "dekanat" => RerunChangesNothing')
    BY <1>1, <1>3, <2>1, <2>3, <2>4, <2>6, <2>8, <2>10, RowReads
  <2> QED BY <2>11 DEF DekanatEnded
<1> QED BY <1>2, <1>3

LEMMA CatalogueReads ==
  ASSUME IInv, DekanatReading, SaveCatalogueRow
  PROVE  DekanatReading' /\ DekanatEnded'
<1>1. PICK result : result = CatalogueRow(catalogue, job.file.type, Row)
  OBVIOUS
<1>2. /\ job.kind = "dekanat" /\ job.file.type \notin {"students", "staff"}
      /\ catalogue' = IF result.ok THEN result.cat ELSE catalogue
      /\ RowDone(result.ok) /\ accounts' = accounts
  BY <1>1 DEF SaveCatalogueRow, People
<1>3. result.ok \in BOOLEAN
  BY <1>1, CatalogueRowSound DEF IInv
<1>4. CASE ~(result.ok /\ Addressed(job.file) /\ OneKey(job.file))
  BY <1>2, <1>3, <1>4, Unread
<1>5. CASE result.ok /\ Addressed(job.file) /\ OneKey(job.file)
  <2>1. job.file \in DekanatFiles /\ \E n : Reading(job.file, n)
    BY <1>2, <1>5 DEF DekanatReading
  <2>2. PICK n : Reading(job.file, n)
    BY <2>1
  <2>3. /\ RestOf(job.file.rows, n, job.todo) /\ job.todo # <<>>
        /\ Replayed(job.file, n, Current(accounts))
    BY <1>2, <2>2 DEF Reading
  <2>4. AccountsOK(accounts)
    BY DEF IInv, TypeOK
  <2>5. PICK cur, new : cur = Current(accounts) /\ new = DekanatRow(cur, Row)
    OBVIOUS
  <2>6. /\ DekanatGood(cur) /\ cur.type = job.file.type
        /\ cur.cat = catalogue /\ cur.accounts = accounts
    BY <2>4, <2>5, CurrentGood
  <2>7. result.ok = TRUE /\ RowDone(TRUE) /\ catalogue' = result.cat
    BY <1>2, <1>3, <1>5
  <2>8. RowSaved(cur, Row, result.cat, new)
    BY <1>1, <2>5, <2>6, <2>7 DEF RowSaved
  <2>9. new.cat = result.cat /\ new.accounts = accounts
    BY <1>2, <2>6, <2>8, CatalogueRowRead
  <2>10. Ready(cur, Row)
    BY <2>8 DEF Ready, RowSaved
  <2>11. DekanatReading' /\ (last'.kind = "dekanat" => RerunChangesNothing')
    BY <1>2, <1>5, <2>1, <2>3, <2>4, <2>5, <2>7, <2>9, <2>10, RowReads
  <2> QED BY <2>11 DEF DekanatEnded
<1> QED BY <1>4, <1>5

LEMMA OthersRead ==
  ASSUME IInv, DekanatReading, [Next]_vars, ~SaveProfile, ~SaveCatalogueRow
  PROVE  DekanatReading'
<1>1. CASE \E source \in Journals : ImportLrAccounting(source)
  BY <1>1 DEF ImportLrAccounting, Commit, Start, Idle, NoJob, DekanatReading
<1>2. CASE \E source \in OrgFiles : ImportStudlabOrg(source)
  BY <1>2 DEF ImportStudlabOrg, Commit, Start, Idle, NoJob, DekanatReading
<1>3. CASE \E name \in DraftSemesters : BeginDrafts(name)
  BY <1>3 DEF BeginDrafts, DekanatReading
<1>4. CASE NextDraft
  <2> DEFINE rest == [job EXCEPT !.todo = Tail(@)]
  <2>1. HasColumns(job, {"kind", "name", "semester", "todo"}) /\ job.kind = "drafts"
    BY <1>4 DEF NextDraft, IInv, JobOK, DraftsUnderWay, NoJob
  <2>2. rest.kind = "drafts"
    BY <2>1 DEF HasColumns
  <2>3. job' = rest \/ job' = NoJob
    BY <1>4 DEF NextDraft
  <2> HIDE DEF rest
  <2> QED BY <2>2, <2>3 DEF NoJob, DekanatReading
<1>5. CASE \E include \in BOOLEAN : BeginWorkload(include)
  BY <1>5 DEF BeginWorkload, DekanatReading
<1>6. CASE NextWorkloadGroup \/ EndWorkload
  <2>1. job'.kind # "dekanat"
    <3> DEFINE done == [job EXCEPT !.todo = Tail(@)]
               counted(tx) == [done EXCEPT !.counters = tx.counters, !.given = @ \cup tx.mine]
    <3>1. HasColumns(job, {"kind", "include", "todo", "counters", "given"}) /\ job.kind = "workload"
      BY <1>6 DEF NextWorkloadGroup, EndWorkload, IInv, JobOK, WorkloadUnderWay, NoJob
    <3>2. done.kind = "workload" /\ \A tx : counted(tx).kind = "workload"
      BY <3>1 DEF HasColumns
    <3>3. job' = NoJob \/ job' = done \/ \E tx : job' = counted(tx)
      BY <1>6 DEF NextWorkloadGroup, EndWorkload
    <3> HIDE DEF done, counted
    <3> QED BY <3>2, <3>3 DEF NoJob
  <2> QED BY <2>1 DEF DekanatReading
<1>7. CASE \E file \in DekanatFiles : BeginDekanat(file)
  BY <1>7, BeginReads
<1>8. CASE SaveUser
  BY <1>8, UserReads
<1>9. CASE \E center \in RepairCenters : Repair(center)
  BY <1>9 DEF Repair, Start, Idle, NoJob, DekanatReading
<1>10. CASE Killed
  BY <1>10 DEF Killed, NoJob, DekanatReading
<1>11. CASE UNCHANGED vars
  <2>1. \A file, n : Reading(file, n)' <=> Reading(file, n)
    BY <1>11 DEF vars, Reading, Current, Row
  <2> QED BY <1>11, <2>1 DEF vars, DekanatReading
<1>12. Next \/ UNCHANGED vars
  OBVIOUS
<1> QED BY <1>1, <1>2, <1>3, <1>4, <1>5, <1>6, <1>7, <1>8, <1>9, <1>10, <1>11, <1>12 DEF Next

(* import_dekanat_csv, run again right after it has succeeded, succeeds and  *)
(* changes nothing, whatever was imported and killed before: of a file whose *)
(* people have addresses and whose disciplines are named all by code or all  *)
(* by title. In a file that does both, a row by code may rename the          *)
(* discipline that a row by title has found: next time that row makes a new  *)
(* one.                                                                      *)
THEOREM DekanatRerunChangesNothing ==
  Spec => [](last.kind = "dekanat" /\ OneKey(last.source) => RerunChangesNothing)
<1>1. Init => LastEnded /\ DekanatReading /\ DekanatEnded
  BY DEF Init, LastEnded, DekanatReading, DekanatEnded, Nothing, NoJob
<1>2. IInv /\ LastEnded /\ DekanatReading /\ DekanatEnded /\ [Next]_vars
        => DekanatReading' /\ DekanatEnded'
  <2> SUFFICES ASSUME IInv, LastEnded, DekanatReading, DekanatEnded, [Next]_vars
               PROVE  DekanatReading' /\ DekanatEnded'
    OBVIOUS
  <2>1. CASE SaveProfile
    BY <2>1, ProfileReads
  <2>2. CASE SaveCatalogueRow
    BY <2>2, CatalogueReads
  <2>3. CASE ~SaveProfile /\ ~SaveCatalogueRow
    <3>1. DekanatReading'
      BY <2>3, OthersRead
    <3>2. DekanatEnded'
      <4>1. CASE UNCHANGED <<catalogue, accounts, last>>
        BY <4>1 DEF DekanatEnded, RerunChangesNothing, Again
      <4>2. CASE EndsOther
        BY <4>1, <4>2 DEF EndsOther, DekanatEnded, Nothing
      <4>3. CASE \E source \in OrgFiles : ImportStudlabOrg(source)
        BY <4>3 DEF ImportStudlabOrg, Commit, DekanatEnded
      <4> QED BY <2>3, <4>2, <4>3, LastCommand
    <3> QED BY <3>1, <3>2
  <2> QED BY <2>1, <2>2, <2>3
<1>3. DekanatEnded => (last.kind = "dekanat" /\ OneKey(last.source) => RerunChangesNothing)
  BY DEF DekanatEnded
<1> QED BY <1>1, <1>2, <1>3, LastEndedStays, AlwaysSound, PTL DEF Spec
================================================================================
