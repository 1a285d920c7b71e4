----------------------------- MODULE AccountImport -----------------------------
(*****************************************************************************)
(* What the importers do to users and their profiles, as operators on the    *)
(* table of accounts: the journals' students, generate_workload_students,    *)
(* import_dekanat_csv, the staff of import_studlab_org.                      *)
(* s250001@stud.spmi.ru is <<"25", 1>>; an address made up by the dekanat    *)
(* import is <<its local part, its suffix>>.                                 *)
(*****************************************************************************)
EXTENDS CatalogueImport

CONSTANTS
  Group,
  YearOf,             \* admission_year_from_group, or None when it raises
  GroupOrder,         \* the groups by name
  StudentsPerGroup,   \* --students-per-group and --max-students-per-group
  GeneratedSuffixes   \* suffixes _next_generated_email tries (bound)

ASSUME AccountAssumption ==
  /\ StudentsPerGroup \in Nat \ {0}
  /\ DOMAIN YearOf = Group /\ Range(GroupOrder) = Group
  /\ GeneratedSuffixes \subseteq Nat

Years == ({YearOf[g] : g \in Group} \ {None}) \cup {"99"}
NewYearCounters == [y \in Years |-> 0]

NewAccount(email, role) ==
  [email |-> email, role |-> role, groupName |-> None, group |-> None, record |-> None,
   center |-> None, laboratory |-> None, disciplines |-> {}]
ByEmail(table, email) == Where(table, LAMBDA a : a.email = email)
Account(table, email, role) ==
  IF ByEmail(table, email) = {} THEN NewAccount(email, role)
  ELSE table[Min(ByEmail(table, email))]
AccountsOK(table) ==
  /\ Table(table, LAMBDA a :
       HasColumns(a, {"email", "role", "groupName", "group", "record", "center", "laboratory",
                      "disciplines"}))
  /\ \A i, k \in DOMAIN table : table[i].email = table[k].email => i = k
PutAccount(table, row) == Put(table, First(table, ByEmail(table, row.email)), row)
StudentsOf(table, g) == Where(table, LAMBDA a : a.role = "STUDENT" /\ a.group = g)

-------------------------------------------------------------------------------
(* Students of the journals                                                  *)

(* allocate_student_id; a group without a year raises.                       *)
JournalStudent(tx, i) ==
  LET g == tx.group
      year == YearOf[g]
      n == tx.counters[year] + 1
      email == <<year, n>>
  IN IF year = None THEN Raise(tx)
     ELSE [tx EXCEPT !.counters[year] = n,
                     !.accounts = PutAccount(@, [Account(@, email, "STUDENT") EXCEPT
                       !.role = "STUDENT", !.groupName = g, !.group = g, !.record = email])]

(* _import_workbooks for one sheet: the group, its lab works, its students.  *)
GroupSheet(tx, sheet) ==
  LET grouped == [tx EXCEPT !.cat = Plan(@, sheet.group, {}, {}), !.group = sheet.group]
      students == [i \in 1..Min({StudentsPerGroup, sheet.students}) |-> i]
  IN ForEach(JournalStudent, ForEach(SheetWork, grouped, sheet.works), students)

Workbook(tx, book) ==
  LET here == [tx EXCEPT !.room = book.room]
  IN IF book.room \notin DOMAIN RoomCapacity THEN Raise(tx)
     ELSE ForEach(CatalogWork, ForEach(GroupSheet, here, book.sheets), book.catalog)

(* --clear-existing removes the students; staff stays.                       *)
ClearStudents(table) == Those(table, LAMBDA a : a.role # "STUDENT")

(* A workbook that cannot be read stops the command before its transaction.  *)
ImportJournals(cat, accounts, source) ==
  LET base == IF source.clear THEN ClearExistingData(cat) ELSE cat
      people == IF source.clear THEN ClearStudents(accounts) ELSE accounts
      tx == [ok |-> Readable(source.books), cat |-> EnsureSemester(EnsureRooms(base), source.semester),
             accounts |-> people, semester |-> source.semester, counters |-> NewYearCounters,
             done |-> {}, d |-> 0, w |-> 0, room |-> None, group |-> None]
  IN ForEach(Workbook, tx, ParseBooks(source.books))

-------------------------------------------------------------------------------
(* generate_workload_students: one transaction per group                     *)

(* Mutated form of Allocate: the counter of the year starts anew.            *)
AllocateAnew(tx) == [tx EXCEPT !.email = <<YearOf[tx.group], Cardinality(tx.mine) + 1>>]

(* A group without a year takes the number of year 99 before counting it.    *)
Allocate(tx) ==
  LET year == YearOf[tx.group]
  IN IF year = None
     THEN [tx EXCEPT !.email = <<"99", tx.counters["99"]>>, !.counters["99"] = @ + 1]
     ELSE [tx EXCEPT !.email = <<year, tx.counters[year] + 1>>, !.counters[year] = @ + 1]

(* get_or_create by address, then the profile is overwritten.                *)
WorkloadStudent(tx, i) ==
  LET t == Allocate(tx)
  IN [t EXCEPT !.mine = @ \cup {t.email},
               !.accounts = PutAccount(@, [Account(@, t.email, "STUDENT") EXCEPT
                 !.groupName = t.group, !.group = t.group, !.record = t.email])]

WorkloadGroup(accounts, counters, g) ==
  LET missing == Max({0, StudentsPerGroup - Cardinality(StudentsOf(accounts, g))})
  IN ForEach(WorkloadStudent,
             [ok |-> TRUE, accounts |-> accounts, counters |-> counters, mine |-> {},
              email |-> None, group |-> g],
             [i \in 1..missing |-> i])

-------------------------------------------------------------------------------
(* import_dekanat_csv: a row of students, teachers or staff                  *)

(* _resolve_email: without an address in the row, one nobody has.            *)
RowEmail(table, row) ==
  IF row.email # None THEN row.email
  ELSE <<row.hint, Min({n \in GeneratedSuffixes : ByEmail(table, <<row.hint, n>>) = {}})>>

(* _upsert_user                                                              *)
UpsertUser(table, row) ==
  LET email == RowEmail(table, row)
  IN PutAccount(table, [Account(table, email, row.role) EXCEPT !.role = row.role])

(* The profile is overwritten; the group itself only when it is known.       *)
StudentProfile(table, row, email, groups) ==
  LET i == Min(ByEmail(table, email))
  IN [table EXCEPT ![i].groupName = row.group, ![i].record = row.record,
                   ![i].group = IF row.group \in groups THEN row.group ELSE @]

(* _import_staff, _bind_staff_laboratory                                     *)
StaffProfile(table, row, email, cat) ==
  LET i == Min(ByEmail(table, email))
      found == Where(cat.disciplines, LAMBDA d : d.code = row.code)
      bound == IF table[i].laboratory = None /\ row.role # "TEACHER" /\ row.center = Center
                  /\ JournalLaboratory \in cat.laboratories
               THEN JournalLaboratory ELSE table[i].laboratory
  IN [table EXCEPT ![i].center = IF row.center = None THEN @ ELSE row.center,
                   ![i].laboratory = bound,
                   ![i].disciplines = IF found = {} THEN @ ELSE @ \cup {Min(found)}]

-------------------------------------------------------------------------------
(* import_studlab_org: role, centre and laboratory are the file's            *)

OrgStaff(tx, row) ==
  LET laboratory == IF row.laboratory \in tx.cat.laboratories THEN row.laboratory ELSE None
  IN [tx EXCEPT !.accounts = PutAccount(@, [Account(@, row.email, row.role) EXCEPT
        !.role = row.role, !.center = row.center, !.laboratory = laboratory])]

ImportOrg(cat, accounts, source) ==
  LET tx == [ok |-> TRUE, cat |-> cat, accounts |-> accounts]
      departments == ForEach(UpsertDepartment, tx, source.departments)
      laboratories == ForEach(OrgLaboratory, departments, source.laboratories)
      rooms == ForEach(OrgRoom, laboratories, source.rooms)
  IN ForEach(OrgStaff, rooms, source.staff)
================================================================================
