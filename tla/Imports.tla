-------------------------------- MODULE Imports --------------------------------
(*****************************************************************************)
(* The import commands over one database, run one after another as           *)
(* sync-catalog-vm.sh does, each of them killed at any commit. The journals  *)
(* and the organisation are one transaction, the curated drafts one per      *)
(* department, generate_workload_students one per group, import_dekanat_csv  *)
(* none at all: every save of it stays.                                      *)
(*****************************************************************************)
EXTENDS AccountImport

CONSTANTS
  Journals, OrgFiles, Drafts, DraftSemesters, DekanatFiles, RepairCenters, \* inputs
  StartCatalogue,
  Commands,           \* commands this instance runs
  MaxRuns             \* commands run (bound)

(* The files are tables, as csv and openpyxl read them.                      *)
ASSUME FilesAssumption ==
  /\ \A source \in Journals : Table(source.books, LAMBDA book :
       Table(book.sheets, LAMBDA sheet :
         sheet.kind \in {"group", "catalog"} => Table(sheet.rows, IsTable)))
  /\ \A source \in OrgFiles :
       /\ Table(source.departments, LAMBDA row : HasColumns(row, {"code", "title"}))
       /\ IsTable(source.laboratories) /\ IsTable(source.rooms) /\ IsTable(source.staff)
  /\ \A file \in DekanatFiles : IsTable(file.rows) /\ file.rows # <<>>
  /\ IsTable(GroupOrder) /\ IsTable(TitleOrder) /\ MaxRuns \in Nat

(* A draft lists the lab works of its groups once more, with disciplines it  *)
(* has (department_workload_parser.py writes 07_lab_works_unique.csv and     *)
(* 02_disciplines.csv from the rows of 04_lab_works.csv).                    *)
Listed(draft, link) ==
  \E i \in DOMAIN draft.unique, d \in DOMAIN draft.disciplines :
    LET row == draft.unique[i]
    IN /\ row.room = link.room /\ row.title[1] = link.title[1]
       /\ row.discipline = link.discipline /\ draft.disciplines[d].title = link.discipline

ASSUME DraftsAssumption ==
  /\ Drafts # <<>>
  /\ Table(Drafts, LAMBDA draft :
       /\ IsTable(draft.disciplines) /\ IsTable(draft.groups) /\ IsTable(draft.curriculum)
       /\ Table(draft.unique, LAMBDA row : row.capacity \in Nat)
       /\ Table(draft.links, LAMBDA link : Listed(draft, link)))

ASSUME StartAssumption ==
  CatalogueOK(StartCatalogue) /\ WorksUnique(StartCatalogue.works) /\ PlansBookable(StartCatalogue)

(* The departments that the files of the organisation name. CodesAgree: a    *)
(* code is one department's, in all the files and in the database before.    *)
FiledDepartments ==
  UNION {Range(source.departments)
           \cup {[code |-> r.code, title |-> r.title] : r \in {k \in Range(source.laboratories) :
                                                              k.code # None}} : source \in OrgFiles}
CodesAgree ==
  \A d \in FiledDepartments, e \in FiledDepartments \cup Range(StartCatalogue.departments) :
    d.code = e.code => d.title = e.title

VARIABLES
  catalogue,          \* semesters, departments, laboratories, rooms, disciplines, works, groups
  accounts,           \* User with UserProfile
  job,                \* the command under way, with what it has left to do
  last,               \* history: the command that has just ended, none when killed
  runs                \* commands started so far (bound)

vars == <<catalogue, accounts, job, last, runs>>

NoJob == [kind |-> "none"]
Idle == job = NoJob
Nothing == [kind |-> "none", ok |-> TRUE]

Init ==
  /\ catalogue = StartCatalogue
  /\ accounts = <<>>
  /\ job = NoJob
  /\ last = Nothing
  /\ runs = 0

Start(command) == command \in Commands /\ Idle /\ runs < MaxRuns /\ runs' = runs + 1

(* The transaction of the whole command: all of it or nothing.               *)
Commit(kind, source, tx) ==
  /\ catalogue' = IF tx.ok THEN tx.cat ELSE catalogue
  /\ accounts' = IF tx.ok THEN tx.accounts ELSE accounts
  /\ last' = [kind |-> kind, source |-> source, ok |-> tx.ok]
  /\ UNCHANGED job

ImportLrAccounting(source) ==
  Start("journals") /\ Commit("journals", source, ImportJournals(catalogue, accounts, source))

ImportStudlabOrg(source) ==
  Start("org") /\ Commit("org", source, ImportOrg(catalogue, accounts, source))

-------------------------------------------------------------------------------
(* import_curated_catalog: the semester of that name, or the active one      *)

SemesterFor(name) ==
  IF name \in DOMAIN catalogue.semesters THEN {name}
  ELSE {s \in DOMAIN catalogue.semesters : catalogue.semesters[s]}

BeginDrafts(name) ==
  /\ Start("drafts")
  /\ SemesterFor(name) # {}
  /\ job' = [kind |-> "drafts", name |-> name, semester |-> CHOOSE s \in SemesterFor(name) : TRUE,
             todo |-> Drafts]
  /\ last' = Nothing
  /\ UNCHANGED <<catalogue, accounts>>

NextDraft ==
  LET tx == ImportDraft(catalogue, Head(job.todo), job.semester)
      rest == [job EXCEPT !.todo = Tail(@)]
  IN /\ job.kind = "drafts"
     /\ catalogue' = IF tx.ok THEN tx.cat ELSE catalogue
     /\ job' = IF tx.ok /\ rest.todo # <<>> THEN rest ELSE NoJob
     /\ last' = IF tx.ok /\ rest.todo # <<>> THEN Nothing
                ELSE [kind |-> "drafts", source |-> job.semester, ok |-> tx.ok]
     /\ UNCHANGED <<accounts, runs>>

-------------------------------------------------------------------------------
(* generate_workload_students                                                *)

BeginWorkload(includeExisting) ==
  /\ Start("workload")
  /\ job' = [kind |-> "workload", include |-> includeExisting, todo |-> GroupOrder,
             counters |-> NewYearCounters, given |-> {}]
  /\ last' = Nothing
  /\ UNCHANGED <<catalogue, accounts>>

NextWorkloadGroup ==
  LET g == Head(job.todo)
      tx == WorkloadGroup(accounts, job.counters, g)
      skipped == \/ g \notin DOMAIN catalogue.groups
                 \/ ~job.include /\ StudentsOf(accounts, g) # {}
      done == [job EXCEPT !.todo = Tail(@)]
  IN /\ job.kind = "workload"
     /\ job.todo # <<>>
     /\ accounts' = IF skipped THEN accounts ELSE tx.accounts
     /\ job' = IF skipped THEN done
               ELSE [done EXCEPT !.counters = tx.counters, !.given = @ \cup tx.mine]
     /\ UNCHANGED <<catalogue, last, runs>>

EndWorkload ==
  /\ job.kind = "workload"
  /\ job.todo = <<>>
  /\ job' = NoJob
  /\ UNCHANGED <<catalogue, accounts, last, runs>>

-------------------------------------------------------------------------------
(* import_dekanat_csv, one save at a time                                    *)

BeginDekanat(file) ==
  /\ Start("dekanat")
  /\ job' = [kind |-> "dekanat", file |-> file, todo |-> file.rows, email |-> None]
  /\ last' = Nothing
  /\ UNCHANGED <<catalogue, accounts>>

Row == Head(job.todo)
RowDone(ok) ==
  LET rest == [job EXCEPT !.todo = Tail(@), !.email = None]
  IN /\ job' = IF ok /\ rest.todo # <<>> THEN rest ELSE NoJob
     /\ last' = IF ok /\ rest.todo # <<>> THEN Nothing
                ELSE [kind |-> "dekanat", source |-> job.file, ok |-> ok]
     /\ UNCHANGED runs

People == {"students", "staff"}

SaveUser ==
  /\ job.kind = "dekanat"
  /\ job.file.type \in People
  /\ job.email = None
  /\ accounts' = UpsertUser(accounts, Row)
  /\ job' = [job EXCEPT !.email = RowEmail(accounts, Row)]
  /\ UNCHANGED <<catalogue, last, runs>>

SaveProfile ==
  /\ job.kind = "dekanat"
  /\ job.email # None
  /\ accounts' = IF job.file.type = "students"
                 THEN StudentProfile(accounts, Row, job.email, DOMAIN catalogue.groups)
                 ELSE StaffProfile(accounts, Row, job.email, catalogue)
  /\ RowDone(TRUE)
  /\ UNCHANGED catalogue

(* _import_discipline takes the semester of --semester or the active one.    *)
SemesterOf(cat, row) ==
  IF row.semester \in DOMAIN cat.semesters \/ ~\E s \in DOMAIN cat.semesters : cat.semesters[s]
  THEN row.semester ELSE CHOOSE s \in DOMAIN cat.semesters : cat.semesters[s]

CatalogueRow(cat, type, row) ==
  IF type = "disciplines" THEN DekanatDiscipline(cat, row, SemesterOf(cat, row))
  ELSE [ok |-> TRUE, cat |-> IF type = "groups" THEN DekanatGroup(cat, row.group)
                             ELSE IF type = "curriculum" THEN DekanatCurriculum(cat, row)
                             ELSE DekanatLabBinding(cat, row)]

SaveCatalogueRow ==
  LET result == CatalogueRow(catalogue, job.file.type, Row)
  IN /\ job.kind = "dekanat"
     /\ job.file.type \notin People
     /\ catalogue' = IF result.ok THEN result.cat ELSE catalogue
     /\ RowDone(result.ok)
     /\ UNCHANGED accounts

-------------------------------------------------------------------------------
Repair(center) ==
  /\ Start("repair")
  /\ catalogue' = RepairLabBindings(catalogue, center)
  /\ last' = Nothing
  /\ UNCHANGED <<accounts, job>>

(* The command's process is killed between two commits.                      *)
Killed ==
  /\ ~Idle
  /\ job' = NoJob
  /\ last' = Nothing
  /\ UNCHANGED <<catalogue, accounts, runs>>

Next ==
  \/ \E source \in Journals : ImportLrAccounting(source)
  \/ \E source \in OrgFiles : ImportStudlabOrg(source)
  \/ \E name \in DraftSemesters : BeginDrafts(name)
  \/ NextDraft
  \/ \E include \in BOOLEAN : BeginWorkload(include)
  \/ NextWorkloadGroup \/ EndWorkload
  \/ \E file \in DekanatFiles : BeginDekanat(file)
  \/ SaveUser \/ SaveProfile \/ SaveCatalogueRow
  \/ \E center \in RepairCenters : Repair(center)
  \/ Killed

Spec == Init /\ [][Next]_vars

-------------------------------------------------------------------------------
(* Properties                                                                *)

(* Rows refer to rows that exist, durations are the ones the database admits *)
(* (CheckConstraint academics_labwork_allowed_duration), addresses are       *)
(* unique: what the constraints of the tables demand of every importer.      *)
TypeOK ==
  /\ CatalogueOK(catalogue) /\ AccountsOK(accounts)
  /\ last.ok \in BOOLEAN /\ runs \in 0..MaxRuns

(* The journals and the drafts spell titles differently, and both sides look *)
(* lab works up by normalized title and room: whatever is imported over      *)
(* whatever, in any order and after any kill, a room never gets two lab      *)
(* works of one title (lab_work_match_key, dedupe_lab_works' key).           *)
OneWorkPerTitleAndRoom == WorksUnique(catalogue.works)

(* student_lab_works_qs lists the lab works of a group's plan, create_booking*)
(* refuses one that shares no discipline with the group: no order of imports *)
(* leaves a lab work in a plan that its group could never book.              *)
PlanWorksBookable == PlansBookable(catalogue)

(* The journal of a group: numbers, with the disciplines in row head and the *)
(* lab works gap rows below it, then the times. A cell's text is its column. *)
JournalRows(width, head, gap, heads, titles) ==
  LET Line(C) == [c \in 1..width |-> IF c \in C THEN Cell("long", c) ELSE Cell("empty", 0)]
  IN [r \in 1..(head + gap + 1) |->
        IF r = head THEN Line(heads) ELSE IF r = head + gap THEN Line(titles)
        ELSE [c \in 1..width |-> Cell(IF r > head + gap /\ c = 3 THEN "time" ELSE "number", c)]]

(* The heading of a column is the nearest at it or left of it.               *)
Nearest(heads, c, d) == IF \E k \in heads : k <= c
                        THEN d \in heads /\ d <= c /\ ~\E k \in heads : d < k /\ k <= c
                        ELSE d = None

JournalRead(width, head, gap, heads, titles) ==
  LET works == ParsedWorks(JournalRows(width, head, gap, heads, titles))
  IN heads # {} /\ (Cardinality(titles) > Cardinality(heads) \/ <<head, gap>> = <<2, 1>>)
       => /\ Len(works) = Cardinality(titles)
          /\ \A c \in titles : \E i \in DOMAIN works :
               /\ works[i].title = c /\ Nearest(heads, c, works[i].discipline)
               /\ works[i].minutes = IF c = 3 THEN 0 ELSE c

(* A journal has its disciplines over its lab works, one heading over several*)
(* of them; the importer guesses which rows these are (detect_header_layout).*)
(* Wherever the headings stand, in the first four rows and over the lab works*)
(* or one row above them, every lab work is read, under the nearest heading  *)
(* and with its minutes, provided there are more lab works than headings or  *)
(* the headings are in the second row.                                       *)
JournalsRead ==
  runs = 0 => \A head \in 1..4, gap \in 1..2, heads, titles \in SUBSET (3..5) :
                JournalRead(5, head, gap, heads, titles)

(* A run of generate_workload_students never takes back an account it has    *)
(* given: within one run the counters of the admission years are shared by   *)
(* the groups.                                                               *)
RunKeepsItsStudents ==
  [][job.kind = "workload" =>
       \A i \in DOMAIN accounts :
         accounts[i].email \in job.given => accounts'[i].group = accounts[i].group]_vars

(* A row of the dekanat with an address, as a whole.                         *)
DekanatRow(t, row) ==
  LET users == UpsertUser(t.accounts, row)
      c == CatalogueRow(t.cat, t.type, row)
  IN CASE t.type = "students" ->
            [t EXCEPT !.accounts = StudentProfile(users, row, row.email, DOMAIN t.cat.groups)]
       [] t.type = "staff" -> [t EXCEPT !.accounts = StaffProfile(users, row, row.email, t.cat)]
       [] OTHER -> [t EXCEPT !.ok = c.ok, !.cat = c.cat]

(* What the command that has just ended would do to the database if it were  *)
(* run once more.                                                            *)
Again ==
  LET tx == [ok |-> TRUE, cat |-> catalogue, accounts |-> accounts]
  IN CASE last.kind = "journals" -> ImportJournals(catalogue, accounts, last.source)
       [] last.kind = "org" -> ImportOrg(catalogue, accounts, last.source)
       [] last.kind = "drafts" ->
            [ForEach(LAMBDA t, draft : LET d == ImportDraft(t.cat, draft, last.source)
                                       IN [t EXCEPT !.ok = d.ok, !.cat = d.cat], tx, Drafts)
             EXCEPT !.accounts = accounts]
       [] last.kind = "dekanat" ->
            ForEach(DekanatRow, [ok |-> TRUE, cat |-> catalogue, accounts |-> accounts,
                                 type |-> last.source.type], last.source.rows)

Addressed(source) == source.type \in People => \A i \in DOMAIN source.rows : source.rows[i].email # None

(* The import commands are what sync-catalog-vm.sh runs at every deployment: *)
(* run again right after it has succeeded, a command succeeds and changes    *)
(* nothing, whatever was imported and killed before. (Rows of the dekanat    *)
(* without an address get a new account each time and are left out.)         *)
RerunChangesNothing ==
  last.kind # "none" /\ last.ok /\ (last.kind = "dekanat" => Addressed(last.source))
    => Again.ok /\ Again.cat = catalogue /\ Again.accounts = accounts
================================================================================
