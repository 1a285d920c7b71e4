--------------------------------- MODULE Pages ---------------------------------
(*****************************************************************************)
(* What the list pages and the reports show, over rows that lab heads, staff *)
(* and students change between two page loads.  A page is its own query, or  *)
(* several of them put together: it may leave out what the handlers behind   *)
(* its buttons would accept.  Texts typed into a search, dates, sorting and  *)
(* page numbers are abstracted.                                              *)
(*****************************************************************************)
EXTENDS LabHead, StaffDesk

-------------------------------------------------------------------------------
(* Disciplines in their folders                                              *)

(* Mutated form of FolderGroups: whatever lies in no folder at all is put    *)
(* aside, and not what lies in none of these.                                *)
FolderGroupsAndUnfiled(ds, folders) ==
  [f \in folders \cup {None} |-> {d \in ds : discipline[d].folder = f}]

(* department_discipline_groups: the disciplines of each folder, then those  *)
(* that none of them took.                                                   *)
FolderGroups(ds, folders) ==
  [f \in folders \cup {None} |->
     {d \in ds : IF f = None THEN discipline[d].folder \notin folders ELSE discipline[d].folder = f}]

(* Without a list of folders, those the disciplines lie in.                  *)
OwnFolders(ds) == {discipline[d].folder : d \in ds} \ {None}

(* DisciplineListWebView: a catalogue of disciplines with their lab works.   *)
DisciplinesOf(p) == IF p \in Student THEN StudentDisciplines(p) ELSE StaffDisciplines(p)
WorksFor(p, d) ==
  {w \in IF p \in Student THEN StudentWorks(p) ELSE StaffWorks(p) : d \in work[w].disciplines}
DisciplinesPage(p) ==
  LET groups == FolderGroups(DisciplinesOf(p), OwnFolders(DisciplinesOf(p)))
  IN [f \in DOMAIN groups |-> [d \in groups[f] |-> WorksFor(p, d)]]

(* LabWorkListWebView: not found unless the discipline is the user's.        *)
LabWorksPage(p, d) == IF d \in DisciplinesOf(p) THEN WorksFor(p, d) ELSE {}

(* LabHeadBindingsView: the head's disciplines in the head's folders, with   *)
(* the lab works bound and those that could be.                              *)
BindingsPage(u) ==
  LET groups == FolderGroups(ManagedDisciplines(u), LabHeadFolders(u))
  IN [f \in DOMAIN groups |-> [d \in groups[f] |->
        [managed |-> {w \in ManagedWorks(u) : d \in work[w].disciplines},
         bindable |-> {w \in BindableWorks(u) : d \in work[w].disciplines}]]]

-------------------------------------------------------------------------------
(* Rooms                                                                     *)

(* StudentRoomsWebView                                                       *)
StudentRoomsPage(st) ==
  [r \in StudentRooms(st) |->
     [works |-> {w \in StudentWorks(st) : work[w].room = r},
      disciplines |-> room[r].disciplines \cap StudentDisciplines(st),
      stands |-> {s \in Stands : stand[s].room = r}]]

-------------------------------------------------------------------------------
(* Bookings                                                                  *)

Filter == [status : {"BOOKED", "VISITED", "NO_SHOW", "REACCESS", "CANCELLED", None},
           discipline : Discipline \cup {None}]
NoFilter == [status |-> None, discipline |-> None]

(* filter_staff_bookings: a field left empty filters nothing.                *)
Filtered(bs, f) ==
  {b \in bs : /\ f.status # None => booking[b].status = f.status
              /\ f.discipline # None => booking[b].discipline = f.discipline}

StaffBookingsPage(u, f) == Filtered(StaffBookings(u), f)

(* AdminBookingListView filters first, and scopes what is left.              *)
AdminBookings(u, f) == StaffBookings(u) \cap Filtered(DOMAIN booking, f)

(* StaffStudentsView: each student with the bookings the user may see.       *)
StudentsPage(u) == [st \in StaffStudents(u) |-> {b \in StaffBookings(u) : booking[b].student = st}]

(* generate_report *)
ReportBookings(u, d) == StaffBookings(u) \cap Filtered(DOMAIN booking, [NoFilter EXCEPT !.discipline = d])
Attendance(u, d) == {b \in ReportBookings(u, d) : booking[b].status \in {"VISITED", "NO_SHOW"}}

(* The summary has no column for a booking that was given access again.      *)
Columns == {"BOOKED", "VISITED", "NO_SHOW", "CANCELLED"}
DisciplineSummary(u) ==
  LET all == ReportBookings(u, None)
  IN [d \in {booking[b].discipline : b \in all} |->
        [column \in Columns |->
           Cardinality({b \in all : booking[b].discipline = d /\ booking[b].status = column})]]

-------------------------------------------------------------------------------
FoldersWith(page, d) == {f \in DOMAIN page : d \in DOMAIN page[f]}

(* A folder never hides a discipline: every discipline of a head, a member   *)
(* of staff or a student is in exactly one group of the page, also one that  *)
(* the head of another faculty has put into a folder this head does not      *)
(* have; each leads to the lab works listed with it, and each lab work a     *)
(* head could bind is offered under some discipline.                         *)
FoldersHideNothing ==
  /\ \A p \in Student \cup Staff : LET page == DisciplinesPage(p) IN
       \A d \in DisciplinesOf(p) : LET on == FoldersWith(page, d) IN
         Cardinality(on) = 1 /\ \A f \in on : page[f][d] = LabWorksPage(p, d)
  /\ \A u \in {h \in Staff : IsLabHead(h)} : LET page == BindingsPage(u) IN
       /\ \A d \in ManagedDisciplines(u) : Cardinality(FoldersWith(page, d)) = 1
       /\ \A w \in BindableWorks(u) : \E f \in DOMAIN page : \E d \in DOMAIN page[f] :
            w \in page[f][d].bindable

(* A student who may book a lab work finds it under its room among the       *)
(* student's rooms, as long as a laboratory of the work is at the room's     *)
(* centre: the page goes by the training centres that binding requests keep  *)
(* in step, while heads of other centres bind and unbind the same work.      *)
RoomsOfWorksListed ==
  \A st \in Student : \A w \in StudentWorks(st) :
    (/\ work[w].room # None
     /\ CenterOfRoom[work[w].room] \in CentersOfLabs(<<"work", w>>)
     /\ ~Busy(<<"work", w>>) /\ <<"work", w>> \notin unsynced)
    => work[w].room \in DOMAIN StudentRoomsPage(st) /\ w \in StudentRoomsPage(st)[work[w].room].works

(* A booking that a member of staff made by hand on the web stays in that    *)
(* person's sight while the lab work stays their laboratory's, even when the *)
(* room is given to another laboratory (staff_booking_filter's docstring):   *)
(* on the page and in the API's list under its own status and discipline,    *)
(* under its student, and in every report that has a place for its status.   *)
OwnManualBookingsListed ==
  \A b \in DOMAIN booking :
    LET u == booking[b].by  status == booking[b].status  d == booking[b].discipline
        itself == [status |-> status, discipline |-> d]
    IN (/\ u \in Staff /\ booking[b].via = "WEB"
        /\ profile[u].laboratory # None
        /\ profile[u].laboratory \in work[booking[b].work].laboratories)
       => /\ b \in StaffBookingsPage(u, itself) \cap AdminBookings(u, itself)
          /\ ManagedDisciplines(u) # {} => b \in StudentsPage(u)[booking[b].student]
          /\ status \in {"VISITED", "NO_SHOW"} => b \in Attendance(u, d)
          /\ status \in Columns => DisciplineSummary(u)[d][status] > 0
================================================================================
