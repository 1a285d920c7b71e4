----------------------------- MODULE SlotLifecycle -----------------------------
(*****************************************************************************)
(* How slots come and go: the weekly generate_sessions command, the capacity *)
(* and duration syncs behind the lab head's lab work form, deletion and      *)
(* deduplication of lab works, session cancellation and mark_visited.        *)
(* None of the writers below is one transaction (ATOMIC_REQUESTS is off):    *)
(* each reads rows, then saves them one at a time. Bookings come from        *)
(* BookingService, of which only the rows matter here.                       *)
(*****************************************************************************)
EXTENDS Naturals, FiniteSets

CONSTANTS
  LabWork, SlotId, BookingId,   \* primary keys (bounds)
  Room, RoomCapacity, ExcludedRooms,
  Title, Code, Seats, Duration, \* values of the lab work form
  StartTimes,                   \* moments of the pairs' starts, per duration
  DefaultDuration, DefaultSeats,
  FormRows,                     \* what lab heads type into the form
  HorizonDays, MaxNow, MaxCalls, \* days_ahead; bounds
  Operations, SessionEdits,     \* entry points used in this instance
  None

SlotStatus == {"DRAFT", "OPEN", "CLOSED", "CANCELLED"}
Absent == [status |-> "ABSENT"]
Deleted == [status |-> "DELETED"]   \* a primary key is not given out twice

ASSUME SlotAssumption ==
  /\ LabWork \subseteq Nat /\ SlotId \subseteq Nat /\ BookingId \subseteq Nat
  /\ Code \subseteq Nat /\ HorizonDays \in Nat
  /\ RoomCapacity \in [Room -> Nat \ {0}]
  /\ Seats \subseteq Nat \ {0} /\ Duration \subseteq Nat \ {0}
  /\ SessionEdits \subseteq SlotStatus
  /\ StartTimes \in [Duration -> SUBSET Nat]
  /\ None \notin Room /\ None \notin Code /\ None \notin LabWork

VARIABLES
  now,
  works,      \* LabWork: title, default_room, duration, capacity, code
  slots,      \* LabSession
  bookings,   \* Booking, with its copies of the slot's lab work and start
  gen,        \* generate_lab_sessions, if it runs: the slots it will write
  form,       \* the lab head's request in flight
  calls,      \* commands and staff calls so far (bound)
  suspect     \* history: lab works merged, edited under a generation, or reopened

vars == <<now, works, slots, bookings, gen, form, calls, suspect>>

(* A staff call or a command that this instance uses.                        *)
Call(operation) == operation \in Operations /\ calls < MaxCalls /\ calls' = calls + 1

WorkRow == [status : {"PUBLISHED", "HIDDEN"}, title : Title, room : Room \cup {None},
            duration : Duration, capacity : Seats, code : Code \cup {None}]
SlotRow == [status : SlotStatus, work : LabWork, room : Room, starts : Nat, ends : Nat,
            capacity : Nat]
BookingRow == [status : {"BOOKED", "VISITED", "REACCESS", "CANCELLED"},
               slot : SlotId, work : LabWork, at : Nat]

Exists(table) == {k \in DOMAIN table : table[k] \notin {Absent, Deleted}}
SlotsOf(lw) == {s \in Exists(slots) : slots[s].work = lw}
BookingsIn(S) == {b \in Exists(bookings) : bookings[b].slot \in S}
Unused(table) == {k \in DOMAIN table : table[k] = Absent}
Least(S) == CHOOSE k \in S : \A other \in S : k <= other

LabSessionCapacity(capacity, room) ==
  IF capacity <= RoomCapacity[room] THEN capacity ELSE RoomCapacity[room]

-------------------------------------------------------------------------------
(* generate_lab_sessions: lab works are read once, slots written one by one  *)

NoRun == [on |-> FALSE, todo |-> {}]

GeneratedSlot(lw, t) ==
  LET work == works[lw]
  IN [status |-> "OPEN", work |-> lw, room |-> work.room, starts |-> t,
      ends |-> t + work.duration, capacity |-> LabSessionCapacity(work.capacity, work.room)]

BeginGenerate ==
  LET generated == {lw \in Exists(works) : /\ works[lw].status = "PUBLISHED"
                                           /\ works[lw].room \notin ExcludedRooms \cup {None}}
      horizon == (now + 1 .. now + HorizonDays) \X generated
  IN /\ Call("GENERATE")
     /\ ~gen.on
     /\ gen' = [on |-> TRUE,
                todo |-> {GeneratedSlot(p[2], p[1]) :
                            p \in {q \in horizon : q[1] \in StartTimes[works[q[2]].duration]}}]
     /\ UNCHANGED <<now, works, slots, bookings, form, suspect>>

(* Mutated form of SlotsAt: the start is not part of the key.                *)
SlotsOfWorkIn(slot) == {s \in SlotsOf(slot.work) : slots[s].room = slot.room}

(* Mutated form of SlotsAt: only open slots are looked up.                   *)
OpenSlotsAt(slot) == {s \in SlotsOf(slot.work) : /\ slots[s].room = slot.room
                                                 /\ slots[s].starts = slot.starts
                                                 /\ slots[s].status = "OPEN"}

(* The slots update_or_create looks up.                                      *)
SlotsAt(slot) == {s \in SlotsOf(slot.work) : /\ slots[s].room = slot.room
                                             /\ slots[s].starts = slot.starts}

(* By start, then by lab work.                                               *)
NextSlot(slot) ==
  /\ slot \in gen.todo
  /\ \A other \in gen.todo : \/ slot.starts < other.starts
                              \/ (slot.starts = other.starts /\ slot.work <= other.work)

(* Creates the slot, or writes its end, capacity and status OPEN over it.    *)
GenerateSlot(slot) ==
  LET found == SlotsAt(slot) IN
    /\ NextSlot(slot)
    /\ slot.work \in Exists(works)
    /\ Cardinality(found) <= 1
    /\ found # {} \/ Unused(slots) # {}                   \* bound
    /\ slots' = [slots EXCEPT ![Least(IF found = {} THEN Unused(slots) ELSE found)] = slot]
    /\ gen' = [gen EXCEPT !.todo = @ \ {slot}]
    /\ UNCHANGED <<calls, now, works, bookings, form, suspect>>

(* MultipleObjectsReturned, or a lab work deleted meanwhile: the command     *)
(* dies, the slots it has written stay.                                      *)
GenerateFails(slot) ==
  /\ NextSlot(slot)
  /\ slot.work \notin Exists(works) \/ Cardinality(SlotsAt(slot)) > 1
  /\ gen' = NoRun
  /\ UNCHANGED <<calls, now, works, slots, bookings, form, suspect>>

EndGenerate ==
  /\ gen.on
  /\ gen.todo = {}
  /\ gen' = NoRun
  /\ UNCHANGED <<calls, now, works, slots, bookings, form, suspect>>

-------------------------------------------------------------------------------
(* lab_head_update_lab_work, lab_head_create_lab_work and the two syncs      *)

FormState == [pc : {"idle", "list", "resize", "retime", "delete"}, work : LabWork \cup {None},
              todo : SUBSET SlotId, resize : BOOLEAN, retime : BOOLEAN,
              capacity : Nat, duration : Nat]
NoForm == [pc |-> "idle", work |-> None, todo |-> {}, resize |-> FALSE, retime |-> FALSE,
           capacity |-> 0, duration |-> 0]

(* Mutated form of FutureOpen: slots somebody is booked in are left alone.   *)
FutureUnbooked(lw) == {s \in SlotsOf(lw) : /\ slots[s].starts > now
                                           /\ slots[s].status = "OPEN"
                                           /\ BookingsIn({s}) = {}}

FutureOpen(lw) == {s \in SlotsOf(lw) : slots[s].starts > now /\ slots[s].status = "OPEN"}

(* generate_lab_work_code: a suffix is counted up until the code is free.    *)
FreeCodes(lw) == {code \in Code : \A other \in Exists(works) \ {lw} : works[other].code # code}
FreeCode(lw) == Least(FreeCodes(lw))

SaveLabWork(lw, row) ==
  /\ Call("FORM")
  /\ form.pc = "idle"
  /\ FreeCodes(lw) # {}                                   \* bound
  /\ works' = [works EXCEPT ![lw] = [row EXCEPT !.code = FreeCode(lw)]]
  /\ LET old == works[lw]
         resize == old # Absent /\ old.capacity # row.capacity
         retime == old # Absent /\ old.duration # row.duration
     IN form' = [NoForm EXCEPT !.pc = IF resize \/ retime THEN "list" ELSE "idle",
                               !.work = IF resize \/ retime THEN lw ELSE None,
                               !.resize = resize, !.retime = retime,
                               !.capacity = IF resize THEN row.capacity ELSE 0,
                               !.duration = IF retime THEN row.duration ELSE 0]
  /\ suspect' = IF gen.on THEN suspect \cup {lw} ELSE suspect
  /\ UNCHANGED <<now, slots, bookings, gen>>

(* The query of sync_open_session_capacities.                                *)
ListForCapacity ==
  /\ form.pc = "list" /\ form.resize
  /\ form' = [form EXCEPT !.pc = "resize", !.todo = FutureOpen(form.work)]
  /\ UNCHANGED <<calls, now, works, slots, bookings, gen, suspect>>

(* The query of sync_open_session_durations: no booking of any status.       *)
Unbooked(lw) == {s \in FutureOpen(lw) : BookingsIn({s}) = {}}

ListForDuration ==
  /\ form.pc = "list" /\ ~form.resize /\ form.retime
  /\ form' = [form EXCEPT !.pc = "retime", !.todo = Unbooked(form.work)]
  /\ UNCHANGED <<calls, now, works, slots, bookings, gen, suspect>>

SaveCapacity(s) ==
  /\ form.pc = "resize" /\ s \in form.todo
  /\ slots' = [slots EXCEPT ![s].capacity = LabSessionCapacity(form.capacity, slots[s].room)]
  /\ form' = [form EXCEPT !.todo = @ \ {s}]
  /\ UNCHANGED <<calls, now, works, bookings, gen, suspect>>

SaveDuration(s) ==
  /\ form.pc = "retime" /\ s \in form.todo
  /\ slots' = [slots EXCEPT ![s].ends = slots[s].starts + form.duration]
  /\ form' = [form EXCEPT !.todo = @ \ {s}]
  /\ UNCHANGED <<calls, now, works, bookings, gen, suspect>>

(* The first sync is done: on to the second, or the request is over.         *)
EndSync ==
  /\ form.pc \in {"resize", "retime"} /\ form.todo = {}
  /\ form' = IF form.pc = "resize" /\ form.retime
             THEN [form EXCEPT !.pc = "list", !.resize = FALSE]
             ELSE NoForm
  /\ UNCHANGED <<calls, now, works, slots, bookings, gen, suspect>>

-------------------------------------------------------------------------------
(* lab_head_delete_lab_work: a count, then a cascade                         *)

WorkBookings(lw) == {b \in Exists(bookings) : bookings[b].work = lw}

BeginDelete(lw) ==
  /\ Call("DELETE")
  /\ form.pc = "idle"
  /\ lw \in Exists(works)
  /\ \A b \in WorkBookings(lw) : bookings[b].status = "CANCELLED"
  /\ form' = [NoForm EXCEPT !.pc = "delete", !.work = lw]
  /\ UNCHANGED <<now, works, slots, bookings, gen, suspect>>

Without(table, gone) == [k \in DOMAIN table |-> IF k \in gone THEN Absent ELSE table[k]]

DeleteLabWork ==
  LET lw == form.work
  IN /\ form.pc = "delete"
     /\ works' = [works EXCEPT ![lw] = Deleted]
     /\ slots' = Without(slots, SlotsOf(lw))
     /\ bookings' = Without(bookings, WorkBookings(lw) \cup BookingsIn(SlotsOf(lw)))
     /\ form' = NoForm
     /\ UNCHANGED <<calls, now, gen, suspect>>

-------------------------------------------------------------------------------
(* dedupe_lab_works: one transaction                                         *)

Duplicates(lw) == {d \in Exists(works) : /\ d > lw
                                        /\ works[d].title = works[lw].title
                                        /\ works[d].room = works[lw].room}
Keepers == {lw \in Exists(works) : /\ Duplicates(lw) # {}
                                  /\ \A k \in Exists(works) : lw \notin Duplicates(k)}
KeeperOf(lw) == IF \E k \in Keepers : lw \in Duplicates(k)
                THEN CHOOSE k \in Keepers : lw \in Duplicates(k) ELSE lw

(* The keeper's default gives way to the first duplicate's other value.      *)
Merged(field, default, k) ==
  LET telling == {d \in Duplicates(k) : works[d][field] # default}
  IN IF works[k][field] = default /\ telling # {} THEN works[Least(telling)][field]
     ELSE works[k][field]

(* Mutated form of Repointed: the rows lose their lab work (SET_NULL).       *)
Orphaned(table) ==
  [k \in DOMAIN table |->
     IF k \in Exists(table) /\ KeeperOf(table[k].work) # table[k].work
     THEN [table[k] EXCEPT !.work = None] ELSE table[k]]

(* Mutated form of Repointed: left to the cascade of duplicate.delete().     *)
Cascaded(table) ==
  Without(table, {k \in Exists(table) : KeeperOf(table[k].work) # table[k].work})

Repointed(table) ==
  [k \in DOMAIN table |->
     IF k \in Exists(table) THEN [table[k] EXCEPT !.work = KeeperOf(table[k].work)] ELSE table[k]]

(* A keeper without a code takes a duplicate's while the duplicate still     *)
(* has it: the unique constraint then undoes the whole command.              *)
Dedupe ==
  /\ Call("DEDUPE")
  /\ Keepers # {}
  /\ \A k \in Keepers : works[k].code = None => \A d \in Duplicates(k) : works[d].code = None
  /\ works' = [lw \in LabWork |->
       IF KeeperOf(lw) # lw THEN Deleted
       ELSE IF lw \in Keepers
            THEN [works[lw] EXCEPT !.duration = Merged("duration", DefaultDuration, lw),
                                   !.capacity = Merged("capacity", DefaultSeats, lw)]
            ELSE works[lw]]
  /\ slots' = Repointed(slots)
  /\ bookings' = Repointed(bookings)
  /\ suspect' = suspect \cup Keepers
  /\ UNCHANGED <<now, gen, form>>

-------------------------------------------------------------------------------
(* Bookings, session cancellation, mark_visited, staff edits, the clock      *)

Seated(s) == {b \in BookingsIn({s}) : bookings[b].status = "BOOKED"}

WithStatus(B, new) ==
  [b \in BookingId |-> IF b \in B THEN [bookings[b] EXCEPT !.status = new] ELSE bookings[b]]

Book(s) ==
  /\ s \in Exists(slots)
  /\ slots[s].status = "OPEN" /\ slots[s].starts > now
  /\ Cardinality(Seated(s)) < slots[s].capacity
  /\ \E b \in Unused(bookings) :
       bookings' = [bookings EXCEPT ![b] = [status |-> "BOOKED", slot |-> s,
                                            work |-> slots[s].work, at |-> slots[s].starts]]
  /\ UNCHANGED <<calls, now, works, slots, gen, form, suspect>>

CancelBooking(b) ==
  /\ b \in Exists(bookings) /\ bookings[b].status = "BOOKED"
  /\ bookings' = WithStatus({b}, "CANCELLED")
  /\ UNCHANGED <<calls, now, works, slots, gen, form, suspect>>

CancelSession(s) ==
  /\ Call("CANCEL_SESSION")
  /\ s \in Exists(slots) /\ slots[s].status = "OPEN"
  /\ slots' = [slots EXCEPT ![s].status = "CANCELLED"]
  /\ bookings' = WithStatus(Seated(s), "REACCESS")
  /\ UNCHANGED <<now, works, gen, form, suspect>>

MarkVisited ==
  LET ended == {s \in Exists(slots) : slots[s].ends <= now /\ slots[s].status = "OPEN"}
  IN /\ ended # {}
     /\ slots' = [s \in SlotId |-> IF s \in ended THEN [slots[s] EXCEPT !.status = "CLOSED"]
                                    ELSE slots[s]]
     /\ bookings' = WithStatus(UNION {Seated(s) : s \in ended}, "VISITED")
     /\ UNCHANGED <<calls, now, works, gen, form, suspect>>

(* LabSessionAdminViewSet: the status is a field like others.                *)
EditSession(s, new) ==
  /\ Call("EDIT")
  /\ s \in Exists(slots) /\ slots[s].status # new
  /\ slots' = [slots EXCEPT ![s].status = new]
  /\ suspect' = suspect \cup {slots[s].work}
  /\ UNCHANGED <<now, works, bookings, gen, form>>

Tick == now < MaxNow /\ now' = now + 1 /\ UNCHANGED <<calls, works, slots, bookings, gen, form, suspect>>

-------------------------------------------------------------------------------
CONSTANT InitialWorks

(* The form's choices and the works of the seed are rows of lab works.       *)
ASSUME RowsAssumption ==
  /\ FormRows \subseteq WorkRow
  /\ InitialWorks \in [LabWork -> WorkRow \cup {Absent}]

Init ==
  /\ now = 0
  /\ works = InitialWorks
  /\ slots = [s \in SlotId |-> Absent]
  /\ bookings = [b \in BookingId |-> Absent]
  /\ gen = NoRun
  /\ form = NoForm
  /\ calls = 0
  /\ suspect = {}

Generate == BeginGenerate \/ EndGenerate
            \/ \E slot \in gen.todo : GenerateSlot(slot) \/ GenerateFails(slot)

Form ==
  \/ \E lw \in LabWork, row \in FormRows : works[lw] # Deleted /\ SaveLabWork(lw, row)
  \/ ListForCapacity \/ ListForDuration \/ EndSync
  \/ \E s \in SlotId : SaveCapacity(s) \/ SaveDuration(s)
  \/ \E lw \in LabWork : BeginDelete(lw)
  \/ DeleteLabWork

Next ==
  \/ Generate
  \/ Form
  \/ Dedupe
  \/ \E s \in SlotId : Book(s) \/ CancelSession(s)
  \/ \E s \in SlotId, new \in SessionEdits : EditSession(s, new)
  \/ \E b \in BookingId : CancelBooking(b)
  \/ MarkVisited
  \/ Tick

Spec == Init /\ [][Next]_vars

-------------------------------------------------------------------------------
(* What holds                                                                *)

(* Every row refers to rows that exist, in the columns' types; a form with   *)
(* nothing left to save is over.                                             *)
TypeOK ==
  /\ now \in Nat /\ suspect \subseteq LabWork
  /\ works \in [LabWork -> WorkRow \cup {Absent, Deleted}]
  /\ slots \in [SlotId -> SlotRow \cup {Absent}]
  /\ bookings \in [BookingId -> BookingRow \cup {Absent}]
  /\ \A s \in Exists(slots) : slots[s].work \in Exists(works)
  /\ \A b \in Exists(bookings) : bookings[b].slot \in Exists(slots)
  /\ gen \in [on : BOOLEAN, todo : SUBSET SlotRow]
  /\ form \in FormState /\ form.todo \subseteq Exists(slots)

(* A booking's own copies of the lab work and of the start (shown to the     *)
(* student, and the deadline of a cancellation) stay those of its slot       *)
(* through generations, merges, edits and deletions of lab works.            *)
BookingFollowsSlot ==
  \A b \in Exists(bookings) : /\ bookings[b].work = slots[bookings[b].slot].work
                              /\ bookings[b].at = slots[bookings[b].slot].starts

(* When no form is being saved, an open future slot offers as many seats as  *)
(* its lab work and room have, also in the middle of a generation, except    *)
(* where a merge, a form saved during a generation or a hand-made edit has   *)
(* left slots the syncs do not reach.                                        *)
CapacitiesAgree ==
  form.pc = "idle" =>
    \A lw \in Exists(works) \ suspect : \A s \in SlotsOf(lw) :
      slots[s].status = "OPEN" /\ slots[s].starts > now =>
        /\ slots[s].capacity <= works[lw].capacity
        /\ slots[s].capacity <= RoomCapacity[slots[s].room]
        /\ slots[s].capacity \in {works[lw].capacity, RoomCapacity[slots[s].room]}

(* Two slots of one lab work never start at one time in one room, unless a   *)
(* merge brought them together: on such a pair generate_sessions dies.       *)
SlotsUnique ==
  \A lw \in Exists(works) \ suspect : \A s, t \in SlotsOf(lw) :
    slots[s].room = slots[t].room /\ slots[s].starts = slots[t].starts => s = t

(* A booking, of whatever status, is lost only with its lab work, by the lab *)
(* head who deletes it: never by a merge, a generation or a sync.            *)
LostOnlyByDelete ==
  [][\A b \in Exists(bookings) : bookings'[b] = Absent
       => form.pc = "delete" /\ form.work = bookings[b].work]_vars

-------------------------------------------------------------------------------
(* generate_sessions says it creates slots, and staff cancel a slot: a       *)
(* cancelled slot should stay cancelled unless staff reopen it by hand.      *)
CancelledStaysCancelled ==
  [][\A s \in Exists(slots) : slots[s].status = "CANCELLED"
       => slots'[s] = Absent \/ slots'[s].status = "CANCELLED"]_vars
================================================================================
