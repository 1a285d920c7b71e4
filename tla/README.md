# Verification of LabBooking

LabBooking is a Django application in which students of a university book places in
laboratory sessions. Several gunicorn workers serve web and API requests against one
PostgreSQL database, and cron and the deployment run management commands beside them. All
coordination goes through the database: transactions at READ COMMITTED, row locks
(`SELECT ... FOR UPDATE`) in the booking service, and nothing at all elsewhere
(`ATOMIC_REQUESTS` is off, so most requests are several commits). This directory holds TLA+
modules of that system, the TLC configurations that check them, and TLAPS proofs.

## 1. Inventory

Paths are below `src/backend/apps/`.

| Component | State | Operations | Hard behaviour | What makes it correct |
|---|---|---|---|---|
| Booking service (`bookings/services/booking.py`) | bookings, queues, `no_show_count`, session status, row locks | create, cancel and promote, change status, join a queue, cancel a session, `mark_visited` | requests read before they lock; deadlock retries; promotion inside a cancellation; a batch without a transaction | nothing is oversold; statuses are set from the right state; requests and ended sessions finish |
| Session availability (`bookings/services/session_availability.py`) | none; the browser holds a page | date window, pairs, working weeks, free seats, cascading filters | 15:00, 22:00, an 85-minute pair, holidays; lists written apart from the checks; pages grow stale | what is shown is what `create_booking` accepts |
| Lab sessions (`scheduling/`) | slots: times, room, capacity, status | weekly generation, capacity and duration sync, edits | writers that save row by row over each other and over bookings | bookings keep their slot; capacities agree once the writers are done |
| Support tickets (`bookings/services/support.py`, views) | tickets, messages | open, reply, move, delete | a reply is two saves; weekend deadlines | the status tells whose turn it is |
| Access scopes (`academics/querysets.py`) | profiles, groups, bindings | which rows a user sees | filters by laboratory, centre and room, over rows being edited | nobody loses sight of what is theirs |
| Lab head catalogue (`bookings/services/lab_head.py`, `views/lab_head.py`) | disciplines, lab works, rooms, stands, folders, schedule | bind, save, delete | a binding is three writes; several heads edit one row | training centres follow laboratories; equipment stays in its centre |
| Normalisation, dedupe, repair (`academics/services/`) | lab works and what points at them | merge, repair | bookings re-pointed | no booking is lost; one lab work per key |
| Imports (`integrations/`, `academics/services/`) | catalogue, groups, accounts | journals, org table, drafts, workload students, dekanat CSV, repair | several importers that spell titles differently; killed between commits; rerun at every deployment | rerunning changes nothing; one lab work per title and room |
| Views, serializers, reports | none of their own | entry points, lists | a page is built of several queries | a list leaves nothing out that its buttons accept |
| SSO, e-mail, methodics, demo data, deployment, scrapers | | | | not modelled, see 6 |

Components meet in the database only. `create_booking` asks the availability module for the
calendar, the querysets for access and `LabSession` for the stand; cancelling calls
promotion, which calls `create_booking`; the lab work form calls both syncs; the imports,
the dedupe command and the generator all look up the lab works that heads edit.

## 2. Plan

Done: the booking core, its refinement and its proofs (`BookingService`, `SeatLedger`); the calendar and
the lists (`Availability`); the life of a slot (`SlotLifecycle`); scopes, lab heads, staff
pages, reports and tickets over one catalogue (`Campus`) and its proofs; the imports and theirs
(`Imports`, `ImportProofs`), and what a second run of the organisation and of the dekanat
files changes (`RerunProofs`); the proofs about lists, pages and the weekly generation
(`AvailabilityProofs`) and about the writers of a slot (`SlotProofs`).

What a next step would take, in this order: reruns of drafts and journals as theorems; edits
of a slot's time and room through the admin site, against the copies in its bookings; e-mails
sent before a rollback.

## 3. Modules and code

### Booking core

**`Timetable`** — what does not change while bookings are made, as CONSTANTS: sessions (numbered
by primary key, since locks are taken in key order), their interval, lab work and room,
the stand of a lab work, the capacities, the curriculum. `BookingLockIds` is
`_collect_booking_lock_ids`. `CapacityAssumption` says what `lab_session_capacity`
computes when a slot is created. The calendar rules appear as the sets of moments
`StudentWindow[s]` and `StaffWindow[s]`; `BookingCalendar` has the rules themselves.

**`BookingRules`** — the Booking table (a function from primary keys to rows) and one
operator per question the code asks of it. Overlap is strict on both ends, as in the queries.

**`BookingService`** — the transactions. Committed rows are `sessionStatus`,
`bookings`, `waitlist`, `noShows`; row locks are `sessionLock`, `bookingLock`; `tx[r]` is
what request `r` has read and intends to write. One action stands for the code between two
points at which another transaction can get in:

| Code | Actions |
|---|---|
| `create_booking` | `BeginCreate`, `ReadSession`, `LockSession` (one row at a time, by key), `Admit` or `Refuse`, `InsertBooking` |
| `cancel_booking`, `_promote_waitlist` | `BeginCancel`, `Promote`, then the actions above inside the savepoint, `InsertBooking` or `Settle` |
| `change_status` | `BeginStatus`, `ApplyStatus` |
| `join_waitlist` | `BeginJoin`, `CommitJoin` |
| `cancel_session_with_reaccess` | `BeginSessionCancel`, `CollectBooked`, `ReaccessBooking`, `CommitSessionCancel` |
| `mark_visited_for_ended_sessions` | `BeginSweep`, `SweepSession`, `VisitBooking`, `CloseSession` |
| Admin edit of a session | `EditSession` |
| PostgreSQL, the host, the clock | `DeadlockVictim`, `Crash`, `Tick` |

Checks and counts made under the locks (`MayBook`) are one step, `Admit`, and the INSERT
another: nothing in the model makes what was checked stay true until the commit except the
locks. A wait for a transaction's first lock is
a disabled `Begin` action: such a request holds nothing. `GiveUp` is `BookingError`: a plain
request ends, a promotion rolls its savepoint back (its session locks go, the booking row
stays locked) and the cancellation still commits. A deadlock victim in `create_booking` is
tried up to `MaxAttempts` times, elsewhere its transaction is rolled back.
`cancel_session_with_reaccess` has no caller in the repository; it is modelled as a caller
would use it, on an open session. `skip_student_rules` is never set by a caller (the booking
service's skill file says that manual bookings set it) and is left out.

**`SeatLedger`** — the abstract specification: bookings admitted one at a time against
the table as it is, seats given up at any time. No locks, no requests.
**`BookingProperties`** — the properties and the refinement `LedgerSpec`.

### Calendar, lists, slots

**`BookingCalendar`** — pairs, offsets, working days, the booking window and its two daily
boundaries, over minutes and days numbered from a Monday. Local time is Moscow's; the student
check looks a holiday up by the UTC date (`UtcDay`), the list by the local one.

**`Availability`** — `session_available_seats`, the lists of students and staff, the objections
of `create_booking` in its own terms, and the filter cascades of the student page (date, pair),
the manual page (date, time, room) and the API (date, time, centre, room), one operator per
click (`FollowStudent`, `FollowManual`, `FollowApi`). `page` is what a
browser shows; a confirmation may be sent long after it was rendered (`Stale`).
`GenerateSessions` moves the day up to which slots exist, weekly, and may be missed. The
constants are assumed to fit each other: `MonthStart` covers the slots, the moments
of cron are among those of `Clock`, cron runs before booking opens, and `--weeks` covers the booking
window and the weeks in which a run may be missed.

**`SlotLifecycle`** — none of these writers is one transaction:

| Code | Actions |
|---|---|
| `generate_lab_sessions` | `BeginGenerate` reads the lab works once, `GenerateSlot` per `update_or_create`, `GenerateFails`, `EndGenerate` |
| the lab work form, `sync_open_session_capacities`, `..._durations` | `SaveLabWork`, `ListForCapacity`, `SaveCapacity`, `ListForDuration`, `SaveDuration`, `EndSync` |
| `lab_head_delete_lab_work` | `BeginDelete` (the count), `DeleteLabWork` (the cascade) |
| `dedupe_lab_works` | `Dedupe` |
| bookings, cancellations, `mark_visited`, edits | `Book`, `CancelBooking`, `CancelSession`, `MarkVisited`, `EditSession` |

The history variable `suspect` names the lab works for which the code itself gives up
agreement: merged ones, ones edited under a running generation, ones with a slot reopened by hand.

### People and pages

**`AccessScope`** — the querysets, one operator each, over the rows of the catalogue.
Staff are scoped by laboratory first and by centre only without one (a skill file of the
repository says centre).
**`LabHead`** — the pages of a lab head. An operator with the service's name
(`SaveRoom`, `RemoveStand`, `TakePerson`, ...) is the service with the queryset its arguments come
from; the action adds `Serves(u)`, the mixin. A binding is `BindWork` (the laboratory is
written), `ReadCenters`, `SaveCenters`; other requests, or the death of the worker (`Abandon`),
come in between. `unsynced` is history: objects whose last binding overlapped with another
or was cut short.
**`StaffDesk`** — who may ask for which booking, cancellation or status.
**`Pages`** — folders, rooms, bookings, students' lists and reports as operators over the same rows.
**`SupportDesk`** — tickets: a reply is `StaffReply`/`FollowUp`/`MessageByApi` (the message is
written) and `SaveStatus`; `HoursAdded` is the loop of `add_business_hours`, a recursive function
of the hours left, and `AddBusinessHours` applies it to the overdue mark.
**`Campus`** — the composition: one catalogue, many users. `CampusProofs` proves its properties.

### Imports

**`JournalParser`** — how the rows of headings and lab works of a room's journal are found.
A cell is a kind and a text. **`CatalogueImport`** — each importer's `get_or_create` chain as
an operator from catalogue to catalogue; a title is a name and a spelling, and normalisation
forgets the spelling. **`AccountImport`** — accounts of the workload and dekanat importers.
**`Imports`** — the commands as transactions: one action per command that is atomic,
one per draft, group or row of those that are not, and `Killed` between any two commits.

A loop over the rows of a file is `ForEach(Row, tx, rows)`, where `tx` is what the handler holds
in its variables: the tables as the transaction sees them, its caches, and the sheet, room or
group at hand. A row that raises clears `tx.ok`, and the transaction is then given up.
What is assumed of the inputs: files are tables (`FilesAssumption`); every row of a draft's
`04_lab_works.csv` names a lab work of its `07_lab_works_unique.csv` with a discipline of its
`02_disciplines.csv` (`DraftsAssumption`): `department_workload_parser.py` derives both
from those rows, and the seven drafts of `src/docs/csv_templates` are so. It is not so of every draft
the parser could write: `build_lab_works_unique` forgets the case of letters in a discipline's
title and the importer does not. `StartAssumption`: the
catalogue of the start is one the database admits, with unique lab works and bookable plans.

## 4. Runs

| Run | Instance | Shows |
|---|---|---|
| `rooms` | one room, slots 10-12, 11-13, 12-14, two seats | slots and the room are never oversold by self-service, although the room check is per slot and staff may overbook |
| `stands` | three rooms; slots tied by a stand and by a lab work | `StandExclusive`, `LabWorkNeverOverfull`, `NoDoubleBookingOnSharedResource`; the service implements the ledger |
| `waitlist` | two full one-seat slots, queues, session cancellation | every lock cycle has a session cancellation in it, all requests end, nobody leaves a queue without a seat being freed |
| `sweep` | two consecutive slots, the clock runs past both, one crash, session edits | ended sessions leave OPEN; no booking is VISITED early; `cancel_booking` never overwrites a staff status |
| `slots` | two lab works, two slots, one booking, four calls of any writer | bookings follow their slot, capacities agree, slots are unique, bookings are lost only with a deleted lab work |
| `availability` | nine slots at the edges of the calendar, five moments | lists and checks agree to the minute, filters lead on, slots cover the window after a missed cron run |
| `campus` | two heads of two centres, an administrator, a student, one ticket | see the properties of `LabHead`, `Pages`, `SupportDesk` |
| `imports` | any four commands, each killable at any commit | unique lab works, bookable plans, idempotent reruns, journals read as laid out |

Bounds. The booking runs bound the bookings ever made, the requests in
flight, the clock, retries, no-shows and crashes. Two requests are
enough for every pairwise race and lock cycle of the code (a third waits behind one of
them); two or three bookings fill the one- and two-seat slots; three staggered slots are the
smallest timetable in which overlap is not transitive. In `slots` four calls are enough for a
generation, a form, a merge and a second generation; `MCFormRows` makes a form change either the
capacity or the duration or both. In `availability` the moments are 6:00 of a Monday (cron), 9:00,
15:00, a week later and 22:00 of the last day before the window moves; slots begin in the 85-minute pair,
on a holiday, at a weekend and one day past the window; two bookings fill every slot. In
`campus` the work of a run is bounded by `MaxWork`: a request about the catalogue takes
`CatalogueWork` of it and one about a ticket `SupportWork`, so three catalogue requests or four
ticket requests or a mix (about 105 000 states); three requests are enough for two heads to disturb
each other's binding and a third to repair it. In `imports` four commands let any importer
run before, after and again after any other. Symmetry is used in the two safety runs `rooms` and
`stands` only, over students and requests, which nothing orders. Deadlock checking is off:
when all rows or calls are used up the system may stop; that no request hangs
is `RequestsFinish`.

In `sweep` the staff form offers NO_SHOW only, so that VISITED can come from `mark_visited`
and CANCELLED from `cancel_booking` alone, the two steps its properties are about: staff may
set either status at any time. An edit there may cancel a session but not reopen it: a session
reopened again and again need never stay closed.

Fairness (`FairSpec` of `BookingService`, used by `waitlist` and `sweep`): the clock advances;
strong fairness of `Proceed(r)`, because a worker
runs on and PostgreSQL serves waiters of a row in order, so a lock freed again and again is
obtained; strong fairness of `BeginSweep(r)`, because cron starts `mark_visited` every hour
(`src/docs/DEPLOY_YANDEX_VM.md`). Nothing is assumed about calls arriving, crashes or edits.
The other modules state safety only: heads, imports and generators promise no progress.

Values of the settings in the instances: booking closes at 15:00 and opens at 22:00 Moscow time,
a horizon of 14 days, two manual weeks; cron generates on Monday at 06:00 for four weeks.

Four runs expect a violation; each shows a documented rule that the code breaks:

- `find_discipline` — one active booking per discipline (`src/README.md`): two requests of one
  student for slots with no room, stand or lab work in common lock disjoint rows, so both
  checks pass. What remains true is `NoDoubleBookingOnSharedResource`.
- `find_cancelled_session` — the session's status is read before its lock is obtained.
- `find_reopened` — the generator writes OPEN over a cancelled slot.
- `find_follow_up` — a staff reply and a follow-up overlap: the ticket ends ANSWERED with the
  student's message last. `FindFollowUp.cfg` lets no worker die, so the overlap alone does it.

Races and gaps met on the way that break no documented rule stay in the model and are listed
under hazards in `PROJECT.json`: the lost update of `no_show_count`; BOOKED through the
status API, which looks at no capacity; `mark_visited` over a booking cancelled since its list
was read; a second run of `generate_workload_students` that takes over addresses, and one run that meets
a group without a year and a group of year 99; a draft that spells a discipline's title in
two cases, whose links the importer then gives a discipline the lab work does not have;
`--max-students-per-group`, which counts per sheet; lab works whose title holds «план» or
«факт», which the journal parser drops; `update_lab_work`, which replaces the laboratories
other heads had bound; a person of another laboratory, who is taken over when bound.

## 5. Proofs

All theorems hold for every value of the constants their assumptions admit.

### Seats (`BookingProofs`)

From `TimetableAssumption`, `CapacityAssumption`, finite sets of students and
bookings, and `StaffNeverRebooks` (the status form offers final statuses; the API would
also take BOOKED):

1. `TypeCorrect`. `TypeOK` alone is not inductive: what an action writes
   depends on its transaction record. `TypeInv` adds `Sound(tx[r])`: at each program point
   the fields that step will use hold a student, session, discipline or existing row. One
   lemma per action; `TxStep` reduces each to the record it writes.
2. `ServiceImplementsLedger`. `SeatInv` adds to `TypeInv` that a
   transaction which is cancelling a booking holds its row and the row is still BOOKED
   (`Held`), and that one about to insert holds every row of `BookingLockIds` and its
   booking fits the table as it sees it (`Fits`). The heart is `OthersUndisturbed`: a
   booking that could spoil what `r` has checked lies in a slot that `r` has locked, so its
   inserter would hold that lock too; all other steps only free seats, and `FitsStays`
   says that freeing seats never unfits a booking. Each action then maps to
   `AddBooking`, `GiveUpSeats` or a stutter.
3. `StandsExclusive`, `CapacityRespected`, `RoomsRespected`, `LabWorksRespected`
   are invariants of the ledger, carried over by the refinement. For rooms the count
   is over the slots running when a slot starts: these overlap pairwise, so the last of
   them to get a self-service booking was checked against all the others.

TLC checked `TypeInv` and `SeatInv` as invariants before they were proved.

### Locks, statuses and a student's own bookings (`BookingProofs`)

`OwnInv` needs `TypeInv` alone: a request locks slots in key order from nothing, so those it
holds come before those it waits for (`InOrder`); a sweep lists sessions that have ended
and visits bookings of one of them (`Sweeping`); a cancellation promotes into the cancelled
booking's session (`Cancelling`); staff writes what its form offers (`ToWrite`). `Alone` says
what a step of one request leaves to the others; one lemma per action.

1. `OnlySessionCancelsDeadlock`. Were there a cycle of slot waits, take the least slot waited for
   (`LeastSession`, from the well-founded order of the keys) and its waiter; somebody in the
   cycle waits for that waiter, for a slot it already holds, hence for a lesser one.
2. `VisitsAfterEnd`, `OnlyBookedCancelled`, `PlacesKept`. `RowChanges` lists everything that
   can change a booking; `SeatInv` says that the row a cancellation holds is still BOOKED.
   Each assumes away the status it is about from those staff sets by hand, since staff may
   set any at any time.
3. `NoSharedDoubleBooking`. `ClashInv`: what a request about to insert has found, that its
   student holds no overlapping slot with a resource in common, is still so; a booking that
   would spoil it lies in a slot the request has locked. Hence `ApartInv`, by pairs.

TLC checked `OwnInv`, `ClashInv` and `ApartInv` on the instances of `waitlist`, `sweep` and
`stands` before they were proved.

### Heads, pages and tickets (`CampusProofs`)

For any number of users, laboratories, centres, lab works and tickets, from the typing
assumptions of `AccessScope` and `SupportDesk` (laboratories are ordered, hours have a first)
and a catalogue that starts in step (`CampusAssumption`). `CampusInv` has four parts:

1. The types, split by who writes them (`CatalogueOK`, `ToolsOK`, `BookingsOK`,
   `LabHeadTypeOK`), hence `TypeCorrect`. One lemma per service; an edit of a row goes through a
   named operator (`WithCenters`, `WithoutStand`, ...) of which the later proofs need
   only which columns it keeps.
2. `SyncInv`, which strengthens `CentersFollowLabs`: an object outside `unsynced` has at most one
   request at work on it; a request that has read the centres holds those of the laboratories
   as they are now, unless the lab work is gone; and only when nobody is at work do the
   object's own centres count. A lab work that is not there has neither laboratories nor
   centres, so that one deleted under a request and one created later begin in step. Steps
   that leave an object's columns alone are dealt with once (`SameSync`, `SyncFrame`). Hence
   `CentersCorrect`, and from it `RoomsListed`: a student's rooms are found through centres.
3. `EquipmentInOneCenter`, inductive once the types are known, hence `EquipmentCorrect`: the
   forms offer rooms and stands of the head's centre, and all other writes keep a lab
   work's room and stand or clear the stand.
4. `ReplyInv`, which strengthens `StatusFollowsLastMessage`: a ticket outside `overlapped` has at
   most one message whose status is not yet saved, it is the last one, and the status about to
   be saved is that of its side. Hence `StatusCorrect`.

`FoldersComplete` needs the types alone: whatever folders a page has, `FolderGroups` puts a
discipline into exactly one group (`OneGroup`).

Two more were model-checked only before:

5. `OwnBookingsListed` (`OwnManualBookingsListed`): `BookingsFinite`, that the table of bookings
   stays finite, is the invariant it needs beyond the types, for the summary by
   discipline counts them.
6. `OverdueCorrect` (`OverdueAfterADay`), about what `add_business_hours` computes for every start.
   The library's induction rules cannot be instantiated here, so the
   proof takes the least counterexample (`LeastNat`): `LoopSolved`, that the recursive equation
   of `HoursAdded` has a solution, and `HoursAddedRight`, that it passes just the hours asked
   for (`Passed`), a chunk of one day at a time (`OneChunk`). `DeadlinePassed` applies it.

### Slots (`SlotProofs`)

From `SlotAssumption` and `RowsAssumption` (the rows of the form and of the start are
lab works), for any number of slots, lab works, bookings and calls. `SlotInv` is inductive:

- `TypeOK`, `BookingFollowsSlot` and `SlotsUnique`; the last needs that a generation
  looks a slot up by the key it writes it under.
- `Fitted` strengthens `CapacitiesAgree`: an open future slot of a lab work outside `suspect` has
  the capacity of its lab work *or is still in the hands of the form's sync*, listed or about to be.
- `GenSound`: what a running generation still writes was computed from lab works that have
  not been edited since; `FormSound`: the sync holds slots of its own lab work and the capacity
  it has just saved.

Hence `TypeCorrect`, `BookingsFollowSlots`, `NoSlotTwice`, `CapacitiesFollow`, and the action
property `OnlyDeletionLoses` (`LostOnlyByDelete`): no step but the deletion of a lab work removes a
booking, whatever its status, and that one only bookings of its slots.

### Lists, pages and the weekly generation (`AvailabilityProofs`)

From `OffsetAssumption` (a local day differs from the UTC one only by night), `HolidayAssumption`
(the working days of the manual window exist before the calendar ends), `AvailabilityAssumption`,
`MonthAssumption`, `CronAssumption`, for any slots, rooms, students, holidays and moments:

1. `ListedAreBookable` and `ManualListedAreAdmitted` hold in every state of the right types: the filters of the lists
   and the objections of `create_booking` are compared one by one, the search for a working
   day by its count (`HolidayAssumption` bounds it), pairs by their minutes.
2. `NoDeadEnds` (`OffersLeadOn`). `PageInv`: a page is `NoPage` or `PageOK`: its
   fields fit its filter (`PageState`), the choices so far were offered (`OnTheWay`), and
   a page that nothing has overtaken offers just what the lists hold now (`Offering`).
   Steps that change the lists make a page stale (`PageOvertaken`), the others leave its lists alone
   (`SamePage`); there is one lemma per click.
3. `WindowAlwaysCovered` (`WindowCovered`). `WindowInv` counts weeks: the horizon is that of the last run that
   was not missed, and a week less while a run is due (`Lag`). `CronAssumption` does the rest.

TLC checked `SlotInv` and `PageInv` on the instances of `slots` and `availability` before they were proved.

### Imports (`ImportProofs`, `RowLoop`)

From `CatalogueAssumption`, `AccountAssumption`, `FilesAssumption`, `DraftsAssumption` and
`StartAssumption`, for any files, groups and number of commands.

`RowLoop` has the one induction all importers share, as a theorem about a loop with a
row's operator `Row` and a relation `Kept` for constants: `LoopKeeps`, that what holds at the start and is
kept by every row holds at the end. It goes by the least row after which the relation is lost
(`LeastNat`), and `LoopEnds` shows that the recursive function of the loop exists. Each loop of
`CatalogueImport` and `AccountImport` is an instance, with what a reader of that loop would
state for `Kept`; so a row's lemma is about one row only.

1. `TypeCorrect`, `WorksStayUnique`, `PlansStayBookable`. They are proved together
   (`IInv`): whether a plan is bookable depends on which lab work a title finds, so on their being
   unique, and that on rows that exist. `SoundCatalogue` is what each row and each
   transaction keeps; `JobOK` says of a command under way that its remaining rows
   are rows of its files, its counters numbers, and the account whose profile is
   about to be saved there. A write is used through a relation between the tables before and
   after (`Wrote`, `GroupSaved`, `Reprofiled`, ...), one lemma each. The drafts need
   most: the codes and titles read so far stand for disciplines (`DraftOK`), the unique lab
   works read so far are in their rooms with their disciplines (`Placed`), and no later row
   takes that away (`MorePlaced`), so each link finds the lab work its row has placed.
2. `RunKeepsStudents` (`RunKeepsItsStudents`). An address given in this run is `Spent`: its number
   is not above the counter of its year, and the next address is above it. It assumes
   `YearsApart`: a group whose name has no year takes numbers of year 99 *before* counting them, so
   it and a group of year 99 would be given one address; TLC finds that when `YearOf` has both.

3. `JournalsAlwaysRead` (`JournalsRead`). `EveryJournalRead` is the fact about a sheet of any
   width, with its headings in any of the first six rows, over the lab works or one row above
   them: the layout found is the one it was laid out by, and each lab work is under its nearest
   heading. The property's sheets of five columns are among these.

The catalogue invariant also says what the reruns below need: a room, a discipline and a
department point to rows that exist (`RoomsOK`, `DisciplinesOK`, `SoundDepartments`).

TLC checked `JobOK`, `GivenCounted` and `YearsApart` on the instance of `imports` before they were used.

### Imports run again (`RerunProofs`, `RowLoopTwice`)

`RerunChangesNothing` says that a file imported twice leaves what one import leaves. It is not
kept row by row: where later rows overwrite what earlier ones wrote, the second run does
change rows, and puts them back. `RowLoopTwice` therefore follows two runs together: `s` is what
the first has made of the start so far, `t` what the second has made of the first's end `F`, and
each row keeps that `t` is *beside* `s` and `F`: a column that a later row still overwrites
is as in `s`, any other as in `F`. `LoopGrows` and `LoopTwice` are the two inductions (again by the
least row at which the relation is lost).

1. `OrgRerunChangesNothing`, for `import_studlab_org`, under `CodesAgree`: a department's code in the
   files goes with one title, there and in the table of the start. Without it the
   statement is false: with department (c, Y) at the start and rows (c, X), (c2, Y) the first run
   finds Y under c, renames it and makes a new Y, which the second finds. The invariant `OrgEnded` keeps,
   while the rows of a command are still coming, that whatever its run ends in is what a
   second run ends in.
2. `DekanatRerunChangesNothing`, for `import_dekanat_csv`: students, staff, disciplines, groups,
   curricula and bindings. This command saves each row by itself, and a person in two saves
   (account, then profile), between which others may look. `Replayed(file, n, cur)`: wherever
   the first run, now at `cur` with `n` rows behind it, may end, the first `n` rows of a second run from
   there lead beside `cur`. `DekanatReading` keeps it for the rows still to come
   (`RestOf`); between the two saves of a person the accounts are those of a table for which it
   holds, with that one account written. It assumes `OneKey(file)`: the disciplines of a
   file all have codes or all have none. In a mixed file a row with only a title can find a
   discipline that a later row, by its code, gives another title; next time the title finds nothing
   and a new discipline is made. Rows of people without an address are outside the property itself.

TLC checked the property, `CodesAgree` (an `ASSUME` of `MCImports`) and the mutants of it on `imports`
before the proofs were begun.

### Model-checked only

`RequestsFinish` and `EndedSessionsClose`: liveness under fairness is outside TLAPS.
`RerunChangesNothing` for drafts and journals, and so the property as one formula over all
commands, as `imports` checks it. For these two it holds of files such as the instance has, not of all:

- drafts: a group that a draft's curriculum or links name has to be listed in the groups of that
  draft or an earlier one, for a later draft that lists it gives it to its own semester, where
  the second run finds it;
- journals: one book per room; in a book's catalogue a row with a discipline must not follow one without
  for the same title; the titles are those of `TitleOrder`; with `--clear-existing` no staff address has the
  form of a student's, and each sheet is named after a group.

A proof would have to carry such conditions through every table a draft writes; they are stated here
so that nobody reads more into the run than it shows.

## 6. Not modelled

- E-mail, the audit log, status history, texts, names, passwords (the dekanat import resets
  them at every run, which `RerunChangesNothing` leaves out); dekanat rows without an address
  (each run makes a new account, also left out of that property).
- Edits of a slot's times, room or lab work and its deletion through the API and the admin
  site: they check nothing, so they leave the copies in bookings behind at will.
- Rendering, search texts, sorting, pagination, JSON shapes; sign-in, SSO tokens and sessions,
  which are Django's.
- Methodics files, `seed_demo`, `fix_student_emails`, `export_students_csv`.
- Scrapers, normalisation scripts for drafts, editor scripts and deployment files: they run
  outside the system and write files that are inputs of `Imports`.
