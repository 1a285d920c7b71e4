---------------------------- MODULE BookingService ----------------------------
(*****************************************************************************)
(* BookingService (bookings/services/booking.py): concurrent requests, each  *)
(* a PostgreSQL transaction at READ COMMITTED run by a gunicorn worker or by *)
(* the hourly mark_visited command.                                          *)
(*                                                                           *)
(* Committed rows are variables of their own; what a transaction has         *)
(* written but not committed stays in its record tx[r] and shows only in     *)
(* View(r). Row locks (FOR UPDATE, UPDATE) live in sessionLock, bookingLock. *)
(* A request that would wait for its first lock holds nothing, so waiting    *)
(* there is the same as not having started.                                  *)
(*****************************************************************************)
EXTENDS BookingRules

CONSTANTS
  Request,          \* requests that can be in flight at once
  Traffic,          \* entry points the environment calls in this instance
  StaffStatuses,    \* statuses the staff form offers
  SessionEdits,     \* statuses a session edit sets
  MaxAttempts,      \* DEADLOCK_MAX_ATTEMPTS
  MaxNow, MaxNoShows, MaxCrashes   \* bounds

SessionStatus == {"DRAFT", "OPEN", "CLOSED", "CANCELLED"}

ASSUME ServiceAssumption ==
  /\ None \notin Request
  /\ StaffStatuses \subseteq BookingStatus
  /\ SessionEdits \subseteq SessionStatus
  /\ MaxAttempts \in Nat \ {0}
  /\ MaxNow \in Nat /\ MaxNoShows \in Nat /\ MaxCrashes \in Nat

VARIABLES
  now,              \* the clock
  sessionStatus,    \* LabSession.status
  bookings,         \* the Booking table
  waitlist,         \* WaitlistEntry.position per session and student, 0: no entry
  noShows,          \* Profile.no_show_count
  sessionLock, bookingLock,   \* which request holds the row, or None
  tx,               \* the transaction each request is running
  crashes           \* workers lost so far (bound)

db == <<sessionStatus, bookings, waitlist, noShows>>
locks == <<sessionLock, bookingLock>>
env == <<now, crashes>>
vars == <<now, sessionStatus, bookings, waitlist, noShows,
          sessionLock, bookingLock, tx, crashes>>

-------------------------------------------------------------------------------
(* Rows and transactions                                                     *)

Step == {"idle", "read", "lock", "insert", "promote", "settle", "status", "join",
         "collect", "reaccess", "sweep", "visit"}

IdleTx == [pc |-> "idle", student |-> None, session |-> None, discipline |-> None,
           registration |-> "AUTO", seen |-> "OPEN", attempt |-> 1, row |-> None,
           count |-> 0, pending |-> {}, sweep |-> {}]

Tx == [pc : Step, student : Student \cup {None}, session : Session \cup {None},
       discipline : Discipline \cup {None}, registration : Registration,
       seen : SessionStatus \cup BookingStatus,  \* status read early, or to be set
       attempt : 1..MaxAttempts, row : BookingId \cup {None},
       count : Nat,                              \* a counter read early
       pending : SUBSET BookingId,               \* bookings still to be processed
       sweep : SUBSET Session]                   \* sessions still to be closed

(* The Booking table as r sees it: r's own uncommitted cancellation shows.   *)
View(r) ==
  IF tx[r].row = None THEN bookings
  ELSE [bookings EXCEPT ![tx[r].row].status = "CANCELLED"]

Entries(s) == {st \in Student : waitlist[s][st] # 0}

(* order_by("position").first(): equal positions come in any order.          *)
Heads(s) == {st \in Entries(s) : \A other \in Entries(s) :
                                    waitlist[s][st] <= waitlist[s][other]}

WithoutEntry(s, st) ==
  [waitlist EXCEPT ![s] = [x \in Student |-> IF x = st THEN 0 ELSE waitlist[s][x]]]

(* Mutated form of SessionsReleased: the transaction is left open.           *)
SessionsKept(r) == sessionLock

SessionsReleased(r) == [s \in Session |-> IF sessionLock[s] = r THEN None ELSE sessionLock[s]]
BookingsReleased(r) == [b \in BookingId |-> IF bookingLock[b] = r THEN None ELSE bookingLock[b]]

(* End of r's transaction: its row locks go, the request is over.            *)
Release(r) ==
  /\ sessionLock' = SessionsReleased(r)
  /\ bookingLock' = BookingsReleased(r)
  /\ tx' = [tx EXCEPT ![r] = IdleTx]

Idle(r, entryPoint) == entryPoint \in Traffic /\ tx[r].pc = "idle"

(* Bound: every request in flight that may insert a booking has a row left.  *)
Unused == {b \in BookingId : bookings[b] = Absent}
HasSpareRow ==
  LET inserting == {q \in Request : tx[q].pc \in {"read", "lock", "insert", "promote"}}
  IN Cardinality(inserting) < Cardinality(Unused)

-------------------------------------------------------------------------------
(* create_booking, called by a student, by staff or by a promotion           *)

(* Decided on the session status read before the locks were taken.           *)
MayBook(r) ==
  LET s == tx[r].session
      st == tx[r].student
      table == View(r)
  IN /\ tx[r].seen = "OPEN"
     /\ ~StandBlocked(table, s)
     /\ \/ /\ tx[r].registration = "MANUAL"
           /\ now \in StaffWindow[s]
        \/ /\ tx[r].registration = "AUTO"
           /\ now \in StudentWindow[s]
           /\ ~HasActiveInDiscipline(table, st, tx[r].discipline)
           /\ ~HasVisited(table, st, s)
           /\ ~StudentOverlapBooked(table, st, s)
           /\ ~SessionFull(table, s)
           /\ ~LabWorkCapacityWouldBeExceeded(table, s)
           /\ ~RoomCapacityWouldBeExceeded(table, s)

BeginCreate(r, st, s, d, reg) ==
  /\ Idle(r, reg)
  /\ HasSpareRow
  /\ d \in Disciplines(st, s)
  /\ tx' = [tx EXCEPT ![r] = [IdleTx EXCEPT !.pc = "read", !.student = st, !.session = s,
                                           !.discipline = d, !.registration = reg]]
  /\ UNCHANGED <<db, locks, env>>

(* LabSession.objects.get: the copy every later check looks at.              *)
ReadSession(r) ==
  /\ tx[r].pc = "read"
  /\ tx' = [tx EXCEPT ![r].pc = "lock", ![r].seen = sessionStatus[tx[r].session]]
  /\ UNCHANGED <<db, locks, env>>

MissingLocks(r) == {s \in BookingLockIds(tx[r].session) : sessionLock[s] # r}

(* Mutated form of NextLock: rows locked in no particular order.             *)
AnyLock(r, s) == s \in MissingLocks(r)

(* ORDER BY pk: the row a request locks next.                                *)
NextLock(r, s) == s \in MissingLocks(r) /\ \A t \in MissingLocks(r) : s <= t

LockSession(r) ==
  /\ tx[r].pc = "lock"
  /\ \E s \in Session :
       /\ NextLock(r, s)
       /\ sessionLock[s] = None
       /\ sessionLock' = [sessionLock EXCEPT ![s] = r]
  /\ UNCHANGED <<db, bookingLock, tx, env>>

Locked(r) == tx[r].pc = "lock" /\ MissingLocks(r) = {}

Admit(r) ==
  /\ Locked(r)
  /\ MayBook(r)
  /\ tx' = [tx EXCEPT ![r].pc = "insert"]
  /\ UNCHANGED <<db, locks, env>>

(* BookingError: the request ends, or the promotion's savepoint is undone.   *)
GiveUp(r) ==
  \/ /\ tx[r].row = None
     /\ Release(r)
  \/ /\ tx[r].row # None
     /\ sessionLock' = SessionsReleased(r)
     /\ tx' = [tx EXCEPT ![r].pc = "settle"]
     /\ UNCHANGED bookingLock

Refuse(r) ==
  /\ Locked(r)
  /\ ~MayBook(r)
  /\ GiveUp(r)
  /\ UNCHANGED <<db, env>>

(* Mutated form of NewBooking: the discipline was never resolved.            *)
NewBookingOfNoDiscipline(r) ==
  [student |-> tx[r].student, session |-> tx[r].session, discipline |-> None,
   registration |-> tx[r].registration, status |-> "BOOKED"]

NewBooking(r) == [student |-> tx[r].student, session |-> tx[r].session,
                  discipline |-> tx[r].discipline, registration |-> tx[r].registration,
                  status |-> "BOOKED"]

(* INSERT and COMMIT; a promotion also commits the cancellation it serves    *)
(* and deletes the waitlist entry.                                           *)
InsertBooking(r) ==
  /\ tx[r].pc = "insert"
  /\ \E b \in Unused :
       /\ \A c \in Unused : b <= c
       /\ bookings' = [View(r) EXCEPT ![b] = NewBooking(r)]
  /\ waitlist' = IF tx[r].row = None THEN waitlist
                 ELSE WithoutEntry(tx[r].session, tx[r].student)
  /\ Release(r)
  /\ UNCHANGED <<sessionStatus, noShows, env>>

-------------------------------------------------------------------------------
(* cancel_booking and _promote_waitlist                                      *)

CancelWindowOpen(b) == now + CancelLead <= StartsAt[bookings[b].session]

(* Mutated form of CancelAllowed: the status is not looked at again.         *)
CancelUnchecked(b, byStaff) ==
  /\ bookings[b] # Absent
  /\ byStaff \/ CancelWindowOpen(b)

CancelAllowed(b, byStaff) ==
  /\ IsBooked(bookings, b)
  /\ byStaff \/ CancelWindowOpen(b)

BeginCancel(r, b, byStaff) ==
  /\ Idle(r, "CANCEL")
  /\ HasSpareRow
  /\ bookingLock[b] = None
  /\ CancelAllowed(b, byStaff)
  /\ bookingLock' = [bookingLock EXCEPT ![b] = r]
  /\ tx' = [tx EXCEPT ![r] = [IdleTx EXCEPT !.pc = "promote", !.row = b,
                                           !.session = bookings[b].session]]
  /\ UNCHANGED <<db, sessionLock, env>>

(* The head of the queue is read without a lock; only that one is tried.     *)
Promote(r) ==
  /\ tx[r].pc = "promote"
  /\ \/ /\ Entries(tx[r].session) = {}
        /\ tx' = [tx EXCEPT ![r].pc = "settle"]
     \/ \E st \in Heads(tx[r].session) :
          tx' = [tx EXCEPT ![r].pc = "read", ![r].student = st,
                           ![r].discipline = DefaultDiscipline(st, tx[r].session)]
  /\ UNCHANGED <<db, locks, env>>

(* COMMIT of a cancellation that gave the seat to nobody; the entry that was *)
(* tried, if any, is deleted all the same.                                   *)
Settle(r) ==
  /\ tx[r].pc = "settle"
  /\ bookings' = View(r)
  /\ waitlist' = WithoutEntry(tx[r].session, tx[r].student)
  /\ Release(r)
  /\ UNCHANGED <<sessionStatus, noShows, env>>

-------------------------------------------------------------------------------
(* change_status: any status to any other; the profile is read unlocked      *)

BeginStatus(r, b, new) ==
  /\ Idle(r, "STATUS")
  /\ bookingLock[b] = None
  /\ bookings[b] # Absent
  /\ noShows[bookings[b].student] < MaxNoShows          \* bound
  /\ bookingLock' = [bookingLock EXCEPT ![b] = r]
  /\ tx' = [tx EXCEPT ![r] = [IdleTx EXCEPT !.pc = "status", !.row = b, !.seen = new,
                                           !.count = noShows[bookings[b].student]]]
  /\ UNCHANGED <<db, sessionLock, env>>

WithStatus(B, new) ==
  [b \in BookingId |-> IF b \in B THEN [bookings[b] EXCEPT !.status = new] ELSE bookings[b]]

ApplyStatus(r) ==
  /\ tx[r].pc = "status"
  /\ bookings' = WithStatus({tx[r].row}, tx[r].seen)
  /\ noShows' = IF tx[r].seen = "NO_SHOW"
                THEN [noShows EXCEPT ![bookings[tx[r].row].student] = tx[r].count + 1]
                ELSE noShows
  /\ Release(r)
  /\ UNCHANGED <<sessionStatus, waitlist, env>>

-------------------------------------------------------------------------------
(* join_waitlist                                                             *)

BeginJoin(r, st, s) ==
  /\ Idle(r, "JOIN")
  /\ sessionLock[s] = None
  /\ Disciplines(st, s) # {}
  /\ SessionFull(bookings, s)
  /\ waitlist[s][st] = 0
  /\ sessionLock' = [sessionLock EXCEPT ![s] = r]
  /\ tx' = [tx EXCEPT ![r] = [IdleTx EXCEPT !.pc = "join", !.student = st, !.session = s,
                                           !.count = Cardinality(Entries(s)) + 1]]
  /\ UNCHANGED <<db, bookingLock, env>>

CommitJoin(r) ==
  /\ tx[r].pc = "join"
  /\ waitlist' = [waitlist EXCEPT ![tx[r].session][tx[r].student] = tx[r].count]
  /\ Release(r)
  /\ UNCHANGED <<sessionStatus, bookings, noShows, env>>

-------------------------------------------------------------------------------
(* cancel_session_with_reaccess: one transaction over a session and the      *)
(* bookings found BOOKED in it                                               *)

BeginSessionCancel(r, s) ==
  /\ Idle(r, "CANCEL_SESSION")
  /\ sessionStatus[s] = "OPEN"        \* callers cancel an open session
  /\ sessionLock[s] = None
  /\ sessionLock' = [sessionLock EXCEPT ![s] = r]
  /\ tx' = [tx EXCEPT ![r] = [IdleTx EXCEPT !.pc = "collect", !.session = s]]
  /\ UNCHANGED <<db, bookingLock, env>>

CollectBooked(r) ==
  /\ tx[r].pc = "collect"
  /\ tx' = [tx EXCEPT ![r].pc = "reaccess",
                      ![r].pending = BookedIn(bookings, {tx[r].session})]
  /\ UNCHANGED <<db, locks, env>>

(* Bookings of one session tie in -scheduled_at: taken in key order.         *)
NextPending(r, b) == b \in tx[r].pending /\ \A c \in tx[r].pending : b <= c

(* change_status inside the outer transaction: lock and write, not look.     *)
ReaccessBooking(r, b) ==
  /\ tx[r].pc = "reaccess"
  /\ NextPending(r, b)
  /\ bookingLock[b] = None
  /\ bookingLock' = [bookingLock EXCEPT ![b] = r]
  /\ tx' = [tx EXCEPT ![r].pending = @ \ {b}]
  /\ UNCHANGED <<db, sessionLock, env>>

CommitSessionCancel(r) ==
  /\ tx[r].pc = "reaccess"
  /\ tx[r].pending = {}
  /\ sessionStatus' = [sessionStatus EXCEPT ![tx[r].session] = "CANCELLED"]
  /\ bookings' = WithStatus({b \in BookingId : bookingLock[b] = r}, "REACCESS")
  /\ Release(r)
  /\ UNCHANGED <<waitlist, noShows, env>>

-------------------------------------------------------------------------------
(* mark_visited_for_ended_sessions: no transaction around the loops; every   *)
(* change_status and every session.save commits on its own                   *)

(* Mutated form of EndedSessions: sessions still running are taken too.      *)
StartedSessions == {s \in Session : StartsAt[s] <= now /\ sessionStatus[s] = "OPEN"}

(* Mutated form of EndedSessions: sessions nobody is booked in are skipped.  *)
EndedBookedSessions ==
  {s \in Session : /\ EndsAt[s] <= now
                   /\ sessionStatus[s] = "OPEN"
                   /\ BookedIn(bookings, {s}) # {}}

EndedSessions == {s \in Session : EndsAt[s] <= now /\ sessionStatus[s] = "OPEN"}

BeginSweep(r) ==
  /\ Idle(r, "SWEEP")
  /\ EndedSessions # {}
  /\ tx' = [tx EXCEPT ![r] = [IdleTx EXCEPT !.pc = "sweep", !.sweep = EndedSessions]]
  /\ UNCHANGED <<db, locks, env>>

SweepSession(r, s) ==
  /\ tx[r].pc = "sweep"
  /\ s \in tx[r].sweep
  /\ \A t \in tx[r].sweep : StartsAt[s] <= StartsAt[t]
  /\ tx' = [tx EXCEPT ![r].pc = "visit", ![r].session = s,
                      ![r].pending = BookedIn(bookings, {s})]
  /\ UNCHANGED <<db, locks, env>>

VisitBooking(r, b) ==
  /\ tx[r].pc = "visit"
  /\ NextPending(r, b)
  /\ bookingLock[b] = None
  /\ bookings' = WithStatus({b}, "VISITED")
  /\ tx' = [tx EXCEPT ![r].pending = @ \ {b}]
  /\ UNCHANGED <<sessionStatus, waitlist, noShows, locks, env>>

(* The session object read at the start is saved: its status only.           *)
CloseSession(r) ==
  /\ tx[r].pc = "visit"
  /\ tx[r].pending = {}
  /\ sessionLock[tx[r].session] = None
  /\ sessionStatus' = [sessionStatus EXCEPT ![tx[r].session] = "CLOSED"]
  /\ LET left == tx[r].sweep \ {tx[r].session}
     IN tx' = [tx EXCEPT ![r] = IF left = {} THEN IdleTx
                                ELSE [IdleTx EXCEPT !.pc = "sweep", !.sweep = left]]
  /\ UNCHANGED <<bookings, waitlist, noShows, locks, env>>

-------------------------------------------------------------------------------
(* The environment: session editing, the clock, lost workers, deadlocks      *)

(* LabSessionAdminViewSet or the Django admin saving a session's status.     *)
EditSession(s, new) ==
  /\ "EDIT" \in Traffic
  /\ sessionLock[s] = None
  /\ sessionStatus' = [sessionStatus EXCEPT ![s] = new]
  /\ UNCHANGED <<bookings, waitlist, noShows, locks, tx, env>>

Tick ==
  /\ now < MaxNow
  /\ now' = now + 1
  /\ UNCHANGED <<db, locks, tx, crashes>>

(* The worker dies: PostgreSQL rolls its open transaction back.              *)
Crash(r) ==
  /\ tx[r].pc # "idle"
  /\ crashes < MaxCrashes
  /\ crashes' = crashes + 1
  /\ Release(r)
  /\ UNCHANGED <<db, now>>

WaitsFor(r, q) ==
  \/ tx[r].pc = "lock" /\ \E s \in Session : NextLock(r, s) /\ sessionLock[s] = q
  \/ tx[r].pc = "reaccess" /\ \E b \in BookingId : NextPending(r, b) /\ bookingLock[b] = q

(* A request waits for one row, so for one holder: C is made of cycles.      *)
WaitCycle(C) ==
  /\ C # {}
  /\ \A x \in C : \E y \in C : WaitsFor(x, y)
  /\ \A y \in C : \E x \in C : WaitsFor(x, y)

(* PostgreSQL aborts one member of a cycle. create_booking is tried again    *)
(* with its session locks gone; cancel_session_with_reaccess is rolled back. *)
DeadlockVictim(r) ==
  /\ \E C \in SUBSET Request : r \in C /\ WaitCycle(C)
  /\ \/ /\ tx[r].pc = "lock"
        /\ tx[r].attempt < MaxAttempts
        /\ sessionLock' = SessionsReleased(r)
        /\ tx' = [tx EXCEPT ![r].pc = "read", ![r].attempt = @ + 1]
        /\ UNCHANGED bookingLock
     \/ /\ tx[r].pc = "lock"
        /\ tx[r].attempt = MaxAttempts
        /\ GiveUp(r)
     \/ /\ tx[r].pc = "reaccess"
        /\ Release(r)
  /\ UNCHANGED <<db, env>>

-------------------------------------------------------------------------------
(* Specification                                                             *)

Init ==
  /\ now = 0
  /\ sessionStatus = [s \in Session |-> "OPEN"]
  /\ bookings = [b \in BookingId |-> Absent]
  /\ waitlist = [s \in Session |-> [st \in Student |-> 0]]
  /\ noShows = [st \in Student |-> 0]
  /\ sessionLock = [s \in Session |-> None]
  /\ bookingLock = [b \in BookingId |-> None]
  /\ tx = [r \in Request |-> IdleTx]
  /\ crashes = 0

(* A new call arrives at an idle worker.                                     *)
Begin(r) ==
  \/ \E st \in Student, s \in Session, d \in Discipline, reg \in Registration :
       BeginCreate(r, st, s, d, reg)
  \/ \E b \in BookingId, byStaff \in BOOLEAN : BeginCancel(r, b, byStaff)
  \/ \E b \in BookingId, new \in StaffStatuses : BeginStatus(r, b, new)
  \/ \E st \in Student, s \in Session : BeginJoin(r, st, s)
  \/ \E s \in Session : BeginSessionCancel(r, s)

(* A request in flight goes on.                                              *)
Proceed(r) ==
  \/ ReadSession(r) \/ LockSession(r) \/ Admit(r) \/ Refuse(r) \/ InsertBooking(r)
  \/ Promote(r) \/ Settle(r)
  \/ ApplyStatus(r)
  \/ CommitJoin(r)
  \/ CollectBooked(r) \/ (\E b \in BookingId : ReaccessBooking(r, b)) \/ CommitSessionCancel(r)
  \/ (\E s \in Session : SweepSession(r, s)) \/ (\E b \in BookingId : VisitBooking(r, b))
  \/ CloseSession(r)
  \/ DeadlockVictim(r)

Next ==
  \/ \E r \in Request : Begin(r) \/ BeginSweep(r) \/ Proceed(r) \/ Crash(r)
  \/ \E s \in Session, new \in SessionEdits : EditSession(s, new)
  \/ Tick

Spec == Init /\ [][Next]_vars

(* A worker runs its request on; PostgreSQL queues the waiters of a row, so  *)
(* a lock that keeps being freed is got in the end (strong fairness). The    *)
(* clock advances and cron starts mark_visited again and again.              *)
FairSpec ==
  /\ Spec
  /\ WF_vars(Tick)
  /\ \A r \in Request : SF_vars(Proceed(r)) /\ SF_vars(BeginSweep(r))
================================================================================
