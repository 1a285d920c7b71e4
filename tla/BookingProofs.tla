----------------------------- MODULE BookingProofs -----------------------------
(*****************************************************************************)
(* Proofs about BookingService for any timetable, any number of requests and *)
(* any mix of calls, in three parts: types; the refinement of the seat       *)
(* ledger, and what the ledger says about seats and stands; what holding a   *)
(* lock gives a request besides its seat.                                    *)
(*****************************************************************************)
EXTENDS BookingProperties, FiniteSetTheorems, WellFoundedInduction, TLAPS

USE TimetableAssumption, BookingIdAssumption, ServiceAssumption

-------------------------------------------------------------------------------
(* Type correctness                                                          *)

(* What a transaction relies on besides the types of its columns: the fields *)
(* its step uses are filled in, and the rows it refers to exist.             *)
Sound(t) ==
  /\ t.pc \in {"read", "lock", "insert"} => t.student \in Student /\ t.discipline \in Discipline
  /\ t.pc \notin {"idle", "status", "sweep"} => t.session \in Session
  /\ t.pc \in {"promote", "settle", "status"} => t.row \in BookingId
  /\ t.pc = "status" => t.seen \in BookingStatus
  /\ t.pc = "join" => t.student \in Student /\ Disciplines(t.student, t.session) # {}
  /\ t.row # None => bookings[t.row] # Absent
  /\ \A b \in t.pending : bookings[b] # Absent

QueueOK ==
  \A s \in Session, st \in Student : waitlist[s][st] # 0 => Disciplines(st, s) # {}

DbOK ==
  /\ sessionStatus \in [Session -> SessionStatus]
  /\ bookings \in Tables
  /\ waitlist \in [Session -> [Student -> Nat]]
  /\ noShows \in [Student -> Nat]
  /\ QueueOK

LocksOK ==
  /\ sessionLock \in [Session -> Request \cup {None}]
  /\ bookingLock \in [BookingId -> Request \cup {None}]
  /\ \A b \in BookingId : bookingLock[b] # None => bookings[b] # Absent

TypeInv ==
  /\ now \in Nat /\ crashes \in Nat
  /\ DbOK
  /\ LocksOK
  /\ tx \in [Request -> Tx]
  /\ \A r \in Request : Sound(tx[r])

(* A step deletes no booking.                                                *)
RowsStay == \A b \in BookingId : bookings[b] # Absent => bookings'[b] # Absent

LEMMA DbUnchanged ==
  ASSUME TypeInv, UNCHANGED db
  PROVE DbOK' /\ RowsStay
BY DEF TypeInv, DbOK, QueueOK, RowsStay, db

LEMMA LocksUnchanged ==
  ASSUME TypeInv, UNCHANGED locks, RowsStay
  PROVE LocksOK'
BY DEF TypeInv, LocksOK, RowsStay, locks

(* A step of request r that turns its record into t keeps the invariant if t *)
(* is sound and what it writes to the database is.                           *)
LEMMA TxStep ==
  ASSUME TypeInv, NEW r \in Request, NEW t \in Tx, Sound(t),
         tx' = [tx EXCEPT ![r] = t], DbOK', RowsStay, LocksOK', UNCHANGED env
  PROVE TypeInv'
<1>1. tx' \in [Request -> Tx]
  BY DEF TypeInv
<1>2. ASSUME NEW q \in Request PROVE Sound(tx[q])'
  <2>1. Sound(tx[q]) /\ tx[q] \in Tx
    BY DEF TypeInv
  <2>2. PICK u \in Tx : u = tx'[q] /\ Sound(u)
    BY <2>1, <1>1 DEF TypeInv
  <2>3. /\ u.row # None => bookings'[u.row] # Absent
        /\ \A b \in u.pending : bookings'[b] # Absent
    BY <2>2 DEF Sound, RowsStay, Tx
  <2> QED BY <2>2, <2>3 DEF Sound
<1> QED BY <1>1, <1>2 DEF TypeInv, env

LEMMA IdleTxType == IdleTx \in Tx /\ (TypeInv => Sound(IdleTx))
<1>1. IdleTx \in Tx
  BY DEF IdleTx, Tx, Step, Registration, SessionStatus, BookingStatus
<1>2. Sound(IdleTx)
  BY DEF IdleTx, Sound
<1> QED BY <1>1, <1>2

LEMMA ReleaseType ==
  ASSUME TypeInv, NEW r \in Request, Release(r), DbOK', RowsStay, UNCHANGED env
  PROVE TypeInv'
<1>1. LocksOK'
  BY DEF TypeInv, LocksOK, Release, SessionsReleased, BookingsReleased, RowsStay
<1>2. tx' = [tx EXCEPT ![r] = IdleTx]
  BY DEF Release
<1> QED BY <1>1, <1>2, IdleTxType, TxStep

LEMMA BeginCreateType ==
  ASSUME TypeInv, NEW r \in Request, NEW st \in Student, NEW s \in Session,
         NEW d \in Discipline, NEW reg \in Registration, BeginCreate(r, st, s, d, reg)
  PROVE TypeInv'
<1> DEFINE t == [IdleTx EXCEPT !.pc = "read", !.student = st, !.session = s,
                               !.discipline = d, !.registration = reg]
<1>1. t \in Tx
  BY IdleTxType DEF Tx, Step
<1>2. Sound(t)
  BY DEF IdleTx, Sound
<1>3. tx' = [tx EXCEPT ![r] = t] /\ UNCHANGED <<db, locks, env>>
  BY DEF BeginCreate
<1> QED BY <1>1, <1>2, <1>3, TxStep, DbUnchanged, LocksUnchanged

LEMMA ReadSessionType ==
  ASSUME TypeInv, NEW r \in Request, ReadSession(r)
  PROVE TypeInv'
<1> DEFINE t == [tx[r] EXCEPT !.pc = "lock", !.seen = sessionStatus[tx[r].session]]
<1>1. tx[r] \in Tx /\ Sound(tx[r]) /\ tx[r].pc = "read"
  BY DEF TypeInv, ReadSession
<1>2. sessionStatus[tx[r].session] \in SessionStatus
  BY <1>1 DEF TypeInv, DbOK, Sound
<1>3. t \in Tx
  BY <1>1, <1>2 DEF Tx, Step
<1>4. Sound(t)
  BY <1>1 DEF Sound, Tx
<1>5. tx' = [tx EXCEPT ![r] = t] /\ UNCHANGED <<db, locks, env>>
  BY DEF ReadSession, TypeInv
<1> QED BY <1>3, <1>4, <1>5, TxStep, DbUnchanged, LocksUnchanged

LEMMA LockSessionType ==
  ASSUME TypeInv, NEW r \in Request, LockSession(r)
  PROVE TypeInv'
<1>1. tx[r] \in Tx /\ Sound(tx[r]) /\ tx' = [tx EXCEPT ![r] = tx[r]]
  BY DEF TypeInv, LockSession
<1>2. LocksOK' /\ UNCHANGED <<db, env>>
  BY DEF TypeInv, LocksOK, LockSession, db
<1> QED BY <1>1, <1>2, TxStep, DbUnchanged

LEMMA AdmitType ==
  ASSUME TypeInv, NEW r \in Request, Admit(r)
  PROVE TypeInv'
<1> DEFINE t == [tx[r] EXCEPT !.pc = "insert"]
<1>1. tx[r] \in Tx /\ Sound(tx[r]) /\ tx[r].pc = "lock"
  BY DEF TypeInv, Admit, Locked
<1>2. t \in Tx
  BY <1>1 DEF Tx, Step
<1>3. Sound(t)
  BY <1>1 DEF Sound, Tx
<1>4. tx' = [tx EXCEPT ![r] = t] /\ UNCHANGED <<db, locks, env>>
  BY DEF Admit, TypeInv
<1> QED BY <1>2, <1>3, <1>4, TxStep, DbUnchanged, LocksUnchanged

LEMMA GiveUpType ==
  ASSUME TypeInv, NEW r \in Request, tx[r].pc = "lock", GiveUp(r), UNCHANGED <<db, env>>
  PROVE TypeInv'
<1>1. CASE tx[r].row = None /\ Release(r)
  BY <1>1, ReleaseType, DbUnchanged
<1>2. CASE /\ tx[r].row # None
           /\ sessionLock' = SessionsReleased(r)
           /\ tx' = [tx EXCEPT ![r].pc = "settle"]
           /\ UNCHANGED bookingLock
  <2> DEFINE t == [tx[r] EXCEPT !.pc = "settle"]
  <2>1. tx[r] \in Tx /\ Sound(tx[r])
    BY DEF TypeInv
  <2>2. t \in Tx
    BY <2>1 DEF Tx, Step
  <2>3. Sound(t)
    BY <2>1, <1>2 DEF Sound, Tx
  <2>4. tx' = [tx EXCEPT ![r] = t]
    BY <1>2 DEF TypeInv
  <2>5. LocksOK'
    BY <1>2 DEF TypeInv, LocksOK, SessionsReleased, db
  <2> QED BY <2>2, <2>3, <2>4, <2>5, TxStep, DbUnchanged
<1> QED BY <1>1, <1>2 DEF GiveUp

LEMMA ViewType ==
  ASSUME TypeInv, NEW r \in Request
  PROVE /\ View(r) \in Tables
        /\ \A b \in BookingId : bookings[b] # Absent <=> View(r)[b] # Absent
<1>1. CASE tx[r].row = None
  BY <1>1 DEF View, TypeInv, DbOK
<1>2. CASE tx[r].row # None
  <2> DEFINE c == tx[r].row
  <2>1. c \in BookingId /\ bookings[c] \in BookingRow
    BY <1>2 DEF TypeInv, DbOK, Sound, Tx, Tables
  <2>2. [bookings[c] EXCEPT !.status = "CANCELLED"] \in BookingRow
    BY <2>1 DEF BookingRow, BookingStatus
  <2>3. View(r) = [bookings EXCEPT ![c] = [bookings[c] EXCEPT !.status = "CANCELLED"]]
    BY <1>2 DEF View
  <2>4. Absent \notin BookingRow
    BY DEF Absent, BookingRow, BookingStatus
  <2>5. bookings \in Tables /\ bookings[c] # Absent
    BY <2>1, <2>4 DEF TypeInv, DbOK
  <2>6. View(r)[c] # Absent /\ \A b \in BookingId : b # c => View(r)[b] = bookings[b]
    BY <2>1, <2>2, <2>3, <2>4, <2>5 DEF Tables
  <2>7. View(r) \in Tables
    BY <2>2, <2>3, <2>5 DEF Tables
  <2> QED BY <2>5, <2>6, <2>7
<1> QED BY <1>1, <1>2

LEMMA WithoutEntryType ==
  ASSUME TypeInv, NEW s \in Session, NEW st, waitlist' = WithoutEntry(s, st)
  PROVE waitlist' \in [Session -> [Student -> Nat]] /\ QueueOK'
<1> DEFINE q == [x \in Student |-> IF x = st THEN 0 ELSE waitlist[s][x]]
<1>1. waitlist \in [Session -> [Student -> Nat]] /\ QueueOK
  BY DEF TypeInv, DbOK
<1>2. q \in [Student -> Nat]
  BY <1>1
<1>3. waitlist' = [waitlist EXCEPT ![s] = q]
  BY DEF WithoutEntry
<1>4. waitlist' \in [Session -> [Student -> Nat]]
  BY <1>1, <1>2, <1>3
<1>5. \A x \in Session, y \in Student : waitlist'[x][y] # 0 => waitlist[x][y] # 0
  BY <1>1, <1>3
<1> QED BY <1>1, <1>4, <1>5 DEF QueueOK

LEMMA InsertBookingType ==
  ASSUME TypeInv, NEW r \in Request, InsertBooking(r)
  PROVE TypeInv'
<1>1. tx[r] \in Tx /\ Sound(tx[r]) /\ tx[r].pc = "insert"
  BY DEF TypeInv, InsertBooking
<1>2. PICK b \in BookingId : bookings' = [View(r) EXCEPT ![b] = NewBooking(r)]
  BY DEF InsertBooking, Unused
<1>3. NewBooking(r) \in BookingRow /\ NewBooking(r) # Absent
  BY <1>1 DEF NewBooking, BookingRow, BookingStatus, Sound, Tx, Absent
<1>4. bookings' \in Tables /\ RowsStay
  BY <1>2, <1>3, ViewType DEF Tables, RowsStay
<1>5. waitlist' \in [Session -> [Student -> Nat]] /\ QueueOK'
  <2>1. CASE tx[r].row = None
    BY <2>1 DEF InsertBooking, TypeInv, DbOK, QueueOK
  <2>2. CASE tx[r].row # None
    BY <1>1, <2>2, WithoutEntryType DEF InsertBooking, Sound
  <2> QED BY <2>1, <2>2
<1>6. DbOK'
  BY <1>4, <1>5 DEF DbOK, TypeInv, InsertBooking
<1> QED BY <1>4, <1>6, ReleaseType DEF InsertBooking

LEMMA BeginCancelType ==
  ASSUME TypeInv, NEW r \in Request, NEW b \in BookingId, NEW byStaff \in BOOLEAN,
         BeginCancel(r, b, byStaff)
  PROVE TypeInv'
<1> DEFINE t == [IdleTx EXCEPT !.pc = "promote", !.row = b, !.session = bookings[b].session]
<1>1. bookings[b] # Absent /\ bookings[b] \in BookingRow
  BY DEF BeginCancel, CancelAllowed, IsBooked, Absent, TypeInv, DbOK, Tables
<1>2. t \in Tx
  BY <1>1, IdleTxType DEF Tx, Step, BookingRow
<1>3. Sound(t)
  BY <1>1 DEF IdleTx, Sound, BookingRow
<1>4. tx' = [tx EXCEPT ![r] = t] /\ UNCHANGED <<db, env>>
  BY DEF BeginCancel
<1>5. LocksOK'
  BY <1>1 DEF BeginCancel, TypeInv, LocksOK, db
<1> QED BY <1>2, <1>3, <1>4, <1>5, TxStep, DbUnchanged

LEMMA PromoteType ==
  ASSUME TypeInv, NEW r \in Request, Promote(r)
  PROVE TypeInv'
<1>1. tx[r] \in Tx /\ Sound(tx[r]) /\ tx[r].pc = "promote"
  BY DEF TypeInv, Promote
<1>2. CASE tx' = [tx EXCEPT ![r].pc = "settle"]
  <2> DEFINE t == [tx[r] EXCEPT !.pc = "settle"]
  <2>1. t \in Tx
    BY <1>1 DEF Tx, Step
  <2>2. Sound(t)
    BY <1>1 DEF Sound, Tx
  <2>3. tx' = [tx EXCEPT ![r] = t] /\ UNCHANGED <<db, locks, env>>
    BY <1>2 DEF Promote, TypeInv
  <2> QED BY <2>1, <2>2, <2>3, TxStep, DbUnchanged, LocksUnchanged
<1>3. CASE \E st \in Heads(tx[r].session) :
             tx' = [tx EXCEPT ![r].pc = "read", ![r].student = st,
                              ![r].discipline = DefaultDiscipline(st, tx[r].session)]
  <2>1. PICK st \in Heads(tx[r].session) :
             tx' = [tx EXCEPT ![r].pc = "read", ![r].student = st,
                              ![r].discipline = DefaultDiscipline(st, tx[r].session)]
    BY <1>3
  <2> DEFINE d == DefaultDiscipline(st, tx[r].session)
             t == [tx[r] EXCEPT !.pc = "read", !.student = st, !.discipline = d]
  <2>2. st \in Student /\ Disciplines(st, tx[r].session) # {}
    BY <1>1 DEF Heads, Entries, Sound, TypeInv, DbOK, QueueOK
  <2>3. d \in Discipline
    BY <2>2 DEF DefaultDiscipline, Disciplines
  <2>4. t \in Tx
    BY <1>1, <2>2, <2>3 DEF Tx, Step
  <2>5. Sound(t)
    BY <1>1, <2>2, <2>3 DEF Sound, Tx
  <2>6. tx' = [tx EXCEPT ![r] = t] /\ UNCHANGED <<db, locks, env>>
    BY <2>1 DEF Promote, TypeInv
  <2> QED BY <2>4, <2>5, <2>6, TxStep, DbUnchanged, LocksUnchanged
<1> QED BY <1>2, <1>3 DEF Promote

LEMMA SettleType ==
  ASSUME TypeInv, NEW r \in Request, Settle(r)
  PROVE TypeInv'
<1>1. tx[r].session \in Session
  BY DEF Settle, TypeInv, Sound
<1>2. bookings' \in Tables /\ RowsStay
  BY ViewType DEF Settle, RowsStay
<1>3. DbOK'
  BY <1>1, <1>2, WithoutEntryType DEF Settle, DbOK, TypeInv
<1> QED BY <1>2, <1>3, ReleaseType DEF Settle

LEMMA BeginStatusType ==
  ASSUME TypeInv, NEW r \in Request, NEW b \in BookingId, NEW new \in StaffStatuses,
         BeginStatus(r, b, new)
  PROVE TypeInv'
<1> DEFINE n == noShows[bookings[b].student]
           t == [IdleTx EXCEPT !.pc = "status", !.row = b, !.seen = new, !.count = n]
<1>1. bookings[b] # Absent /\ bookings[b] \in BookingRow
  BY DEF BeginStatus, TypeInv, DbOK, Tables
<1>2. n \in Nat
  BY <1>1 DEF BookingRow, TypeInv, DbOK
<1>3. t \in Tx
  BY <1>2, IdleTxType DEF Tx, Step
<1>4. Sound(t)
  BY <1>1 DEF IdleTx, Sound
<1>5. tx' = [tx EXCEPT ![r] = t] /\ UNCHANGED <<db, env>>
  BY DEF BeginStatus
<1>6. LocksOK'
  BY <1>1 DEF BeginStatus, TypeInv, LocksOK, db
<1> QED BY <1>3, <1>4, <1>5, <1>6, TxStep, DbUnchanged

(* Existing rows given a status stay well-typed rows.                        *)
LEMMA WithStatusType ==
  ASSUME TypeInv, NEW B, NEW new \in BookingStatus, \A b \in B : bookings[b] # Absent,
         bookings' = WithStatus(B, new)
  PROVE bookings' \in Tables /\ RowsStay
<1>1. ASSUME NEW b \in BookingId, b \in B
      PROVE [bookings[b] EXCEPT !.status = new] \in BookingRow
  <2>1. bookings[b] \in BookingRow
    BY <1>1 DEF TypeInv, DbOK, Tables
  <2> QED BY <2>1 DEF BookingRow
<1>2. Absent \notin BookingRow
  BY DEF Absent, BookingRow, BookingStatus
<1> QED BY <1>1, <1>2 DEF WithStatus, Tables, RowsStay, TypeInv, DbOK

LEMMA ApplyStatusType ==
  ASSUME TypeInv, NEW r \in Request, ApplyStatus(r)
  PROVE TypeInv'
<1> DEFINE c == tx[r].row
<1>1. tx[r] \in Tx /\ c \in BookingId /\ tx[r].seen \in BookingStatus /\ bookings[c] # Absent
  BY DEF TypeInv, ApplyStatus, Sound
<1>2. bookings' \in Tables /\ RowsStay
  <2> DEFINE B == {c}
  <2>1. bookings' = WithStatus(B, tx[r].seen) /\ \A b \in B : bookings[b] # Absent
    BY <1>1 DEF ApplyStatus
  <2> HIDE DEF B
  <2> QED BY <1>1, <2>1, WithStatusType
<1>3. bookings[c] \in BookingRow /\ tx[r].count \in Nat
  BY <1>1 DEF TypeInv, DbOK, Tables, Tx
<1>4. noShows' \in [Student -> Nat]
  BY <1>3 DEF ApplyStatus, TypeInv, DbOK, BookingRow
<1>5. DbOK'
  BY <1>2, <1>4 DEF ApplyStatus, TypeInv, DbOK, QueueOK
<1> QED BY <1>2, <1>5, ReleaseType DEF ApplyStatus

LEMMA BeginJoinType ==
  ASSUME TypeInv, NEW r \in Request, NEW st \in Student, NEW s \in Session,
         BeginJoin(r, st, s)
  PROVE TypeInv'
<1> DEFINE n == Cardinality(Entries(s)) + 1
           t == [IdleTx EXCEPT !.pc = "join", !.student = st, !.session = s, !.count = n]
<1>1. IsFiniteSet(Entries(s))
  BY FS_Subset DEF Entries
<1>2. n \in Nat
  BY <1>1, FS_CardinalityType
<1>3. t \in Tx
  BY <1>2, IdleTxType DEF Tx, Step
<1>4. Sound(t)
  BY DEF IdleTx, Sound, BeginJoin
<1>5. tx' = [tx EXCEPT ![r] = t] /\ UNCHANGED <<db, env>>
  BY DEF BeginJoin
<1>6. LocksOK'
  BY DEF BeginJoin, TypeInv, LocksOK, db
<1> QED BY <1>3, <1>4, <1>5, <1>6, TxStep, DbUnchanged

LEMMA CommitJoinType ==
  ASSUME TypeInv, NEW r \in Request, CommitJoin(r)
  PROVE TypeInv'
<1> DEFINE s == tx[r].session
           st == tx[r].student
<1>1. tx[r] \in Tx /\ s \in Session /\ st \in Student /\ Disciplines(st, s) # {}
  BY DEF TypeInv, CommitJoin, Sound
<1>2. tx[r].count \in Nat /\ waitlist' = [waitlist EXCEPT ![s][st] = tx[r].count]
  BY <1>1 DEF Tx, CommitJoin
<1>3. waitlist' \in [Session -> [Student -> Nat]]
  BY <1>1, <1>2 DEF TypeInv, DbOK
<1>4. ASSUME NEW x \in Session, NEW y \in Student, waitlist'[x][y] # 0
      PROVE Disciplines(y, x) # {}
  <2>1. CASE x = s /\ y = st
    BY <2>1, <1>1
  <2>2. CASE ~(x = s /\ y = st)
    BY <2>2, <1>1, <1>2, <1>4 DEF TypeInv, DbOK, QueueOK
  <2> QED BY <2>1, <2>2
<1>5. DbOK' /\ RowsStay
  BY <1>3, <1>4 DEF CommitJoin, TypeInv, DbOK, QueueOK, RowsStay
<1> QED BY <1>5, ReleaseType DEF CommitJoin

LEMMA BeginSessionCancelType ==
  ASSUME TypeInv, NEW r \in Request, NEW s \in Session, BeginSessionCancel(r, s)
  PROVE TypeInv'
<1> DEFINE t == [IdleTx EXCEPT !.pc = "collect", !.session = s]
<1>1. t \in Tx
  BY IdleTxType DEF Tx, Step
<1>2. Sound(t)
  BY DEF IdleTx, Sound
<1>3. tx' = [tx EXCEPT ![r] = t] /\ UNCHANGED <<db, env>>
  BY DEF BeginSessionCancel
<1>4. LocksOK'
  BY DEF BeginSessionCancel, TypeInv, LocksOK, db
<1> QED BY <1>1, <1>2, <1>3, <1>4, TxStep, DbUnchanged

LEMMA CollectBookedType ==
  ASSUME TypeInv, NEW r \in Request, CollectBooked(r)
  PROVE TypeInv'
<1> DEFINE B == BookedIn(bookings, {tx[r].session})
           t == [tx[r] EXCEPT !.pc = "reaccess", !.pending = B]
<1>1. tx[r] \in Tx /\ Sound(tx[r]) /\ tx[r].pc = "collect"
  BY DEF TypeInv, CollectBooked
<1>2. B \subseteq BookingId /\ \A b \in B : bookings[b] # Absent
  BY DEF BookedIn, IsBooked, Absent
<1>3. t \in Tx
  BY <1>1, <1>2 DEF Tx, Step
<1>4. Sound(t)
  BY <1>1, <1>2 DEF Sound, Tx
<1>5. tx' = [tx EXCEPT ![r] = t] /\ UNCHANGED <<db, locks, env>>
  BY DEF CollectBooked, TypeInv
<1> QED BY <1>3, <1>4, <1>5, TxStep, DbUnchanged, LocksUnchanged

LEMMA ReaccessBookingType ==
  ASSUME TypeInv, NEW r \in Request, NEW b \in BookingId, ReaccessBooking(r, b)
  PROVE TypeInv'
<1> DEFINE t == [tx[r] EXCEPT !.pending = tx[r].pending \ {b}]
<1>1. tx[r] \in Tx /\ Sound(tx[r]) /\ b \in tx[r].pending
  BY DEF TypeInv, ReaccessBooking, NextPending
<1>2. t \in Tx
  BY <1>1 DEF Tx
<1>3. Sound(t)
  BY <1>1 DEF Sound, Tx
<1>4. tx' = [tx EXCEPT ![r] = t] /\ UNCHANGED <<db, env>>
  BY DEF ReaccessBooking, TypeInv
<1>5. LocksOK'
  BY <1>1 DEF ReaccessBooking, TypeInv, LocksOK, Sound, db
<1> QED BY <1>2, <1>3, <1>4, <1>5, TxStep, DbUnchanged

LEMMA CommitSessionCancelType ==
  ASSUME TypeInv, NEW r \in Request, CommitSessionCancel(r)
  PROVE TypeInv'
<1>1. \A b \in {x \in BookingId : bookingLock[x] = r} : bookings[b] # Absent
  BY DEF TypeInv, LocksOK
<1>2. bookings' \in Tables /\ RowsStay
  BY <1>1, WithStatusType DEF CommitSessionCancel, BookingStatus
<1>3. DbOK'
  BY <1>2 DEF CommitSessionCancel, TypeInv, DbOK, QueueOK, SessionStatus
<1> QED BY <1>2, <1>3, ReleaseType DEF CommitSessionCancel

LEMMA BeginSweepType ==
  ASSUME TypeInv, NEW r \in Request, BeginSweep(r)
  PROVE TypeInv'
<1> DEFINE t == [IdleTx EXCEPT !.pc = "sweep", !.sweep = EndedSessions]
<1>1. t \in Tx
  BY IdleTxType DEF Tx, Step, EndedSessions
<1>2. Sound(t)
  BY DEF IdleTx, Sound
<1>3. tx' = [tx EXCEPT ![r] = t] /\ UNCHANGED <<db, locks, env>>
  BY DEF BeginSweep
<1> QED BY <1>1, <1>2, <1>3, TxStep, DbUnchanged, LocksUnchanged

LEMMA SweepSessionType ==
  ASSUME TypeInv, NEW r \in Request, NEW s \in Session, SweepSession(r, s)
  PROVE TypeInv'
<1> DEFINE B == BookedIn(bookings, {s})
           t == [tx[r] EXCEPT !.pc = "visit", !.session = s, !.pending = B]
<1>1. tx[r] \in Tx /\ Sound(tx[r]) /\ tx[r].pc = "sweep"
  BY DEF TypeInv, SweepSession
<1>2. B \subseteq BookingId /\ \A b \in B : bookings[b] # Absent
  BY DEF BookedIn, IsBooked, Absent
<1>3. t \in Tx
  BY <1>1, <1>2 DEF Tx, Step
<1>4. Sound(t)
  BY <1>1, <1>2 DEF Sound, Tx
<1>5. tx' = [tx EXCEPT ![r] = t] /\ UNCHANGED <<db, locks, env>>
  BY DEF SweepSession, TypeInv
<1> QED BY <1>3, <1>4, <1>5, TxStep, DbUnchanged, LocksUnchanged

LEMMA VisitBookingType ==
  ASSUME TypeInv, NEW r \in Request, NEW b \in BookingId, VisitBooking(r, b)
  PROVE TypeInv'
<1> DEFINE t == [tx[r] EXCEPT !.pending = tx[r].pending \ {b}]
<1>1. tx[r] \in Tx /\ Sound(tx[r]) /\ b \in tx[r].pending
  BY DEF TypeInv, VisitBooking, NextPending
<1>2. t \in Tx
  BY <1>1 DEF Tx
<1>3. Sound(t)
  BY <1>1 DEF Sound, Tx
<1>4. tx' = [tx EXCEPT ![r] = t] /\ UNCHANGED <<locks, env>>
  BY DEF VisitBooking, TypeInv
<1>5. bookings' \in Tables /\ RowsStay
  <2> DEFINE B == {b}
  <2>1. bookings' = WithStatus(B, "VISITED") /\ "VISITED" \in BookingStatus
    BY DEF VisitBooking, BookingStatus
  <2>2. \A c \in B : bookings[c] # Absent
    BY <1>1 DEF Sound
  <2> HIDE DEF B
  <2> QED BY <2>1, <2>2, WithStatusType
<1>6. DbOK'
  BY <1>5 DEF VisitBooking, TypeInv, DbOK, QueueOK
<1> QED BY <1>2, <1>3, <1>4, <1>5, <1>6, TxStep, LocksUnchanged

LEMMA CloseSessionType ==
  ASSUME TypeInv, NEW r \in Request, CloseSession(r)
  PROVE TypeInv'
<1> DEFINE left == tx[r].sweep \ {tx[r].session}
           t == IF left = {} THEN IdleTx ELSE [IdleTx EXCEPT !.pc = "sweep", !.sweep = left]
<1>1. tx[r] \in Tx
  BY DEF TypeInv
<1>2. t \in Tx
  <2>1. left \in SUBSET Session
    BY <1>1 DEF Tx
  <2>2. [IdleTx EXCEPT !.pc = "sweep", !.sweep = left] \in Tx
    BY <2>1, IdleTxType DEF Tx, Step
  <2> QED BY <2>2, IdleTxType
<1>3. Sound(t)
  BY DEF IdleTx, Sound
<1>4. tx' = [tx EXCEPT ![r] = t] /\ UNCHANGED <<locks, env>>
  BY DEF CloseSession
<1>5. DbOK' /\ RowsStay
  BY DEF CloseSession, TypeInv, DbOK, QueueOK, SessionStatus, RowsStay
<1> QED BY <1>2, <1>3, <1>4, <1>5, TxStep, LocksUnchanged

LEMMA DeadlockVictimType ==
  ASSUME TypeInv, NEW r \in Request, DeadlockVictim(r)
  PROVE TypeInv'
<1>1. tx[r] \in Tx /\ Sound(tx[r]) /\ UNCHANGED <<db, env>>
  BY DEF TypeInv, DeadlockVictim
<1>2. CASE /\ tx[r].pc = "lock"
           /\ tx[r].attempt < MaxAttempts
           /\ sessionLock' = SessionsReleased(r)
           /\ tx' = [tx EXCEPT ![r].pc = "read", ![r].attempt = @ + 1]
           /\ UNCHANGED bookingLock
  <2> DEFINE t == [tx[r] EXCEPT !.pc = "read", !.attempt = tx[r].attempt + 1]
  <2>1. t \in Tx
    <3>1. tx[r].attempt + 1 \in 1..MaxAttempts
      BY <1>1, <1>2 DEF Tx
    <3> QED BY <1>1, <3>1 DEF Tx, Step
  <2>2. Sound(t)
    BY <1>1, <1>2 DEF Sound, Tx
  <2>3. tx' = [tx EXCEPT ![r] = t]
    BY <1>2 DEF TypeInv
  <2>4. LocksOK'
    BY <1>1, <1>2 DEF TypeInv, LocksOK, SessionsReleased, db
  <2> QED BY <1>1, <2>1, <2>2, <2>3, <2>4, TxStep, DbUnchanged
<1>3. CASE tx[r].pc = "lock" /\ GiveUp(r)
  BY <1>1, <1>3, GiveUpType
<1>4. CASE tx[r].pc = "reaccess" /\ Release(r)
  BY <1>1, <1>4, ReleaseType, DbUnchanged
<1> QED BY <1>2, <1>3, <1>4 DEF DeadlockVictim

LEMMA EnvironmentType ==
  ASSUME TypeInv,
         \/ Tick
         \/ \E r \in Request : Crash(r)
         \/ \E s \in Session, new \in SessionEdits : EditSession(s, new)
  PROVE TypeInv'
<1>1. CASE Tick
  <2>1. DbOK' /\ RowsStay
    BY <1>1, DbUnchanged DEF Tick
  <2>2. LocksOK'
    BY <1>1, <2>1, LocksUnchanged DEF Tick
  <2>3. \A r \in Request : Sound(tx[r])'
    BY <1>1 DEF Tick, TypeInv, Sound, db
  <2> QED BY <1>1, <2>1, <2>2, <2>3 DEF Tick, TypeInv
<1>2. ASSUME NEW r \in Request, Crash(r) PROVE TypeInv'
  <2>1. DbOK' /\ RowsStay /\ LocksOK'
    BY <1>2, DbUnchanged DEF Crash, TypeInv, LocksOK, Release, SessionsReleased,
       BookingsReleased, RowsStay
  <2>2. \A q \in Request : tx'[q] = IF q = r THEN IdleTx ELSE tx[q]
    BY <1>2 DEF Crash, Release, TypeInv
  <2>3. \A q \in Request : Sound(tx[q])'
    BY <1>2, <2>2, IdleTxType DEF Crash, TypeInv, Sound, db
  <2> QED BY <1>2, <2>1, <2>3, IdleTxType DEF Crash, Release, TypeInv
<1>3. ASSUME NEW s \in Session, NEW new \in SessionEdits, EditSession(s, new) PROVE TypeInv'
  <2>1. DbOK' /\ RowsStay
    BY <1>3 DEF EditSession, TypeInv, DbOK, QueueOK, RowsStay
  <2>2. LocksOK'
    BY <1>3, <2>1, LocksUnchanged DEF EditSession
  <2>3. \A r \in Request : Sound(tx[r])'
    BY <1>3 DEF EditSession, TypeInv, Sound
  <2> QED BY <1>3, <2>1, <2>2, <2>3 DEF EditSession, TypeInv, env
<1> QED BY <1>1, <1>2, <1>3

LEMMA TypeStep == TypeInv /\ [Next]_vars => TypeInv'
<1> SUFFICES ASSUME TypeInv, [Next]_vars PROVE TypeInv'
  OBVIOUS
<1>1. CASE UNCHANGED vars
  BY <1>1 DEF vars, TypeInv, DbOK, LocksOK, QueueOK, Sound
<1>2. ASSUME NEW r \in Request, Begin(r) PROVE TypeInv'
  <2>1. CASE \E st \in Student, s \in Session, d \in Discipline, reg \in Registration :
               BeginCreate(r, st, s, d, reg)
    BY <2>1, BeginCreateType
  <2>2. CASE \E b \in BookingId, byStaff \in BOOLEAN : BeginCancel(r, b, byStaff)
    BY <2>2, BeginCancelType
  <2>3. CASE \E b \in BookingId, new \in StaffStatuses : BeginStatus(r, b, new)
    BY <2>3, BeginStatusType
  <2>4. CASE \E st \in Student, s \in Session : BeginJoin(r, st, s)
    BY <2>4, BeginJoinType
  <2>5. CASE \E s \in Session : BeginSessionCancel(r, s)
    BY <2>5, BeginSessionCancelType
  <2> QED BY <1>2, <2>1, <2>2, <2>3, <2>4, <2>5 DEF Begin
<1>3. ASSUME NEW r \in Request, Proceed(r) PROVE TypeInv'
  <2>1. CASE ReadSession(r) \/ LockSession(r) \/ Admit(r) \/ InsertBooking(r)
    BY <2>1, ReadSessionType, LockSessionType, AdmitType, InsertBookingType
  <2>2. CASE Refuse(r)
    BY <2>2, GiveUpType DEF Refuse, Locked
  <2>3. CASE Promote(r) \/ Settle(r) \/ ApplyStatus(r) \/ CommitJoin(r)
    BY <2>3, PromoteType, SettleType, ApplyStatusType, CommitJoinType
  <2>4. CASE CollectBooked(r) \/ CommitSessionCancel(r) \/ CloseSession(r) \/ DeadlockVictim(r)
    BY <2>4, CollectBookedType, CommitSessionCancelType, CloseSessionType, DeadlockVictimType
  <2>5. CASE \E b \in BookingId : ReaccessBooking(r, b) \/ VisitBooking(r, b)
    BY <2>5, ReaccessBookingType, VisitBookingType
  <2>6. CASE \E s \in Session : SweepSession(r, s)
    BY <2>6, SweepSessionType
  <2> QED BY <1>3, <2>1, <2>2, <2>3, <2>4, <2>5, <2>6 DEF Proceed
<1> QED BY <1>1, <1>2, <1>3, BeginSweepType, EnvironmentType DEF Next

LEMMA InitType == Init => TypeInv
<1> SUFFICES ASSUME Init PROVE TypeInv
  OBVIOUS
<1>1. DbOK
  BY DEF Init, DbOK, SessionStatus, Tables, QueueOK
<1>2. LocksOK
  BY DEF Init, LocksOK
<1>3. tx \in [Request -> Tx] /\ \A r \in Request : Sound(tx[r])
  BY IdleTxType DEF Init, Sound, IdleTx
<1> QED BY <1>1, <1>2, <1>3 DEF Init, TypeInv

(* Whatever calls arrive and however they interleave, crash or deadlock,     *)
(* every row, lock and transaction record keeps its type.                    *)
THEOREM TypeCorrect == Spec => []TypeOK
<1>1. TypeInv => TypeOK
  BY DEF TypeInv, TypeOK, DbOK, LocksOK
<1> QED BY <1>1, InitType, TypeStep, PTL DEF Spec

-------------------------------------------------------------------------------
(* BookingService implements the SeatLedger, however requests interleave.    *)
(* The argument: a request about to insert holds every slot its checks       *)
(* counted, so nobody can have taken a seat there since; and a request that  *)
(* cancels holds the cancelled row, so the row is still BOOKED when it ends. *)

HasSeat(table, s) ==
  /\ ~SessionFull(table, s)
  /\ ~LabWorkCapacityWouldBeExceeded(table, s)
  /\ ~RoomCapacityWouldBeExceeded(table, s)

(* A seat for a booking of this kind, as the checks under the locks see it.  *)
Fits(table, registration, s) ==
  /\ ~StandBlocked(table, s)
  /\ registration = "AUTO" => HasSeat(table, s)

(* What request r has secured so far.                                        *)
Held(r) ==
  /\ tx[r].row # None => bookingLock[tx[r].row] = r
  /\ tx[r].row # None /\ tx[r].pc # "status" => IsBooked(bookings, tx[r].row)
  /\ tx[r].pc = "status" => tx[r].seen # "BOOKED"
  /\ tx[r].pc = "insert" =>
       /\ \A s \in BookingLockIds(tx[r].session) : sessionLock[s] = r
       /\ Fits(View(r), tx[r].registration, tx[r].session)

SeatInv == \A r \in Request : Held(r)

(* A step of r leaves alone what other requests hold, and books seats only   *)
(* in slots r holds.                                                         *)
OthersUndisturbed(r) ==
  /\ \A q \in Request \ {r} : tx'[q] = tx[q]
  /\ \A s \in Session : sessionLock[s] \notin {None, r} => sessionLock'[s] = sessionLock[s]
  /\ \A b \in BookingId : bookingLock[b] \notin {None, r} =>
       bookingLock'[b] = bookingLock[b] /\ bookings'[b] = bookings[b]
  /\ \A b \in BookingId : IsBooked(bookings', b) /\ bookings'[b] # bookings[b] =>
       sessionLock[bookings'[b].session] = r

-------------------------------------------------------------------------------
(* Counting                                                                  *)

LEMMA LockIds ==
  ASSUME NEW s \in Session
  PROVE /\ {s} \subseteq BookingLockIds(s)
        /\ OverlappingRoomSessions(s) \subseteq BookingLockIds(s)
        /\ OverlappingSameLabWorkSessions(s) \subseteq BookingLockIds(s)
        /\ OverlappingStandSessions(s) \subseteq BookingLockIds(s)
        /\ BookingLockIds(s) \subseteq Session
BY DEF BookingLockIds, OverlappingRoomSessions, OverlappingSameLabWorkSessions,
   OverlappingStandSessions

(* The seats taken are finitely many, and counted by a natural number.       *)
LEMMA BookedInFinite ==
  ASSUME NEW table, NEW S
  PROVE /\ IsFiniteSet(BookedIn(table, S))
        /\ Cardinality(BookedIn(table, S)) \in Nat
<1>1. BookedIn(table, S) \subseteq BookingId
  BY DEF BookedIn
<1>2. IsFiniteSet(BookedIn(table, S))
  BY <1>1, FS_Subset
<1> QED BY <1>2, FS_CardinalityType

(* A table with no new bookings in the slots that count for s has room for   *)
(* whatever had room before.                                                 *)
LEMMA FitsStays ==
  ASSUME NEW T, NEW U, NEW s \in Session, NEW registration, Fits(T, registration, s),
         \A b \in BookingId : IsBooked(U, b) /\ U[b].session \in BookingLockIds(s) => U[b] = T[b]
  PROVE Fits(U, registration, s)
<1>1. ASSUME NEW S, S \subseteq BookingLockIds(s)
      PROVE /\ BookedIn(U, S) \subseteq BookedIn(T, S)
            /\ Cardinality(BookedIn(U, S)) <= Cardinality(BookedIn(T, S))
  <2>1. BookedIn(U, S) \subseteq BookedIn(T, S)
    BY <1>1 DEF BookedIn, IsBooked
  <2> QED BY <2>1, BookedInFinite, FS_Subset
<1>2. ~StandBlocked(U, s)
  BY LockIds DEF Fits, StandBlocked, IsBooked
<1>3. ASSUME HasSeat(T, s) PROVE HasSeat(U, s)
  <2> DEFINE room == OverlappingRoomSessions(s)
             lab == OverlappingSameLabWorkSessions(s)
  <2> HIDE DEF room, lab
  <2>1. /\ Capacity[s] \in Nat
        /\ LabWorkCapacity[LabWorkOf[s]] \in Nat
        /\ RoomCapacity[RoomOf[s]] \in Nat
    OBVIOUS
  <2>2. ~SessionFull(U, s)
    <3>1. Cardinality(BookedIn(U, {s})) <= Cardinality(BookedIn(T, {s}))
      BY <1>1, LockIds
    <3>2. Cardinality(BookedIn(U, {s})) \in Nat /\ Cardinality(BookedIn(T, {s})) \in Nat
      BY BookedInFinite
    <3>3. ~(Cardinality(BookedIn(T, {s})) >= Capacity[s])
      BY <1>3 DEF HasSeat, SessionFull
    <3> QED BY <3>1, <3>2, <3>3, <2>1 DEF SessionFull
  <2>3. ~LabWorkCapacityWouldBeExceeded(U, s)
    <3>1. Cardinality(BookedIn(U, lab)) <= Cardinality(BookedIn(T, lab))
      BY <1>1, LockIds DEF lab
    <3>2. Cardinality(BookedIn(U, lab)) \in Nat /\ Cardinality(BookedIn(T, lab)) \in Nat
      BY BookedInFinite
    <3>3. ~(Cardinality(BookedIn(T, lab)) + 1 > LabWorkCapacity[LabWorkOf[s]])
      BY <1>3 DEF HasSeat, LabWorkCapacityWouldBeExceeded, lab
    <3>4. ~(Cardinality(BookedIn(U, lab)) + 1 > LabWorkCapacity[LabWorkOf[s]])
      BY <3>1, <3>2, <3>3, <2>1
    <3> QED BY <3>4 DEF LabWorkCapacityWouldBeExceeded, lab
  <2>4. ~RoomCapacityWouldBeExceeded(U, s)
    <3>1. /\ Cardinality(BookedIn(U, room)) <= Cardinality(BookedIn(T, room))
          /\ BookedIn(U, room \ {s}) \subseteq BookedIn(T, room \ {s})
      BY <1>1, LockIds DEF room
    <3>2. Cardinality(BookedIn(U, room)) \in Nat /\ Cardinality(BookedIn(T, room)) \in Nat
      BY BookedInFinite
    <3>3. \/ BookedIn(T, room \ {s}) = {}
          \/ ~(Cardinality(BookedIn(T, room)) + 1 > RoomCapacity[RoomOf[s]])
      BY <1>3 DEF HasSeat, RoomCapacityWouldBeExceeded, room
    <3>4. \/ BookedIn(U, room \ {s}) = {}
          \/ ~(Cardinality(BookedIn(U, room)) + 1 > RoomCapacity[RoomOf[s]])
      <4>1. CASE BookedIn(T, room \ {s}) = {}
        BY <4>1, <3>1
      <4>2. CASE ~(Cardinality(BookedIn(T, room)) + 1 > RoomCapacity[RoomOf[s]])
        <5>1. ~(Cardinality(BookedIn(U, room)) + 1 > RoomCapacity[RoomOf[s]])
          BY <4>2, <3>1, <3>2, <2>1
        <5> QED BY <5>1
      <4> QED BY <3>3, <4>1, <4>2
    <3> QED BY <3>4 DEF RoomCapacityWouldBeExceeded, room
  <2> QED BY <2>2, <2>3, <2>4 DEF HasSeat
<1> QED BY <1>2, <1>3 DEF Fits

LEMMA SameCardinality == \A S : Ledger!Cardinality(S) = Cardinality(S)
<1> TAKE S
<1>1. Ledger!Cardinality(S) = Cardinality(S)
  BY Zenon DEF Ledger!Cardinality, Cardinality
<1> QED BY <1>1

LEMMA SameRules ==
  ASSUME NEW table, NEW s \in Session
  PROVE /\ Ledger!HasSeat(table, s) <=> HasSeat(table, s)
        /\ Ledger!StandBlocked(table, s) <=> StandBlocked(table, s)
        /\ \A b : Ledger!IsBooked(table, b) <=> IsBooked(table, b)
<1>1. \A b : Ledger!IsBooked(table, b) <=> IsBooked(table, b)
  BY DEF Ledger!IsBooked, IsBooked
<1>2. \A S : Ledger!BookedIn(table, S) = BookedIn(table, S)
  BY DEF Ledger!BookedIn, BookedIn, Ledger!IsBooked, IsBooked
<1>3. /\ Ledger!OverlappingRoomSessions(s) = OverlappingRoomSessions(s)
      /\ Ledger!OverlappingSameLabWorkSessions(s) = OverlappingSameLabWorkSessions(s)
      /\ Ledger!OverlappingStandSessions(s) = OverlappingStandSessions(s)
  BY DEF Ledger!OverlappingRoomSessions, OverlappingRoomSessions,
     Ledger!OverlappingSameLabWorkSessions, OverlappingSameLabWorkSessions,
     Ledger!OverlappingStandSessions, OverlappingStandSessions,
     Ledger!SameStand, SameStand, Ledger!Overlap, Overlap
<1>4. Ledger!HasSeat(table, s) <=> HasSeat(table, s)
  BY <1>2, <1>3, SameCardinality DEF Ledger!HasSeat, HasSeat, Ledger!SessionFull, SessionFull,
     Ledger!LabWorkCapacityWouldBeExceeded, LabWorkCapacityWouldBeExceeded,
     Ledger!RoomCapacityWouldBeExceeded, RoomCapacityWouldBeExceeded
<1>5. Ledger!StandBlocked(table, s) <=> StandBlocked(table, s)
  BY <1>1, <1>3 DEF Ledger!StandBlocked, StandBlocked
<1> QED BY <1>1, <1>4, <1>5

-------------------------------------------------------------------------------
(* What a request has secured stays secured                                  *)

(* The rows as request r sees them: its own cancellation, else as committed. *)
LEMMA ViewRows ==
  ASSUME TypeInv, NEW r \in Request, NEW b \in BookingId
  PROVE /\ tx[r].row # b => View(r)[b] = bookings[b]
        /\ tx[r].row = b => ~IsBooked(View(r), b)
<1>1. tx[r] \in Tx /\ Sound(tx[r]) /\ bookings \in Tables
  BY DEF TypeInv, DbOK
<1>2. CASE tx[r].row = None
  BY <1>2 DEF View
<1>3. CASE tx[r].row # None
  <2> DEFINE c == tx[r].row
  <2>1. c \in BookingId /\ bookings[c] \in BookingRow
    BY <1>1, <1>3 DEF Sound, Tx, Tables
  <2>2. View(r) = [bookings EXCEPT ![c] = [bookings[c] EXCEPT !.status = "CANCELLED"]]
    BY <1>3 DEF View
  <2>3. [bookings[c] EXCEPT !.status = "CANCELLED"].status = "CANCELLED"
    BY <2>1 DEF BookingRow
  <2>4. View(r)[c] = [bookings[c] EXCEPT !.status = "CANCELLED"]
    BY <1>1, <2>1, <2>2 DEF Tables
  <2>5. \A x \in BookingId : x # c => View(r)[x] = bookings[x]
    BY <1>1, <2>1, <2>2 DEF Tables
  <2> QED BY <2>3, <2>4, <2>5 DEF IsBooked
<1> QED BY <1>2, <1>3

(* The same after a step.                                                    *)
LEMMA ViewRowsNext ==
  ASSUME TypeInv', NEW r \in Request, NEW b \in BookingId
  PROVE /\ tx'[r].row # b => View(r)'[b] = bookings'[b]
        /\ tx'[r].row = b => ~IsBooked(View(r)', b)
<1>1. tx'[r] \in Tx /\ Sound(tx[r])' /\ bookings' \in Tables
  BY DEF TypeInv, DbOK
<1>2. CASE tx'[r].row = None
  BY <1>2 DEF View
<1>3. CASE tx'[r].row # None
  <2> DEFINE c == tx'[r].row
  <2>1. c \in BookingId /\ bookings'[c] \in BookingRow
    BY <1>1, <1>3 DEF Sound, Tx, Tables
  <2>2. View(r)' = [bookings' EXCEPT ![c] = [bookings'[c] EXCEPT !.status = "CANCELLED"]]
    BY <1>3 DEF View
  <2>3. [bookings'[c] EXCEPT !.status = "CANCELLED"].status = "CANCELLED"
    BY <2>1 DEF BookingRow
  <2>4. View(r)'[c] = [bookings'[c] EXCEPT !.status = "CANCELLED"]
    BY <1>1, <2>1, <2>2 DEF Tables
  <2>5. \A x \in BookingId : x # c => View(r)'[x] = bookings'[x]
    BY <1>1, <2>1, <2>2 DEF Tables
  <2> QED BY <2>3, <2>4, <2>5 DEF IsBooked
<1> QED BY <1>2, <1>3

LEMMA OthersHeld ==
  ASSUME TypeInv, TypeInv', SeatInv, NEW r \in Request, OthersUndisturbed(r),
         NEW q \in Request, q # r
  PROVE Held(q)'
<1>1. /\ tx'[q] = tx[q] /\ tx[q] \in Tx /\ Sound(tx[q]) /\ Held(q)
      /\ q # None /\ bookings \in Tables
  BY DEF OthersUndisturbed, TypeInv, DbOK, SeatInv
<1>2. \A b \in BookingId : bookingLock[b] = q => bookingLock'[b] = q /\ bookings'[b] = bookings[b]
  BY <1>1 DEF OthersUndisturbed
<1>3. tx[q].row # None => tx[q].row \in BookingId
  BY <1>1 DEF Tx
<1>4. ASSUME tx[q].pc = "insert"
      PROVE /\ \A s \in BookingLockIds(tx[q].session) : sessionLock'[s] = q
            /\ Fits(View(q)', tx[q].registration, tx[q].session)
  <2>1. tx[q].session \in Session
    BY <1>1, <1>4 DEF Sound
  <2>2. \A s \in BookingLockIds(tx[q].session) : s \in Session /\ sessionLock[s] = q
    BY <1>1, <1>4, <2>1, LockIds DEF Held
  <2>3. \A s \in BookingLockIds(tx[q].session) : sessionLock'[s] = q
    BY <1>1, <2>2 DEF OthersUndisturbed
  <2>4. ASSUME NEW b \in BookingId, IsBooked(View(q)', b),
               View(q)'[b].session \in BookingLockIds(tx[q].session)
        PROVE View(q)'[b] = View(q)[b]
    <3>1. /\ tx'[q].row # b => View(q)'[b] = bookings'[b]
          /\ tx'[q].row = b => ~IsBooked(View(q)', b)
      BY ViewRowsNext
    <3>2. tx[q].row # b /\ View(q)'[b] = bookings'[b] /\ View(q)[b] = bookings[b]
      BY <1>1, <2>4, <3>1, ViewRows
    <3>3. IsBooked(bookings', b) /\ bookings'[b].session \in BookingLockIds(tx[q].session)
      BY <2>4, <3>2 DEF IsBooked
    <3>4. sessionLock[bookings'[b].session] = q
      BY <2>2, <3>3
    <3>5. bookings'[b] = bookings[b]
      BY <3>3, <3>4 DEF OthersUndisturbed
    <3> QED BY <3>2, <3>5
  <2>5. Fits(View(q), tx[q].registration, tx[q].session)
    BY <1>1, <1>4 DEF Held
  <2> QED BY <2>1, <2>3, <2>4, <2>5, FitsStays
<1> QED BY <1>1, <1>2, <1>3, <1>4 DEF Held, IsBooked

-------------------------------------------------------------------------------
(* Every action of a request                                                 *)

LEMMA NothingTaken ==
  ASSUME NEW r \in Request, tx'[r].row = None, tx'[r].pc \notin {"status", "insert"}
  PROVE Held(r)'
BY DEF Held

LEMMA RowKept ==
  ASSUME TypeInv, SeatInv, NEW r \in Request, tx'[r].row = tx[r].row,
         tx[r].pc # "status", tx'[r].pc \notin {"status", "insert"},
         \A b \in BookingId : bookingLock[b] = r =>
           bookingLock'[b] = r /\ bookings'[b] = bookings[b]
  PROVE Held(r)'
<1>1. Held(r) /\ (tx[r].row # None => tx[r].row \in BookingId)
  BY DEF SeatInv, TypeInv, Tx
<1> QED BY <1>1 DEF Held, IsBooked

LEMMA QuietStep ==
  ASSUME TypeInv, NEW r \in Request, NEW t, tx' = [tx EXCEPT ![r] = t], UNCHANGED bookings,
         \A s \in Session : sessionLock[s] \notin {None, r} => sessionLock'[s] = sessionLock[s],
         \A b \in BookingId : bookingLock[b] \notin {None, r} => bookingLock'[b] = bookingLock[b]
  PROVE OthersUndisturbed(r) /\ tx'[r] = t
BY DEF OthersUndisturbed, TypeInv

LEMMA ReleaseStep ==
  ASSUME TypeInv, NEW r \in Request, Release(r),
         \A b \in BookingId : bookingLock[b] \notin {None, r} => bookings'[b] = bookings[b],
         \A b \in BookingId : IsBooked(bookings', b) /\ bookings'[b] # bookings[b] =>
           sessionLock[bookings'[b].session] = r
  PROVE OthersUndisturbed(r) /\ Held(r)'
<1>1. tx'[r] = IdleTx /\ \A q \in Request \ {r} : tx'[q] = tx[q]
  BY DEF Release, TypeInv
<1>2. Held(r)'
  BY <1>1, NothingTaken DEF IdleTx
<1>3. /\ \A s \in Session : sessionLock[s] \notin {None, r} => sessionLock'[s] = sessionLock[s]
      /\ \A b \in BookingId : bookingLock[b] \notin {None, r} => bookingLock'[b] = bookingLock[b]
  BY DEF Release, SessionsReleased, BookingsReleased
<1> QED BY <1>1, <1>2, <1>3 DEF OthersUndisturbed

LEMMA CreateStep ==
  ASSUME TypeInv, SeatInv, NEW r \in Request, NEW st \in Student, NEW s \in Session,
         NEW d \in Discipline, NEW reg \in Registration, BeginCreate(r, st, s, d, reg)
  PROVE OthersUndisturbed(r) /\ Held(r)'
<1> DEFINE t == [IdleTx EXCEPT !.pc = "read", !.student = st, !.session = s,
                               !.discipline = d, !.registration = reg]
<1>1. tx' = [tx EXCEPT ![r] = t] /\ UNCHANGED <<db, locks>>
  BY DEF BeginCreate
<1>2. OthersUndisturbed(r) /\ tx'[r] = t
  BY <1>1, QuietStep DEF db, locks
<1>3. t.row = None /\ t.pc = "read"
  BY DEF IdleTx
<1> QED BY <1>2, <1>3, NothingTaken

LEMMA ReadStep ==
  ASSUME TypeInv, SeatInv, NEW r \in Request, ReadSession(r)
  PROVE OthersUndisturbed(r) /\ Held(r)'
<1> DEFINE t == [tx[r] EXCEPT !.pc = "lock", !.seen = sessionStatus[tx[r].session]]
<1>1. tx' = [tx EXCEPT ![r] = t] /\ UNCHANGED <<db, locks>> /\ tx[r] \in Tx /\ tx[r].pc = "read"
  BY DEF ReadSession, TypeInv
<1>2. OthersUndisturbed(r) /\ tx'[r] = t
  BY <1>1, QuietStep DEF db, locks
<1>3. t.row = tx[r].row /\ t.pc = "lock"
  BY <1>1 DEF Tx
<1> QED BY <1>1, <1>2, <1>3, RowKept DEF db, locks

LEMMA LockStep ==
  ASSUME TypeInv, SeatInv, NEW r \in Request, LockSession(r)
  PROVE OthersUndisturbed(r) /\ Held(r)'
<1>1. UNCHANGED <<tx, bookings, bookingLock>> /\ tx[r].pc = "lock"
  BY DEF LockSession, db
<1>2. OthersUndisturbed(r)
  BY <1>1 DEF LockSession, OthersUndisturbed, TypeInv, LocksOK
<1> QED BY <1>1, <1>2, RowKept

(* The checks of create_booking, made with every lock in hand.               *)
LEMMA AdmitStep ==
  ASSUME TypeInv, SeatInv, NEW r \in Request, Admit(r)
  PROVE OthersUndisturbed(r) /\ Held(r)'
<1> DEFINE t == [tx[r] EXCEPT !.pc = "insert"]
<1>1. /\ tx' = [tx EXCEPT ![r] = t] /\ UNCHANGED <<db, locks>>
      /\ tx[r] \in Tx /\ tx[r].pc = "lock" /\ Held(r)
  BY DEF Admit, Locked, TypeInv, SeatInv
<1>2. OthersUndisturbed(r) /\ tx'[r] = t
  BY <1>1, QuietStep DEF db, locks
<1>3. t.row = tx[r].row /\ t.pc = "insert" /\ t.session = tx[r].session
      /\ t.registration = tx[r].registration
  BY <1>1 DEF Tx
<1>4. \A s \in BookingLockIds(tx[r].session) : sessionLock[s] = r
  BY DEF Admit, Locked, MissingLocks
<1>5. Fits(View(r), tx[r].registration, tx[r].session)
  BY DEF Admit, MayBook, Fits, HasSeat
<1>6. View(r)' = View(r)
  BY <1>1, <1>2, <1>3 DEF View, db
<1> QED BY <1>1, <1>2, <1>3, <1>4, <1>5, <1>6 DEF Held, locks, db, IsBooked

LEMMA GiveUpStep ==
  ASSUME TypeInv, SeatInv, NEW r \in Request, tx[r].pc = "lock", GiveUp(r), UNCHANGED db
  PROVE OthersUndisturbed(r) /\ Held(r)'
<1>1. CASE Release(r)
  BY <1>1, ReleaseStep DEF db
<1>2. CASE /\ sessionLock' = SessionsReleased(r)
           /\ tx' = [tx EXCEPT ![r].pc = "settle"]
           /\ UNCHANGED bookingLock
  <2> DEFINE t == [tx[r] EXCEPT !.pc = "settle"]
  <2>1. tx' = [tx EXCEPT ![r] = t] /\ tx[r] \in Tx
    BY <1>2 DEF TypeInv
  <2>2. OthersUndisturbed(r) /\ tx'[r] = t
    BY <1>2, <2>1, QuietStep DEF db, SessionsReleased
  <2>3. t.row = tx[r].row /\ t.pc = "settle"
    BY <2>1 DEF Tx
  <2> QED BY <1>2, <2>2, <2>3, RowKept DEF db
<1> QED BY <1>1, <1>2 DEF GiveUp

(* The new booking goes to a slot r holds; the row it replaces is r's own.   *)
LEMMA InsertStep ==
  ASSUME TypeInv, SeatInv, NEW r \in Request, InsertBooking(r)
  PROVE OthersUndisturbed(r) /\ Held(r)'
<1>1. /\ tx[r] \in Tx /\ Sound(tx[r]) /\ tx[r].pc = "insert" /\ Held(r)
      /\ tx[r].session \in Session
  BY DEF InsertBooking, TypeInv, SeatInv, Sound
<1>2. PICK b \in BookingId : bookings[b] = Absent /\ bookings' = [View(r) EXCEPT ![b] = NewBooking(r)]
  BY DEF InsertBooking, Unused
<1>3. /\ bookings'[b] = NewBooking(r)
      /\ \A c \in BookingId : c # b => bookings'[c] = View(r)[c]
  BY <1>2, ViewType DEF Tables
<1>4. ASSUME NEW c \in BookingId, bookingLock[c] \notin {None, r}
      PROVE bookings'[c] = bookings[c]
  <2>1. c # tx[r].row
    BY <1>1, <1>4 DEF Held
  <2>2. c # b
    BY <1>2, <1>4 DEF TypeInv, LocksOK
  <2> QED BY <1>3, <2>1, <2>2, ViewRows
<1>5. ASSUME NEW c \in BookingId, IsBooked(bookings', c), bookings'[c] # bookings[c]
      PROVE sessionLock[bookings'[c].session] = r
  <2>1. c = b
    BY <1>3, <1>5, ViewRows DEF IsBooked
  <2>2. bookings'[c].session = tx[r].session
    BY <1>3, <2>1 DEF NewBooking
  <2> QED BY <1>1, <2>2, LockIds DEF Held
<1> QED BY <1>4, <1>5, ReleaseStep DEF InsertBooking

LEMMA CancelStep ==
  ASSUME TypeInv, SeatInv, NEW r \in Request, NEW b \in BookingId, NEW byStaff \in BOOLEAN,
         BeginCancel(r, b, byStaff)
  PROVE OthersUndisturbed(r) /\ Held(r)'
<1> DEFINE t == [IdleTx EXCEPT !.pc = "promote", !.row = b, !.session = bookings[b].session]
<1>1. /\ tx' = [tx EXCEPT ![r] = t] /\ UNCHANGED <<db, sessionLock>>
      /\ bookingLock[b] = None /\ bookingLock' = [bookingLock EXCEPT ![b] = r]
      /\ IsBooked(bookings, b)
  BY DEF BeginCancel, CancelAllowed
<1>2. OthersUndisturbed(r) /\ tx'[r] = t
  BY <1>1, QuietStep DEF db, TypeInv, LocksOK
<1>3. t.row = b /\ t.pc = "promote"
  BY DEF IdleTx
<1>4. bookingLock'[b] = r
  BY <1>1 DEF TypeInv, LocksOK
<1> QED BY <1>1, <1>2, <1>3, <1>4 DEF Held, db, IsBooked

LEMMA PromoteStep ==
  ASSUME TypeInv, SeatInv, NEW r \in Request, Promote(r)
  PROVE OthersUndisturbed(r) /\ Held(r)'
<1>1. UNCHANGED <<db, locks>> /\ tx[r] \in Tx /\ tx[r].pc = "promote"
  BY DEF Promote, TypeInv
<1>2. PICK t : /\ tx' = [tx EXCEPT ![r] = t]
               /\ t.row = tx[r].row /\ t.pc \in {"settle", "read"}
  <2>1. CASE tx' = [tx EXCEPT ![r].pc = "settle"]
    <3> DEFINE t == [tx[r] EXCEPT !.pc = "settle"]
    <3>1. tx' = [tx EXCEPT ![r] = t] /\ t.row = tx[r].row /\ t.pc = "settle"
      BY <1>1, <2>1 DEF TypeInv, Tx
    <3> QED BY <3>1
  <2>2. ASSUME NEW st \in Heads(tx[r].session),
               tx' = [tx EXCEPT ![r].pc = "read", ![r].student = st,
                                ![r].discipline = DefaultDiscipline(st, tx[r].session)]
        PROVE \E t : /\ tx' = [tx EXCEPT ![r] = t]
                     /\ t.row = tx[r].row /\ t.pc \in {"settle", "read"}
    <3> DEFINE t == [tx[r] EXCEPT !.pc = "read", !.student = st,
                                  !.discipline = DefaultDiscipline(st, tx[r].session)]
    <3>1. tx' = [tx EXCEPT ![r] = t] /\ t.row = tx[r].row /\ t.pc = "read"
      BY <1>1, <2>2 DEF TypeInv, Tx
    <3> QED BY <3>1
  <2> QED BY <2>1, <2>2 DEF Promote
<1>3. OthersUndisturbed(r) /\ tx'[r] = t
  BY <1>1, <1>2, QuietStep DEF db, locks
<1> QED BY <1>1, <1>2, <1>3, RowKept DEF db, locks

LEMMA SettleStep ==
  ASSUME TypeInv, SeatInv, NEW r \in Request, Settle(r)
  PROVE OthersUndisturbed(r) /\ Held(r)'
<1>1. Held(r) /\ bookings' = View(r) /\ Release(r)
  BY DEF Settle, SeatInv
<1>2. ASSUME NEW c \in BookingId, bookingLock[c] \notin {None, r}
      PROVE bookings'[c] = bookings[c]
  BY <1>1, <1>2, ViewRows DEF Held
<1>3. ASSUME NEW c \in BookingId, IsBooked(bookings', c)
      PROVE bookings'[c] = bookings[c]
  BY <1>1, <1>3, ViewRows
<1> QED BY <1>1, <1>2, <1>3, ReleaseStep

LEMMA StatusBeginStep ==
  ASSUME StaffNeverRebooks, TypeInv, SeatInv, NEW r \in Request, NEW b \in BookingId,
         NEW new \in StaffStatuses, BeginStatus(r, b, new)
  PROVE OthersUndisturbed(r) /\ Held(r)'
<1> DEFINE t == [IdleTx EXCEPT !.pc = "status", !.row = b, !.seen = new,
                               !.count = noShows[bookings[b].student]]
<1>1. /\ tx' = [tx EXCEPT ![r] = t] /\ UNCHANGED <<db, sessionLock>>
      /\ bookingLock[b] = None /\ bookingLock' = [bookingLock EXCEPT ![b] = r]
  BY DEF BeginStatus
<1>2. OthersUndisturbed(r) /\ tx'[r] = t
  BY <1>1, QuietStep DEF db, TypeInv, LocksOK
<1>3. t.row = b /\ t.pc = "status" /\ t.seen = new
  BY DEF IdleTx
<1>4. bookingLock'[b] = r
  BY <1>1 DEF TypeInv, LocksOK
<1> QED BY <1>2, <1>3, <1>4 DEF Held, StaffNeverRebooks

(* Rows given a final status: those that were not locked by others.          *)
LEMMA FinalStatus ==
  ASSUME TypeInv, NEW B, NEW new \in BookingStatus, new # "BOOKED",
         bookings' = WithStatus(B, new), \A b \in B : b \in BookingId /\ bookings[b] # Absent
  PROVE /\ \A b \in BookingId : b \notin B => bookings'[b] = bookings[b]
        /\ \A b \in BookingId : IsBooked(bookings', b) => bookings'[b] = bookings[b]
<1>1. ASSUME NEW b \in BookingId, b \in B PROVE ~IsBooked(bookings', b)
  <2>1. bookings[b] \in BookingRow
    BY <1>1 DEF TypeInv, DbOK, Tables
  <2>2. bookings'[b] = [bookings[b] EXCEPT !.status = new]
    BY <1>1 DEF WithStatus
  <2>3. bookings'[b].status = new
    BY <2>1, <2>2 DEF BookingRow
  <2> QED BY <2>3 DEF IsBooked
<1>2. ASSUME NEW b \in BookingId, b \notin B PROVE bookings'[b] = bookings[b]
  BY <1>2 DEF WithStatus
<1> QED BY <1>1, <1>2

LEMMA StatusStep ==
  ASSUME TypeInv, SeatInv, NEW r \in Request, ApplyStatus(r)
  PROVE OthersUndisturbed(r) /\ Held(r)'
<1> DEFINE B == {tx[r].row}
<1>1. /\ Held(r) /\ Release(r) /\ bookings' = WithStatus(B, tx[r].seen)
      /\ tx[r].seen \in BookingStatus /\ tx[r].seen # "BOOKED"
      /\ tx[r].row # None
      /\ \A b \in B : b \in BookingId /\ bookings[b] # Absent
  BY DEF ApplyStatus, SeatInv, TypeInv, Sound, Held
<1>2. \A b \in BookingId : bookingLock[b] \notin {None, r} => b \notin B
  BY <1>1 DEF Held
<1> HIDE DEF B
<1>3. /\ \A b \in BookingId : b \notin B => bookings'[b] = bookings[b]
      /\ \A b \in BookingId : IsBooked(bookings', b) => bookings'[b] = bookings[b]
  BY <1>1, FinalStatus
<1> QED BY <1>1, <1>2, <1>3, ReleaseStep

LEMMA JoinSteps ==
  ASSUME TypeInv, SeatInv, NEW r \in Request,
         CommitJoin(r) \/ \E st \in Student, s \in Session : BeginJoin(r, st, s)
  PROVE OthersUndisturbed(r) /\ Held(r)'
<1>1. CASE CommitJoin(r)
  BY <1>1, ReleaseStep DEF CommitJoin
<1>2. ASSUME NEW st \in Student, NEW s \in Session, BeginJoin(r, st, s)
      PROVE OthersUndisturbed(r) /\ Held(r)'
  <2> DEFINE t == [IdleTx EXCEPT !.pc = "join", !.student = st, !.session = s,
                                 !.count = Cardinality(Entries(s)) + 1]
  <2>1. /\ tx' = [tx EXCEPT ![r] = t] /\ UNCHANGED <<db, bookingLock>>
        /\ sessionLock[s] = None /\ sessionLock' = [sessionLock EXCEPT ![s] = r]
    BY <1>2 DEF BeginJoin
  <2>2. OthersUndisturbed(r) /\ tx'[r] = t
    BY <2>1, QuietStep DEF db, TypeInv, LocksOK
  <2>3. t.row = None /\ t.pc = "join"
    BY DEF IdleTx
  <2> QED BY <2>2, <2>3, NothingTaken
<1> QED BY <1>1, <1>2

LEMMA SessionCancelSteps ==
  ASSUME TypeInv, SeatInv, NEW r \in Request,
         CollectBooked(r) \/ \E s \in Session : BeginSessionCancel(r, s)
  PROVE OthersUndisturbed(r) /\ Held(r)'
<1>1. CASE CollectBooked(r)
  <2> DEFINE t == [tx[r] EXCEPT !.pc = "reaccess",
                                !.pending = BookedIn(bookings, {tx[r].session})]
  <2>1. tx' = [tx EXCEPT ![r] = t] /\ UNCHANGED <<db, locks>> /\ tx[r] \in Tx
        /\ tx[r].pc = "collect"
    BY <1>1 DEF CollectBooked, TypeInv
  <2>2. OthersUndisturbed(r) /\ tx'[r] = t
    BY <2>1, QuietStep DEF db, locks
  <2>3. t.row = tx[r].row /\ t.pc = "reaccess"
    BY <2>1 DEF Tx
  <2> QED BY <2>1, <2>2, <2>3, RowKept DEF db, locks
<1>2. ASSUME NEW s \in Session, BeginSessionCancel(r, s)
      PROVE OthersUndisturbed(r) /\ Held(r)'
  <2> DEFINE t == [IdleTx EXCEPT !.pc = "collect", !.session = s]
  <2>1. /\ tx' = [tx EXCEPT ![r] = t] /\ UNCHANGED <<db, bookingLock>>
        /\ sessionLock[s] = None /\ sessionLock' = [sessionLock EXCEPT ![s] = r]
    BY <1>2 DEF BeginSessionCancel
  <2>2. OthersUndisturbed(r) /\ tx'[r] = t
    BY <2>1, QuietStep DEF db, TypeInv, LocksOK
  <2>3. t.row = None /\ t.pc = "collect"
    BY DEF IdleTx
  <2> QED BY <2>2, <2>3, NothingTaken
<1> QED BY <1>1, <1>2

LEMMA ReaccessStep ==
  ASSUME TypeInv, SeatInv, NEW r \in Request, NEW b \in BookingId, ReaccessBooking(r, b)
  PROVE OthersUndisturbed(r) /\ Held(r)'
<1> DEFINE t == [tx[r] EXCEPT !.pending = tx[r].pending \ {b}]
<1>1. /\ tx' = [tx EXCEPT ![r] = t] /\ UNCHANGED <<db, sessionLock>>
      /\ tx[r] \in Tx /\ tx[r].pc = "reaccess"
      /\ bookingLock[b] = None /\ bookingLock' = [bookingLock EXCEPT ![b] = r]
  BY DEF ReaccessBooking, TypeInv
<1>2. OthersUndisturbed(r) /\ tx'[r] = t
  BY <1>1, QuietStep DEF db, TypeInv, LocksOK
<1>3. t.row = tx[r].row /\ t.pc = "reaccess"
  BY <1>1 DEF Tx
<1>4. \A c \in BookingId : bookingLock[c] = r => bookingLock'[c] = r
  BY <1>1 DEF TypeInv, LocksOK
<1> QED BY <1>1, <1>2, <1>3, <1>4, RowKept DEF db

LEMMA SessionCancelStep ==
  ASSUME TypeInv, SeatInv, NEW r \in Request, CommitSessionCancel(r)
  PROVE OthersUndisturbed(r) /\ Held(r)'
<1> DEFINE B == {b \in BookingId : bookingLock[b] = r}
<1>1. /\ Release(r) /\ bookings' = WithStatus(B, "REACCESS")
      /\ \A b \in B : b \in BookingId /\ bookings[b] # Absent
      /\ \A b \in BookingId : bookingLock[b] \notin {None, r} => b \notin B
  BY DEF CommitSessionCancel, TypeInv, LocksOK
<1>2. "REACCESS" \in BookingStatus /\ "REACCESS" # "BOOKED"
  BY DEF BookingStatus
<1> HIDE DEF B
<1>3. /\ \A b \in BookingId : b \notin B => bookings'[b] = bookings[b]
      /\ \A b \in BookingId : IsBooked(bookings', b) => bookings'[b] = bookings[b]
  BY <1>1, <1>2, FinalStatus
<1> QED BY <1>1, <1>3, ReleaseStep

LEMMA SweepSteps ==
  ASSUME TypeInv, SeatInv, NEW r \in Request,
         \/ BeginSweep(r)
         \/ \E s \in Session : SweepSession(r, s)
         \/ CloseSession(r)
  PROVE OthersUndisturbed(r) /\ Held(r)'
<1>1. CASE BeginSweep(r)
  <2> DEFINE t == [IdleTx EXCEPT !.pc = "sweep", !.sweep = EndedSessions]
  <2>1. tx' = [tx EXCEPT ![r] = t] /\ UNCHANGED <<db, locks>>
    BY <1>1 DEF BeginSweep
  <2>2. OthersUndisturbed(r) /\ tx'[r] = t
    BY <2>1, QuietStep DEF db, locks
  <2>3. t.row = None /\ t.pc = "sweep"
    BY DEF IdleTx
  <2> QED BY <2>2, <2>3, NothingTaken
<1>2. ASSUME NEW s \in Session, SweepSession(r, s)
      PROVE OthersUndisturbed(r) /\ Held(r)'
  <2> DEFINE t == [tx[r] EXCEPT !.pc = "visit", !.session = s,
                                !.pending = BookedIn(bookings, {s})]
  <2>1. tx' = [tx EXCEPT ![r] = t] /\ UNCHANGED <<db, locks>> /\ tx[r] \in Tx
        /\ tx[r].pc = "sweep"
    BY <1>2 DEF SweepSession, TypeInv
  <2>2. OthersUndisturbed(r) /\ tx'[r] = t
    BY <2>1, QuietStep DEF db, locks
  <2>3. t.row = tx[r].row /\ t.pc = "visit"
    BY <2>1 DEF Tx
  <2> QED BY <2>1, <2>2, <2>3, RowKept DEF db, locks
<1>3. CASE CloseSession(r)
  <2> DEFINE left == tx[r].sweep \ {tx[r].session}
             t == IF left = {} THEN IdleTx ELSE [IdleTx EXCEPT !.pc = "sweep", !.sweep = left]
  <2>1. tx' = [tx EXCEPT ![r] = t] /\ UNCHANGED <<bookings, locks>>
    BY <1>3 DEF CloseSession
  <2>2. OthersUndisturbed(r) /\ tx'[r] = t
    BY <2>1, QuietStep DEF locks
  <2>3. t.row = None /\ t.pc \in {"idle", "sweep"}
    BY DEF IdleTx
  <2> QED BY <2>2, <2>3, NothingTaken
<1> QED BY <1>1, <1>2, <1>3

(* mark_visited writes only rows nobody has locked.                          *)
LEMMA VisitStep ==
  ASSUME TypeInv, SeatInv, NEW r \in Request, NEW b \in BookingId, VisitBooking(r, b)
  PROVE OthersUndisturbed(r) /\ Held(r)'
<1> DEFINE t == [tx[r] EXCEPT !.pending = tx[r].pending \ {b}]
           B == {b}
<1>1. /\ tx' = [tx EXCEPT ![r] = t] /\ UNCHANGED locks
      /\ tx[r] \in Tx /\ tx[r].pc = "visit"
      /\ bookingLock[b] = None
  BY DEF VisitBooking, TypeInv
<1>2. /\ bookings' = WithStatus(B, "VISITED")
      /\ \A c \in B : c \in BookingId /\ bookings[c] # Absent
  BY DEF VisitBooking, NextPending, TypeInv, Sound
<1>3. "VISITED" \in BookingStatus /\ "VISITED" # "BOOKED"
  BY DEF BookingStatus
<1>4. \A c \in BookingId : bookingLock[c] # None => c \notin B
  BY <1>1
<1> HIDE DEF B
<1>5. /\ \A c \in BookingId : c \notin B => bookings'[c] = bookings[c]
      /\ \A c \in BookingId : IsBooked(bookings', c) => bookings'[c] = bookings[c]
  BY <1>2, <1>3, FinalStatus
<1>6. /\ \A q \in Request \ {r} : tx'[q] = tx[q]
      /\ tx'[r] = t
  BY <1>1 DEF TypeInv
<1>7. t.row = tx[r].row /\ t.pc = "visit"
  BY <1>1 DEF Tx
<1>8. OthersUndisturbed(r)
  BY <1>1, <1>4, <1>5, <1>6 DEF OthersUndisturbed, locks
<1>9. \A c \in BookingId : bookingLock[c] = r => bookingLock'[c] = r /\ bookings'[c] = bookings[c]
  BY <1>1, <1>4, <1>5 DEF locks
<1> QED BY <1>1, <1>6, <1>7, <1>8, <1>9, RowKept

LEMMA AbortSteps ==
  ASSUME TypeInv, SeatInv, NEW r \in Request, Crash(r) \/ DeadlockVictim(r)
  PROVE OthersUndisturbed(r) /\ Held(r)'
<1>1. CASE Crash(r)
  BY <1>1, ReleaseStep DEF Crash, db
<1>2. CASE DeadlockVictim(r)
  <2>1. UNCHANGED db
    BY <1>2 DEF DeadlockVictim
  <2>2. CASE tx[r].pc = "lock" /\ GiveUp(r)
    BY <2>1, <2>2, GiveUpStep
  <2>3. CASE Release(r)
    BY <2>1, <2>3, ReleaseStep DEF db
  <2>4. CASE /\ tx[r].pc = "lock"
             /\ sessionLock' = SessionsReleased(r)
             /\ tx' = [tx EXCEPT ![r].pc = "read", ![r].attempt = @ + 1]
             /\ UNCHANGED bookingLock
    <3> DEFINE t == [tx[r] EXCEPT !.pc = "read", !.attempt = tx[r].attempt + 1]
    <3>1. tx' = [tx EXCEPT ![r] = t] /\ tx[r] \in Tx
      BY <2>4 DEF TypeInv
    <3>2. OthersUndisturbed(r) /\ tx'[r] = t
      BY <2>1, <2>4, <3>1, QuietStep DEF db, SessionsReleased
    <3>3. t.row = tx[r].row /\ t.pc = "read"
      BY <3>1 DEF Tx
    <3> QED BY <2>1, <2>4, <3>2, <3>3, RowKept DEF db
  <2> QED BY <1>2, <2>2, <2>3, <2>4 DEF DeadlockVictim
<1> QED BY <1>1, <1>2

-------------------------------------------------------------------------------
(* The invariant                                                             *)

LEMMA RequestStep ==
  ASSUME StaffNeverRebooks, TypeInv, SeatInv, NEW r \in Request,
         Begin(r) \/ BeginSweep(r) \/ Proceed(r) \/ Crash(r)
  PROVE OthersUndisturbed(r) /\ Held(r)'
<1>1. CASE Begin(r)
  <2>1. CASE \E st \in Student, s \in Session, d \in Discipline, reg \in Registration :
               BeginCreate(r, st, s, d, reg)
    BY <2>1, CreateStep
  <2>2. CASE \E b \in BookingId, byStaff \in BOOLEAN : BeginCancel(r, b, byStaff)
    BY <2>2, CancelStep
  <2>3. CASE \E b \in BookingId, new \in StaffStatuses : BeginStatus(r, b, new)
    BY <2>3, StatusBeginStep
  <2>4. CASE \E st \in Student, s \in Session : BeginJoin(r, st, s)
    BY <2>4, JoinSteps
  <2>5. CASE \E s \in Session : BeginSessionCancel(r, s)
    BY <2>5, SessionCancelSteps
  <2> QED BY <1>1, <2>1, <2>2, <2>3, <2>4, <2>5 DEF Begin
<1>2. CASE BeginSweep(r)
  BY <1>2, SweepSteps
<1>3. CASE Proceed(r)
  <2>1. CASE ReadSession(r) \/ LockSession(r) \/ Admit(r) \/ InsertBooking(r)
    BY <2>1, ReadStep, LockStep, AdmitStep, InsertStep
  <2>2. CASE Refuse(r)
    BY <2>2, GiveUpStep DEF Refuse, Locked
  <2>3. CASE Promote(r) \/ Settle(r) \/ ApplyStatus(r) \/ CommitJoin(r)
    BY <2>3, PromoteStep, SettleStep, StatusStep, JoinSteps
  <2>4. CASE CollectBooked(r) \/ CommitSessionCancel(r) \/ CloseSession(r) \/ DeadlockVictim(r)
    BY <2>4, SessionCancelSteps, SessionCancelStep, SweepSteps, AbortSteps
  <2>5. CASE \E b \in BookingId : ReaccessBooking(r, b) \/ VisitBooking(r, b)
    BY <2>5, ReaccessStep, VisitStep
  <2>6. CASE \E s \in Session : SweepSession(r, s)
    BY <2>6, SweepSteps
  <2> QED BY <1>3, <2>1, <2>2, <2>3, <2>4, <2>5, <2>6 DEF Proceed
<1>4. CASE Crash(r)
  BY <1>4, AbortSteps
<1> QED BY <1>1, <1>2, <1>3, <1>4

LEMMA SeatStep ==
  StaffNeverRebooks /\ TypeInv /\ TypeInv' /\ SeatInv /\ [Next]_vars => SeatInv'
<1> SUFFICES ASSUME StaffNeverRebooks, TypeInv, TypeInv', SeatInv, [Next]_vars
             PROVE SeatInv'
  OBVIOUS
<1>1. ASSUME NEW r \in Request, Begin(r) \/ BeginSweep(r) \/ Proceed(r) \/ Crash(r)
      PROVE SeatInv'
  BY <1>1, RequestStep, OthersHeld DEF SeatInv
<1>2. ASSUME UNCHANGED <<bookings, sessionLock, bookingLock, tx>>
      PROVE SeatInv'
  BY <1>2 DEF SeatInv, Held, View, IsBooked
<1>3. CASE Tick \/ (\E s \in Session, new \in SessionEdits : EditSession(s, new)) \/ UNCHANGED vars
  BY <1>2, <1>3 DEF Tick, EditSession, vars, locks, db
<1> QED BY <1>1, <1>3 DEF Next

LEMMA SeatInvariant ==
  ASSUME StaffNeverRebooks
  PROVE Spec => [](TypeInv /\ SeatInv)
<1>1. Init => TypeInv /\ SeatInv
  BY InitType DEF Init, SeatInv, Held, IdleTx
<1>2. TypeInv /\ SeatInv /\ [Next]_vars => TypeInv' /\ SeatInv'
  BY TypeStep, SeatStep
<1> QED BY <1>1, <1>2, PTL DEF Spec

-------------------------------------------------------------------------------
(* Refinement                                                                *)

LEMMA GivenUpIsWithStatus ==
  ASSUME NEW B, NEW new PROVE Ledger!GivenUp(B, new) = WithStatus(B, new)
BY DEF Ledger!GivenUp, WithStatus

(* Rows that exist get a final status: a step of the ledger.                 *)
LEMMA GivingUp ==
  ASSUME NEW B, NEW new \in BookingStatus, new # "BOOKED", bookings' = WithStatus(B, new),
         \A b \in B : b \in BookingId /\ bookings[b] # Absent
  PROVE Ledger!Next
<1>1. B \in SUBSET {b \in BookingId : bookings[b] # Ledger!Absent}
  BY DEF Ledger!Absent, Absent
<1>2. new \in Ledger!BookingStatus \ {"BOOKED"}
  BY DEF Ledger!BookingStatus, BookingStatus
<1>3. bookings' = Ledger!GivenUp(B, new)
  BY GivenUpIsWithStatus
<1> QED BY <1>1, <1>2, <1>3 DEF Ledger!Next, Ledger!GiveUpSeats

LEMMA ViewIsWithStatus ==
  ASSUME TypeInv, NEW r \in Request, NEW B,
         B = IF tx[r].row = None THEN {} ELSE {tx[r].row}
  PROVE View(r) = WithStatus(B, "CANCELLED")
<1>1. bookings \in Tables
  BY DEF TypeInv, DbOK
<1>2. CASE tx[r].row = None
  BY <1>1, <1>2 DEF View, WithStatus, Tables
<1>3. CASE tx[r].row # None
  BY <1>1, <1>3 DEF View, WithStatus, Tables
<1> QED BY <1>2, <1>3

(* A commit of a booking is one admission of the ledger: what the checks saw *)
(* is what the table holds.                                                  *)
LEMMA Admission ==
  ASSUME TypeInv, SeatInv, NEW r \in Request, InsertBooking(r)
  PROVE Ledger!Next
<1>1. /\ tx[r] \in Tx /\ Sound(tx[r]) /\ tx[r].pc = "insert" /\ Held(r)
      /\ tx[r].session \in Session
  BY DEF InsertBooking, TypeInv, SeatInv, Sound
<1>2. PICK b \in BookingId : bookings[b] = Absent /\ bookings' = [View(r) EXCEPT ![b] = NewBooking(r)]
  BY DEF InsertBooking, Unused
<1> DEFINE freed == IF tx[r].row = None THEN {} ELSE {tx[r].row}
           table == Ledger!GivenUp(freed, "CANCELLED")
<1>3. freed \in SUBSET {c \in BookingId : Ledger!IsBooked(bookings, c)}
  BY <1>1 DEF Held, Tx, IsBooked, Ledger!IsBooked
<1>4. table = View(r)
  BY GivenUpIsWithStatus, ViewIsWithStatus
<1>5. NewBooking(r) \in Ledger!BookingRow
  BY <1>1 DEF NewBooking, Ledger!BookingRow, Ledger!BookingStatus, Ledger!Registration,
     Registration, Sound, Tx
<1>6. NewBooking(r).status = "BOOKED" /\ NewBooking(r).session = tx[r].session
      /\ NewBooking(r).registration = tx[r].registration
  BY DEF NewBooking
<1>7. /\ ~Ledger!StandBlocked(View(r), tx[r].session)
      /\ tx[r].registration = "AUTO" => Ledger!HasSeat(View(r), tx[r].session)
  BY <1>1, SameRules DEF Held, Fits
<1>8. Ledger!Cardinality(freed) <= 1
  <2>1. Cardinality({}) = 0 /\ Cardinality({tx[r].row}) = 1
    BY FS_EmptySet, FS_Singleton
  <2> QED BY <2>1, SameCardinality
<1>9. bookings[b] = Ledger!Absent
  BY <1>2 DEF Absent, Ledger!Absent
<1> HIDE DEF freed
<1> QED BY <1>2, <1>3, <1>4, <1>5, <1>6, <1>7, <1>8, <1>9 DEF Ledger!Next, Ledger!AddBooking

LEMMA LedgerStep ==
  TypeInv /\ SeatInv /\ [Next]_vars => [Ledger!Next]_bookings
<1> SUFFICES ASSUME TypeInv, SeatInv, [Next]_vars PROVE Ledger!Next \/ UNCHANGED bookings
  OBVIOUS
<1>1. ASSUME NEW r \in Request, InsertBooking(r) PROVE Ledger!Next
  BY <1>1, Admission
<1>2. ASSUME NEW r \in Request, Settle(r) PROVE Ledger!Next
  <2> DEFINE B == {tx[r].row}
  <2>1. tx[r].row \in BookingId /\ bookings[tx[r].row] # Absent /\ tx[r].row # None
    BY <1>2 DEF Settle, TypeInv, Sound
  <2>2. bookings' = WithStatus(B, "CANCELLED")
    BY <1>2, <2>1, ViewIsWithStatus DEF Settle
  <2>3. "CANCELLED" \in BookingStatus /\ "CANCELLED" # "BOOKED"
    BY DEF BookingStatus
  <2>4. \A b \in B : b \in BookingId /\ bookings[b] # Absent
    BY <2>1
  <2> HIDE DEF B
  <2> QED BY <2>2, <2>3, <2>4, GivingUp
<1>3. ASSUME NEW r \in Request, ApplyStatus(r) PROVE Ledger!Next
  <2> DEFINE B == {tx[r].row}
  <2>1. /\ bookings' = WithStatus(B, tx[r].seen)
        /\ tx[r].seen \in BookingStatus /\ tx[r].seen # "BOOKED"
        /\ \A b \in B : b \in BookingId /\ bookings[b] # Absent
    BY <1>3 DEF ApplyStatus, SeatInv, TypeInv, Sound, Held
  <2> HIDE DEF B
  <2> QED BY <2>1, GivingUp
<1>4. ASSUME NEW r \in Request, CommitSessionCancel(r) PROVE Ledger!Next
  <2> DEFINE B == {b \in BookingId : bookingLock[b] = r}
  <2>1. /\ bookings' = WithStatus(B, "REACCESS")
        /\ \A b \in B : b \in BookingId /\ bookings[b] # Absent
    BY <1>4 DEF CommitSessionCancel, TypeInv, LocksOK
  <2>2. "REACCESS" \in BookingStatus /\ "REACCESS" # "BOOKED"
    BY DEF BookingStatus
  <2> HIDE DEF B
  <2> QED BY <2>1, <2>2, GivingUp
<1>5. ASSUME NEW r \in Request, NEW b \in BookingId, VisitBooking(r, b) PROVE Ledger!Next
  <2> DEFINE B == {b}
  <2>1. /\ bookings' = WithStatus(B, "VISITED")
        /\ \A c \in B : c \in BookingId /\ bookings[c] # Absent
    BY <1>5 DEF VisitBooking, NextPending, TypeInv, Sound
  <2>2. "VISITED" \in BookingStatus /\ "VISITED" # "BOOKED"
    BY DEF BookingStatus
  <2> HIDE DEF B
  <2> QED BY <2>1, <2>2, GivingUp
<1>6. ASSUME NEW r \in Request, Proceed(r) PROVE Ledger!Next \/ UNCHANGED bookings
  BY <1>1, <1>2, <1>3, <1>4, <1>5, <1>6 DEF Proceed, ReadSession, LockSession, Admit, Refuse,
     Promote, CommitJoin, CollectBooked, ReaccessBooking, SweepSession, CloseSession,
     DeadlockVictim, db
<1>7. ASSUME NEW r \in Request, Begin(r) \/ BeginSweep(r) \/ Crash(r) PROVE UNCHANGED bookings
  BY <1>7 DEF Begin, BeginCreate, BeginCancel, BeginStatus, BeginJoin, BeginSessionCancel,
     BeginSweep, Crash, db
<1>8. CASE Tick \/ (\E s \in Session, new \in SessionEdits : EditSession(s, new)) \/ UNCHANGED vars
  BY <1>8 DEF Tick, EditSession, vars, db
<1> QED BY <1>6, <1>7, <1>8 DEF Next

(* However requests interleave, deadlock, are retried or die, the bookings   *)
(* change as if requests had been served one at a time by the seat ledger,   *)
(* as long as staff never sets a booking back to BOOKED.                     *)
THEOREM ServiceImplementsLedger ==
  ASSUME StaffNeverRebooks
  PROVE Spec => LedgerSpec
<1>1. Init => Ledger!Init
  BY DEF Init, Ledger!Init, Absent, Ledger!Absent
<1>2. TypeInv /\ SeatInv /\ [Next]_vars => [Ledger!Next]_bookings
  BY LedgerStep
<1> QED BY <1>1, <1>2, SeatInvariant, PTL DEF Spec, LedgerSpec, Ledger!Spec

------------------------------------------------------------------------------
(* What follows from the seat ledger: bookings are admitted one at a time,   *)
(* so the limits are proved by counting, with no request or lock in sight.   *)

(* No seat is taken that was not taken before.                               *)
Frees(table, next) ==
  \A b \in BookingId : IsBooked(next, b) => next[b] = table[b]

(* A booking b is added to a table that has room for it.                     *)
Admits(table, b, next) ==
  /\ \A c \in BookingId \ {b} : next[c] = table[c]
  /\ ~IsBooked(table, b)
  /\ next[b] \in BookingRow
  /\ Fits(table, next[b].registration, next[b].session)

(* A step of the ledger, with the rows it gives up taken out first.          *)
LEMMA LedgerMoves ==
  ASSUME bookings \in Tables, [Ledger!Next]_bookings
  PROVE \/ Frees(bookings, bookings')
        \/ \E table : \E b \in BookingId : Frees(bookings, table) /\ Admits(table, b, bookings')
<1>1. CASE UNCHANGED bookings
  BY <1>1 DEF Frees
<1>2. ASSUME NEW B, NEW new, new # "BOOKED", \A b \in B : b \in BookingId /\ bookings[b] # Absent
      PROVE /\ Frees(bookings, WithStatus(B, new))
            /\ \A b \in BookingId : bookings[b] = Absent => WithStatus(B, new)[b] = Absent
  <2> DEFINE next == WithStatus(B, new)
  <2>1. ASSUME NEW b \in BookingId, b \in B PROVE next[b].status = new
    <3>1. bookings[b] \in BookingRow
      BY <1>2, <2>1 DEF Tables
    <3>2. next[b] = [bookings[b] EXCEPT !.status = new]
      BY <2>1 DEF WithStatus
    <3> QED BY <3>1, <3>2 DEF BookingRow
  <2>2. ASSUME NEW b \in BookingId, b \notin B PROVE next[b] = bookings[b]
    BY <2>2 DEF WithStatus
  <2> QED BY <1>2, <2>1, <2>2 DEF Frees, IsBooked
<1>3. CASE Ledger!GiveUpSeats
  <2>1. PICK B \in SUBSET {b \in BookingId : bookings[b] # Absent}, new \in BookingStatus \ {"BOOKED"} :
          bookings' = WithStatus(B, new)
    BY <1>3, GivenUpIsWithStatus DEF Ledger!GiveUpSeats, Ledger!Absent, Absent,
       Ledger!BookingStatus, BookingStatus
  <2> QED BY <1>2, <2>1
<1>4. CASE Ledger!AddBooking
  <2>1. PICK freed \in SUBSET {b \in BookingId : IsBooked(bookings, b)},
             b \in BookingId, row \in BookingRow :
          /\ bookings[b] = Absent
          /\ row.status = "BOOKED"
          /\ ~Ledger!StandBlocked(Ledger!GivenUp(freed, "CANCELLED"), row.session)
          /\ row.registration = "AUTO" =>
               Ledger!HasSeat(Ledger!GivenUp(freed, "CANCELLED"), row.session)
          /\ bookings' = [Ledger!GivenUp(freed, "CANCELLED") EXCEPT ![b] = row]
    BY <1>4 DEF Ledger!AddBooking, Ledger!Absent, Absent, Ledger!IsBooked, IsBooked,
       Ledger!BookingRow, BookingRow, Ledger!BookingStatus, BookingStatus,
       Ledger!Registration, Registration
  <2> DEFINE table == WithStatus(freed, "CANCELLED")
  <2>2. table = Ledger!GivenUp(freed, "CANCELLED")
    BY GivenUpIsWithStatus
  <2>3. \A c \in freed : c \in BookingId /\ bookings[c] # Absent
    BY DEF IsBooked, Absent
  <2>4. Frees(bookings, table) /\ table[b] = Absent
    BY <1>2, <2>1, <2>3
  <2>5. bookings'[b] = row /\ \A c \in BookingId \ {b} : bookings'[c] = table[c]
    BY <2>1, <2>2 DEF WithStatus
  <2>6. row.session \in Session
    BY DEF BookingRow
  <2>7. Fits(table, row.registration, row.session)
    BY <2>1, <2>2, <2>6, SameRules DEF Fits
  <2>8. Admits(table, b, bookings')
    BY <2>4, <2>5, <2>7 DEF Admits, IsBooked, Absent
  <2> QED BY <2>4, <2>8
<1> QED BY <1>1, <1>3, <1>4 DEF Ledger!Next

(* An invariant of the bookings that every step of the ledger keeps holds    *)
(* of the service; so does each theorem below.                               *)
LEMMA StandsStay ==
  ASSUME bookings \in Tables, bookings' \in Tables, StandExclusive, [Ledger!Next]_bookings
  PROVE StandExclusive'
<1>1. CASE Frees(bookings, bookings')
  <2>1. \A b \in BookingId : IsBooked(bookings', b) =>
          IsBooked(bookings, b) /\ bookings'[b] = bookings[b]
    BY <1>1 DEF Frees, IsBooked
  <2> SUFFICES ASSUME NEW b \in BookingId, NEW c \in BookingId,
                      IsBooked(bookings', b), IsBooked(bookings', c),
                      bookings'[c].session \in OverlappingStandSessions(bookings'[b].session)
               PROVE LabWorkOf[bookings'[b].session] = LabWorkOf[bookings'[c].session]
    BY DEF StandExclusive
  <2>2. IsBooked(bookings, b) /\ bookings'[b] = bookings[b]
    BY <2>1
  <2>3. IsBooked(bookings, c) /\ bookings'[c] = bookings[c]
    BY <2>1
  <2> QED BY <2>2, <2>3 DEF StandExclusive
<1>2. ASSUME NEW table, NEW new \in BookingId, Frees(bookings, table), Admits(table, new, bookings')
      PROVE StandExclusive'
  <2> SUFFICES ASSUME NEW b \in BookingId, NEW c \in BookingId,
                      IsBooked(bookings', b), IsBooked(bookings', c),
                      bookings'[c].session \in OverlappingStandSessions(bookings'[b].session)
               PROVE LabWorkOf[bookings'[b].session] = LabWorkOf[bookings'[c].session]
    BY DEF StandExclusive
  <2>1. \A x \in BookingId \ {new} : IsBooked(bookings', x) =>
          IsBooked(table, x) /\ IsBooked(bookings, x)
            /\ bookings'[x] = bookings[x] /\ bookings'[x] = table[x]
    BY <1>2 DEF Admits, Frees, IsBooked
  <2>2. ~StandBlocked(table, bookings'[new].session) /\ bookings'[new].session \in Session
    BY <1>2 DEF Admits, Fits, BookingRow
  <2>3. CASE b # new /\ c # new
    BY <2>1, <2>3 DEF StandExclusive
  <2>4. CASE b = new /\ c # new
    BY <2>1, <2>2, <2>4 DEF StandBlocked
  <2>5. CASE b # new /\ c = new
    <3>1. bookings'[b].session \in Session
      BY DEF Tables, BookingRow, Absent, IsBooked
    <3>2. bookings'[b].session \in OverlappingStandSessions(bookings'[c].session)
      BY <3>1, <2>2, <2>5 DEF OverlappingStandSessions, SameStand, Overlap
    <3> QED BY <2>1, <2>2, <2>5, <3>2 DEF StandBlocked
  <2>6. CASE b = new /\ c = new
    BY <2>6
  <2> QED BY <2>3, <2>4, <2>5, <2>6
<1> QED BY <1>1, <1>2, LedgerMoves

(* No stand ever serves two lab works at the same time.                      *)
THEOREM StandsExclusive ==
  ASSUME StaffNeverRebooks
  PROVE Spec => []StandExclusive
<1>1. Init => StandExclusive
  BY DEF Init, StandExclusive, IsBooked, Absent
<1>2. TypeInv /\ TypeInv' /\ StandExclusive /\ [Ledger!Next]_bookings => StandExclusive'
  BY StandsStay DEF TypeInv, DbOK
<1>3. TypeInv /\ SeatInv /\ [Next]_vars => [Ledger!Next]_bookings
  BY LedgerStep
<1> QED BY <1>1, <1>2, <1>3, SeatInvariant, PTL DEF Spec

-------------------------------------------------------------------------------
(* Counting seats                                                            *)

(* The self-service seats after a step: no new one in S, or one new one, in  *)
(* a slot of S that had a seat for it.                                       *)
LEMMA AutoSeatsMove ==
  ASSUME bookings \in Tables, bookings' \in Tables, [Ledger!Next]_bookings
  PROVE \/ \A S : AutoSeats(S)' \subseteq AutoSeats(S)
        \/ \E table : \E b \in BookingId :
             /\ bookings'[b].session \in Session
             /\ HasSeat(table, bookings'[b].session)
             /\ \A S : AutoSeats(S)' \subseteq BookedIn(table, S) \cup {b}
             /\ \A S : bookings'[b].session \notin S => AutoSeats(S)' \subseteq AutoSeats(S)
<1>1. CASE Frees(bookings, bookings')
  BY <1>1 DEF Frees, AutoSeats, BookedIn, IsBooked
<1>2. ASSUME NEW table, NEW b \in BookingId, Frees(bookings, table), Admits(table, b, bookings')
      PROVE \/ \A S : AutoSeats(S)' \subseteq AutoSeats(S)
            \/ /\ bookings'[b].session \in Session
               /\ HasSeat(table, bookings'[b].session)
               /\ \A S : AutoSeats(S)' \subseteq BookedIn(table, S) \cup {b}
               /\ \A S : bookings'[b].session \notin S => AutoSeats(S)' \subseteq AutoSeats(S)
  <2>1. \A c \in BookingId \ {b} : IsBooked(bookings', c) =>
          /\ IsBooked(table, c) /\ IsBooked(bookings, c)
          /\ bookings'[c] = bookings[c] /\ bookings'[c] = table[c]
    BY <1>2 DEF Admits, Frees, IsBooked
  <2>2. CASE bookings'[b].registration = "AUTO"
    <3>1. bookings'[b].session \in Session /\ HasSeat(table, bookings'[b].session)
      BY <1>2, <2>2 DEF Admits, Fits, BookingRow
    <3>2. \A S : AutoSeats(S)' \subseteq BookedIn(table, S) \cup {b}
      BY <2>1 DEF AutoSeats, BookedIn
    <3>3. \A S : bookings'[b].session \notin S => AutoSeats(S)' \subseteq AutoSeats(S)
      BY <2>1 DEF AutoSeats, BookedIn
    <3> QED BY <3>1, <3>2, <3>3
  <2>3. CASE bookings'[b].registration # "AUTO"
    BY <2>1, <2>3 DEF AutoSeats, BookedIn
  <2> QED BY <2>2, <2>3
<1> QED BY <1>1, <1>2, LedgerMoves

(* Counting is monotone, and one more booking is one more seat.              *)
LEMMA AutoSeatsCount ==
  ASSUME NEW S, NEW T, NEW table, NEW b, T \subseteq BookedIn(table, S) \cup {b}
  PROVE Cardinality(T) <= Cardinality(BookedIn(table, S)) + 1
<1>1. IsFiniteSet(BookedIn(table, S)) /\ Cardinality(BookedIn(table, S)) \in Nat
  BY BookedInFinite
<1>2. /\ IsFiniteSet(BookedIn(table, S) \cup {b})
      /\ Cardinality(BookedIn(table, S) \cup {b}) <= Cardinality(BookedIn(table, S)) + 1
  <2> DEFINE B == BookedIn(table, S)
  <2> HIDE DEF B
  <2>1. /\ IsFiniteSet(B \cup {b})
        /\ Cardinality(B \cup {b}) = IF b \in B THEN Cardinality(B) ELSE Cardinality(B) + 1
    BY <1>1, FS_AddElement DEF B
  <2>2. Cardinality(B) \in Nat
    BY <1>1 DEF B
  <2>3. Cardinality(B \cup {b}) <= Cardinality(B) + 1
    BY <2>1, <2>2
  <2> QED BY <2>1, <2>3 DEF B
<1>3. /\ IsFiniteSet(T)
      /\ Cardinality(T) <= Cardinality(BookedIn(table, S) \cup {b})
  BY <1>2, FS_Subset
<1>4. Cardinality(T) \in Nat /\ Cardinality(BookedIn(table, S) \cup {b}) \in Nat
  BY <1>2, <1>3, FS_CardinalityType
<1> QED BY <1>1, <1>2, <1>3, <1>4

LEMMA AutoSeatsShrink ==
  ASSUME NEW n \in Nat, NEW S, Cardinality(AutoSeats(S)) <= n, AutoSeats(S)' \subseteq AutoSeats(S)
  PROVE Cardinality(AutoSeats(S)') <= n
<1>1. IsFiniteSet(AutoSeats(S))
  BY BookedInFinite, FS_Subset DEF AutoSeats
<1>2. /\ Cardinality(AutoSeats(S)') <= Cardinality(AutoSeats(S))
      /\ IsFiniteSet(AutoSeats(S)')
  BY <1>1, FS_Subset
<1>3. Cardinality(AutoSeats(S)') \in Nat /\ Cardinality(AutoSeats(S)) \in Nat
  BY <1>1, <1>2, FS_CardinalityType
<1> QED BY <1>2, <1>3

LEMMA NobodyInitially ==
  ASSUME Init, NEW S
  PROVE Cardinality(AutoSeats(S)) = 0
<1>1. AutoSeats(S) = {}
  BY DEF Init, AutoSeats, BookedIn, IsBooked, Absent
<1> QED BY <1>1, FS_EmptySet

LEMMA CapacityStays ==
  ASSUME bookings \in Tables, bookings' \in Tables, AutoWithinCapacity, [Ledger!Next]_bookings
  PROVE AutoWithinCapacity'
<1> SUFFICES ASSUME NEW s \in Session PROVE Cardinality(AutoSeats({s})') <= Capacity[s]
  BY DEF AutoWithinCapacity
<1>1. Cardinality(AutoSeats({s})) <= Capacity[s] /\ Capacity[s] \in Nat
  BY DEF AutoWithinCapacity
<1>2. CASE AutoSeats({s})' \subseteq AutoSeats({s})
  BY <1>1, <1>2, AutoSeatsShrink
<1>3. ASSUME NEW table, HasSeat(table, s), NEW b, AutoSeats({s})' \subseteq BookedIn(table, {s}) \cup {b}
      PROVE Cardinality(AutoSeats({s})') <= Capacity[s]
  <2>1. ~(Cardinality(BookedIn(table, {s})) >= Capacity[s])
    BY <1>3 DEF HasSeat, SessionFull
  <2>2. Cardinality(AutoSeats({s})') <= Cardinality(BookedIn(table, {s})) + 1
    BY <1>3, AutoSeatsCount
  <2>3. IsFiniteSet(AutoSeats({s})')
    BY <1>3, BookedInFinite, FS_AddElement, FS_Subset
  <2>4. Cardinality(BookedIn(table, {s})) \in Nat /\ Cardinality(AutoSeats({s})') \in Nat
    BY <2>3, BookedInFinite, FS_CardinalityType
  <2> QED BY <1>1, <2>1, <2>2, <2>4
<1> QED BY <1>2, <1>3, AutoSeatsMove

(* Self-service never sells more seats of a slot than the slot has.          *)
THEOREM CapacityRespected ==
  ASSUME StaffNeverRebooks
  PROVE Spec => []AutoWithinCapacity
<1>1. Init => AutoWithinCapacity
  <2>1. ASSUME Init, NEW s \in Session PROVE Cardinality(AutoSeats({s})) <= Capacity[s]
    <3>1. Cardinality(AutoSeats({s})) = 0
      BY <2>1, NobodyInitially
    <3>2. Capacity[s] \in Nat
      OBVIOUS
    <3> QED BY <3>1, <3>2
  <2> QED BY <2>1 DEF AutoWithinCapacity
<1>2. TypeInv /\ TypeInv' /\ AutoWithinCapacity /\ [Ledger!Next]_bookings => AutoWithinCapacity'
  BY CapacityStays DEF TypeInv, DbOK
<1>3. TypeInv /\ SeatInv /\ [Next]_vars => [Ledger!Next]_bookings
  BY LedgerStep
<1> QED BY <1>1, <1>2, <1>3, SeatInvariant, PTL DEF Spec

-------------------------------------------------------------------------------
(* Rooms and lab works: overlap is not transitive, but slots that run at one *)
(* moment overlap each other, so the check made for the last one booked      *)
(* counted all of them.                                                      *)

LEMMA RoomCount ==
  ASSUME NEW table, NEW s \in Session, HasSeat(table, s)
  PROVE Cardinality(BookedIn(table, OverlappingRoomSessions(s))) + 1 <= RoomCapacity[RoomOf[s]]
<1> DEFINE room == OverlappingRoomSessions(s)
           n == Cardinality(BookedIn(table, room))
<1>1. n \in Nat /\ RoomCapacity[RoomOf[s]] \in Nat /\ Capacity[s] \in Nat
  BY BookedInFinite
<1>2. CASE BookedIn(table, room \ {s}) = {}
  <2>1. BookedIn(table, room) = BookedIn(table, {s})
    BY <1>2 DEF BookedIn, OverlappingRoomSessions, Overlap
  <2>2. ~(n >= Capacity[s])
    BY <2>1 DEF HasSeat, SessionFull
  <2>3. Capacity[s] <= RoomCapacity[RoomOf[s]]
    BY CapacityAssumption
  <2> HIDE DEF n
  <2>4. n + 1 <= RoomCapacity[RoomOf[s]]
    BY <1>1, <2>2, <2>3
  <2> QED BY <2>4 DEF n
<1>3. CASE ~(n + 1 > RoomCapacity[RoomOf[s]])
  <2> HIDE DEF n
  <2>1. n + 1 <= RoomCapacity[RoomOf[s]]
    BY <1>1, <1>3
  <2> QED BY <2>1 DEF n
<1> QED BY <1>2, <1>3 DEF HasSeat, RoomCapacityWouldBeExceeded

LEMMA LabWorkCount ==
  ASSUME NEW table, NEW s \in Session, HasSeat(table, s)
  PROVE Cardinality(BookedIn(table, OverlappingSameLabWorkSessions(s))) + 1
          <= LabWorkCapacity[LabWorkOf[s]]
<1> DEFINE n == Cardinality(BookedIn(table, OverlappingSameLabWorkSessions(s)))
<1>1. n \in Nat /\ LabWorkCapacity[LabWorkOf[s]] \in Nat
  BY BookedInFinite
<1>2. ~(n + 1 > LabWorkCapacity[LabWorkOf[s]])
  BY DEF HasSeat, LabWorkCapacityWouldBeExceeded
<1> HIDE DEF n
<1>3. n + 1 <= LabWorkCapacity[LabWorkOf[s]]
  BY <1>1, <1>2
<1> QED BY <1>3 DEF n

(* All slots running when s starts overlap any one of them.                  *)
LEMMA RunningTogether ==
  ASSUME NEW s \in Session, NEW x \in Session
  PROVE /\ x \in RunningAtStart(OverlappingRoomSessions(s), s) =>
             /\ RoomOf[x] = RoomOf[s]
             /\ RunningAtStart(OverlappingRoomSessions(s), s) \subseteq OverlappingRoomSessions(x)
        /\ x \in RunningAtStart(OverlappingSameLabWorkSessions(s), s) =>
             /\ LabWorkOf[x] = LabWorkOf[s]
             /\ RunningAtStart(OverlappingSameLabWorkSessions(s), s)
                  \subseteq OverlappingSameLabWorkSessions(x)
<1>1. ASSUME NEW t \in Session,
             StartsAt[t] <= StartsAt[s], StartsAt[s] < EndsAt[t],
             StartsAt[x] <= StartsAt[s], StartsAt[s] < EndsAt[x]
      PROVE Overlap(t, x)
  <2>1. /\ StartsAt[t] \in Nat /\ StartsAt[x] \in Nat /\ StartsAt[s] \in Nat
        /\ EndsAt[t] \in Nat /\ EndsAt[x] \in Nat
    OBVIOUS
  <2> QED BY <1>1, <2>1 DEF Overlap
<1>2. x \in RunningAtStart(OverlappingRoomSessions(s), s) =>
        /\ RoomOf[x] = RoomOf[s]
        /\ RunningAtStart(OverlappingRoomSessions(s), s) \subseteq OverlappingRoomSessions(x)
  BY <1>1 DEF RunningAtStart, OverlappingRoomSessions
<1>3. x \in RunningAtStart(OverlappingSameLabWorkSessions(s), s) =>
        /\ LabWorkOf[x] = LabWorkOf[s]
        /\ RunningAtStart(OverlappingSameLabWorkSessions(s), s)
             \subseteq OverlappingSameLabWorkSessions(x)
  BY <1>1 DEF RunningAtStart, OverlappingSameLabWorkSessions
<1> QED BY <1>2, <1>3

(* One more booking in a slot x of S fits if all of S was counted for x.     *)
LEMMA SeatsOfSetStay ==
  ASSUME bookings \in Tables, bookings' \in Tables, [Ledger!Next]_bookings,
         NEW S, NEW n \in Nat, Cardinality(AutoSeats(S)) <= n,
         \A table : \A x \in Session \cap S : HasSeat(table, x) =>
            \E R : S \subseteq R /\ Cardinality(BookedIn(table, R)) + 1 <= n
  PROVE Cardinality(AutoSeats(S)') <= n
<1>1. CASE AutoSeats(S)' \subseteq AutoSeats(S)
  BY <1>1, AutoSeatsShrink
<1>2. ASSUME NEW table, NEW b \in BookingId, bookings'[b].session \in Session \cap S,
             HasSeat(table, bookings'[b].session),
             AutoSeats(S)' \subseteq BookedIn(table, S) \cup {b}
      PROVE Cardinality(AutoSeats(S)') <= n
  <2>1. PICK R : S \subseteq R /\ Cardinality(BookedIn(table, R)) + 1 <= n
    BY <1>2
  <2>2. AutoSeats(S)' \subseteq BookedIn(table, R) \cup {b}
    BY <1>2, <2>1 DEF BookedIn
  <2>3. Cardinality(AutoSeats(S)') <= Cardinality(BookedIn(table, R)) + 1
    BY <2>2, AutoSeatsCount
  <2>4. IsFiniteSet(AutoSeats(S)')
    BY <2>2, BookedInFinite, FS_AddElement, FS_Subset
  <2>5. Cardinality(BookedIn(table, R)) \in Nat /\ Cardinality(AutoSeats(S)') \in Nat
    BY <2>4, BookedInFinite, FS_CardinalityType
  <2> QED BY <2>1, <2>3, <2>5
<1> QED BY <1>1, <1>2, AutoSeatsMove

LEMMA RoomsStay ==
  ASSUME bookings \in Tables, bookings' \in Tables, RoomNeverOverfull, [Ledger!Next]_bookings
  PROVE RoomNeverOverfull'
<1> SUFFICES ASSUME NEW s \in Session
             PROVE Cardinality(AutoSeats(RunningAtStart(OverlappingRoomSessions(s), s))')
                     <= RoomCapacity[RoomOf[s]]
  BY DEF RoomNeverOverfull
<1> DEFINE S == RunningAtStart(OverlappingRoomSessions(s), s)
<1>1. Cardinality(AutoSeats(S)) <= RoomCapacity[RoomOf[s]] /\ RoomCapacity[RoomOf[s]] \in Nat
  BY DEF RoomNeverOverfull
<1>2. ASSUME NEW table, NEW x \in Session \cap S, HasSeat(table, x)
      PROVE \E R : S \subseteq R /\ Cardinality(BookedIn(table, R)) + 1 <= RoomCapacity[RoomOf[s]]
  <2>1. S \subseteq OverlappingRoomSessions(x) /\ RoomOf[x] = RoomOf[s]
    BY RunningTogether
  <2>2. Cardinality(BookedIn(table, OverlappingRoomSessions(x))) + 1 <= RoomCapacity[RoomOf[x]]
    BY <1>2, RoomCount
  <2> QED BY <2>1, <2>2
<1> HIDE DEF S
<1>3. Cardinality(AutoSeats(S)') <= RoomCapacity[RoomOf[s]]
  BY <1>1, <1>2, SeatsOfSetStay
<1> QED BY <1>3 DEF S

LEMMA LabWorksStay ==
  ASSUME bookings \in Tables, bookings' \in Tables, LabWorkNeverOverfull, [Ledger!Next]_bookings
  PROVE LabWorkNeverOverfull'
<1> SUFFICES ASSUME NEW s \in Session
             PROVE Cardinality(AutoSeats(RunningAtStart(OverlappingSameLabWorkSessions(s), s))')
                     <= LabWorkCapacity[LabWorkOf[s]]
  BY DEF LabWorkNeverOverfull
<1> DEFINE S == RunningAtStart(OverlappingSameLabWorkSessions(s), s)
<1>1. Cardinality(AutoSeats(S)) <= LabWorkCapacity[LabWorkOf[s]]
      /\ LabWorkCapacity[LabWorkOf[s]] \in Nat
  BY DEF LabWorkNeverOverfull
<1>2. ASSUME NEW table, NEW x \in Session \cap S, HasSeat(table, x)
      PROVE \E R : S \subseteq R /\ Cardinality(BookedIn(table, R)) + 1 <= LabWorkCapacity[LabWorkOf[s]]
  <2>1. S \subseteq OverlappingSameLabWorkSessions(x) /\ LabWorkOf[x] = LabWorkOf[s]
    BY RunningTogether
  <2>2. Cardinality(BookedIn(table, OverlappingSameLabWorkSessions(x))) + 1
          <= LabWorkCapacity[LabWorkOf[x]]
    BY <1>2, LabWorkCount
  <2> QED BY <2>1, <2>2
<1> HIDE DEF S
<1>3. Cardinality(AutoSeats(S)') <= LabWorkCapacity[LabWorkOf[s]]
  BY <1>1, <1>2, SeatsOfSetStay
<1> QED BY <1>3 DEF S

(* At no moment are more self-service students due in a room than it holds.  *)
THEOREM RoomsRespected ==
  ASSUME StaffNeverRebooks
  PROVE Spec => []RoomNeverOverfull
<1>1. Init => RoomNeverOverfull
  BY NobodyInitially DEF RoomNeverOverfull
<1>2. TypeInv /\ TypeInv' /\ RoomNeverOverfull /\ [Ledger!Next]_bookings => RoomNeverOverfull'
  BY RoomsStay DEF TypeInv, DbOK
<1>3. TypeInv /\ SeatInv /\ [Next]_vars => [Ledger!Next]_bookings
  BY LedgerStep
<1> QED BY <1>1, <1>2, <1>3, SeatInvariant, PTL DEF Spec

(* At no moment are more self-service students due at a lab work, in however *)
(* many rooms it is given, than its own capacity.                            *)
THEOREM LabWorksRespected ==
  ASSUME StaffNeverRebooks
  PROVE Spec => []LabWorkNeverOverfull
<1>1. Init => LabWorkNeverOverfull
  BY NobodyInitially DEF LabWorkNeverOverfull
<1>2. TypeInv /\ TypeInv' /\ LabWorkNeverOverfull /\ [Ledger!Next]_bookings => LabWorkNeverOverfull'
  BY LabWorksStay DEF TypeInv, DbOK
<1>3. TypeInv /\ SeatInv /\ [Next]_vars => [Ledger!Next]_bookings
  BY LedgerStep
<1> QED BY <1>1, <1>2, <1>3, SeatInvariant, PTL DEF Spec

-------------------------------------------------------------------------------
(* What holding a lock gives a request besides its seat: requests that book, *)
(* cancel or queue cannot deadlock among themselves; mark_visited touches    *)
(* bookings of ended sessions only; a cancellation gives up a booked seat of *)
(* the session it promotes into; and a student's own bookings do not clash   *)
(* on a room, a lab work or a stand.                                         *)

-------------------------------------------------------------------------------
(* What a request knows                                                      *)

(* Slots are locked by create_booking in key order, from nothing: those held *)
(* come before those missing.                                                *)
InOrder(r) ==
  /\ tx[r].pc \in {"idle", "read", "promote", "settle", "status", "sweep", "visit"} =>
       \A s \in Session : sessionLock[s] # r
  /\ tx[r].pc = "lock" =>
       \A s \in Session : sessionLock[s] = r => \A t \in MissingLocks(r) : s < t

(* A sweep lists sessions that have ended, and visits bookings of one.       *)
Sweeping(r) ==
  /\ \A s \in tx[r].sweep : EndsAt[s] <= now
  /\ tx[r].pc \in {"sweep", "visit"} => tx[r].row = None
  /\ tx[r].pc = "visit" =>
       /\ tx[r].session \in tx[r].sweep
       /\ \A b \in tx[r].pending : bookings[b].session = tx[r].session

(* A cancellation promotes into the session of the cancelled booking.        *)
Cancelling(r) ==
  tx[r].row # None /\ tx[r].pc # "status" => tx[r].session = bookings[tx[r].row].session

(* Staff sets what its form offers; a place in a queue is never number 0.    *)
ToWrite(r) ==
  /\ tx[r].pc = "status" => tx[r].seen \in StaffStatuses
  /\ tx[r].pc = "join" => tx[r].count # 0

Own(r) == InOrder(r) /\ Sweeping(r) /\ Cancelling(r) /\ ToWrite(r)
OwnInv == \A r \in Request : Own(r)

(* No booking is moved to another session.                                   *)
SessionsStay ==
  \A b \in BookingId : bookings[b] # Absent => bookings'[b].session = bookings[b].session

(* What a step of r leaves to the others.                                    *)
Alone(r) ==
  /\ \A q \in Request \ {r} : tx'[q] = tx[q]
  /\ \A s \in Session : \A q \in Request \ {r} : sessionLock'[s] = q <=> sessionLock[s] = q
  /\ SessionsStay
  /\ now' = now

LEMMA OthersOwn ==
  ASSUME TypeInv, NEW r \in Request, Alone(r), NEW q \in Request, q # r, Own(q)
  PROVE  Own(q)'
<1>1. tx'[q] = tx[q] /\ tx[q] \in Tx /\ Sound(tx[q])
  BY DEF Alone, TypeInv
<1>2. \A s \in Session : sessionLock'[s] = q <=> sessionLock[s] = q
  BY DEF Alone
<1>3. InOrder(q)'
  <2>1. CASE tx[q].pc = "lock"
    <3>1. BookingLockIds(tx[q].session) \subseteq Session
      BY <1>1, <2>1, LockIds DEF Sound
    <3>2. MissingLocks(q)' = MissingLocks(q)
      BY <1>1, <1>2, <3>1 DEF MissingLocks
    <3> QED BY <1>1, <1>2, <2>1, <3>2 DEF Own, InOrder
  <2>2. CASE tx[q].pc # "lock"
    BY <1>1, <1>2, <2>2 DEF Own, InOrder
  <2> QED BY <2>1, <2>2
<1>4. Sweeping(q)'
  <2>1. \A b \in tx[q].pending : b \in BookingId /\ bookings'[b].session = bookings[b].session
    BY <1>1 DEF Alone, SessionsStay, Sound, Tx
  <2> QED BY <1>1, <2>1 DEF Own, Sweeping, Alone
<1>5. Cancelling(q)'
  <2>1. tx[q].row # None => bookings'[tx[q].row].session = bookings[tx[q].row].session
    BY <1>1 DEF Alone, SessionsStay, Sound, Tx
  <2> QED BY <1>1, <2>1 DEF Own, Cancelling
<1>6. ToWrite(q)'
  BY <1>1 DEF Own, ToWrite
<1> QED BY <1>3, <1>4, <1>5, <1>6 DEF Own

-------------------------------------------------------------------------------
(* Every action of a request                                                 *)

LEMMA Ended ==
  ASSUME TypeInv, NEW r \in Request, Release(r), SessionsStay, now' = now
  PROVE  Alone(r) /\ Own(r)'
<1>1. tx'[r] = IdleTx /\ \A q \in Request \ {r} : tx'[q] = tx[q]
  BY DEF Release, TypeInv
<1>2. /\ \A s \in Session : sessionLock'[s] # r
      /\ \A s \in Session : \A q \in Request \ {r} : sessionLock'[s] = q <=> sessionLock[s] = q
  BY DEF Release, SessionsReleased
<1>3. Own(r)'
  BY <1>1, <1>2 DEF Own, InOrder, Sweeping, Cancelling, ToWrite, IdleTx
<1> QED BY <1>1, <1>2, <1>3 DEF Alone

LEMMA GoesOn ==
  ASSUME TypeInv, NEW r \in Request, NEW t, tx' = [tx EXCEPT ![r] = t], SessionsStay, now' = now,
         UNCHANGED sessionLock
  PROVE  Alone(r) /\ tx'[r] = t
BY DEF Alone, TypeInv

LEMMA SameTable ==
  ASSUME UNCHANGED bookings
  PROVE  SessionsStay
BY DEF SessionsStay

LEMMA BegunOwn ==
  ASSUME TypeInv, OwnInv, NEW r \in Request,
         \/ \E st \in Student, s \in Session, d \in Discipline, reg \in Registration :
              BeginCreate(r, st, s, d, reg)
         \/ \E b \in BookingId, byStaff \in BOOLEAN : BeginCancel(r, b, byStaff)
         \/ \E b \in BookingId, new \in StaffStatuses : BeginStatus(r, b, new)
         \/ BeginSweep(r)
  PROVE  Alone(r) /\ Own(r)'
<1>0. Own(r) /\ UNCHANGED <<bookings, sessionLock, now>> /\ tx[r].pc = "idle" /\ SessionsStay
  BY SameTable DEF OwnInv, BeginCreate, BeginCancel, BeginStatus, BeginSweep, Idle, db, locks, env
<1>1. \A s \in Session : sessionLock'[s] # r
  BY <1>0 DEF Own, InOrder
<1>2. ASSUME NEW st \in Student, NEW s \in Session, NEW d \in Discipline, NEW reg \in Registration,
             BeginCreate(r, st, s, d, reg)
      PROVE  Alone(r) /\ Own(r)'
  <2> DEFINE t == [IdleTx EXCEPT !.pc = "read", !.student = st, !.session = s,
                                 !.discipline = d, !.registration = reg]
  <2>1. t.pc = "read" /\ t.sweep = {} /\ t.row = None
    BY DEF IdleTx
  <2>2. tx' = [tx EXCEPT ![r] = t]
    BY <1>2 DEF BeginCreate
  <2> HIDE DEF t
  <2>3. Alone(r) /\ tx'[r] = t
    BY <1>0, <2>2, GoesOn
  <2> QED BY <1>1, <2>1, <2>3 DEF Own, InOrder, Sweeping, Cancelling, ToWrite
<1>3. ASSUME NEW b \in BookingId, NEW byStaff \in BOOLEAN, BeginCancel(r, b, byStaff)
      PROVE  Alone(r) /\ Own(r)'
  <2> DEFINE t == [IdleTx EXCEPT !.pc = "promote", !.row = b, !.session = bookings[b].session]
  <2>1. t.pc = "promote" /\ t.sweep = {} /\ t.row = b /\ t.session = bookings[b].session
    BY DEF IdleTx
  <2>2. tx' = [tx EXCEPT ![r] = t]
    BY <1>3 DEF BeginCancel
  <2> HIDE DEF t
  <2>3. Alone(r) /\ tx'[r] = t
    BY <1>0, <2>2, GoesOn
  <2> QED BY <1>0, <1>1, <2>1, <2>3 DEF Own, InOrder, Sweeping, Cancelling, ToWrite
<1>4. ASSUME NEW b \in BookingId, NEW new \in StaffStatuses, BeginStatus(r, b, new)
      PROVE  Alone(r) /\ Own(r)'
  <2> DEFINE t == [IdleTx EXCEPT !.pc = "status", !.row = b, !.seen = new,
                                 !.count = noShows[bookings[b].student]]
  <2>1. t.pc = "status" /\ t.sweep = {} /\ t.seen = new
    BY DEF IdleTx
  <2>2. tx' = [tx EXCEPT ![r] = t]
    BY <1>4 DEF BeginStatus
  <2> HIDE DEF t
  <2>3. Alone(r) /\ tx'[r] = t
    BY <1>0, <2>2, GoesOn
  <2> QED BY <1>1, <2>1, <2>3 DEF Own, InOrder, Sweeping, Cancelling, ToWrite
<1>5. CASE BeginSweep(r)
  <2> DEFINE t == [IdleTx EXCEPT !.pc = "sweep", !.sweep = EndedSessions]
  <2>1. t.pc = "sweep" /\ t.sweep = EndedSessions /\ t.row = None
    BY DEF IdleTx
  <2>2. tx' = [tx EXCEPT ![r] = t]
    BY <1>5 DEF BeginSweep
  <2> HIDE DEF t
  <2>3. Alone(r) /\ tx'[r] = t
    BY <1>0, <2>2, GoesOn
  <2> QED BY <1>0, <1>1, <2>1, <2>3 DEF Own, InOrder, Sweeping, Cancelling, ToWrite, EndedSessions
<1> QED BY <1>2, <1>3, <1>4, <1>5

(* The requests that lock a slot at once: they do not lock another.          *)
LEMMA SlotLockedOwn ==
  ASSUME TypeInv, OwnInv, NEW r \in Request, NEW s \in Session,
         (\E st \in Student : BeginJoin(r, st, s)) \/ BeginSessionCancel(r, s)
  PROVE  Alone(r) /\ Own(r)'
<1>1. /\ sessionLock[s] = None /\ sessionLock' = [sessionLock EXCEPT ![s] = r]
      /\ UNCHANGED <<bookings, now>> /\ SessionsStay
  BY SameTable DEF BeginJoin, BeginSessionCancel, db, env
<1>2. PICK t : /\ tx' = [tx EXCEPT ![r] = t] /\ t.pc \in {"join", "collect"}
               /\ t.sweep = {} /\ t.row = None
               /\ (t.pc = "join" => t.count # 0)
  <2>1. ASSUME NEW st \in Student, BeginJoin(r, st, s)
        PROVE  \E t : /\ tx' = [tx EXCEPT ![r] = t] /\ t.pc \in {"join", "collect"}
                      /\ t.sweep = {} /\ t.row = None /\ (t.pc = "join" => t.count # 0)
    <3> DEFINE n == Cardinality(Entries(s)) + 1
    <3>0. n \in Nat \ {0}
      <4>1. IsFiniteSet(Entries(s))
        BY FS_Subset DEF Entries
      <4>2. Cardinality(Entries(s)) \in Nat
        BY <4>1, FS_CardinalityType
      <4> QED BY <4>2
    <3> HIDE DEF n
    <3> DEFINE t == [IdleTx EXCEPT !.pc = "join", !.student = st, !.session = s, !.count = n]
    <3>1. tx' = [tx EXCEPT ![r] = t]
      BY <2>1 DEF BeginJoin, n
    <3>2. t.pc = "join" /\ t.sweep = {} /\ t.row = None /\ t.count = n
      BY DEF IdleTx
    <3> HIDE DEF t
    <3> QED BY <3>0, <3>1, <3>2
  <2>2. ASSUME BeginSessionCancel(r, s)
        PROVE  \E t : /\ tx' = [tx EXCEPT ![r] = t] /\ t.pc \in {"join", "collect"}
                      /\ t.sweep = {} /\ t.row = None /\ (t.pc = "join" => t.count # 0)
    <3> DEFINE t == [IdleTx EXCEPT !.pc = "collect", !.session = s]
    <3>1. tx' = [tx EXCEPT ![r] = t]
      BY <2>2 DEF BeginSessionCancel
    <3>2. t.pc = "collect" /\ t.sweep = {} /\ t.row = None
      BY DEF IdleTx
    <3> HIDE DEF t
    <3> QED BY <3>1, <3>2
  <2> QED BY <2>1, <2>2
<1>3. tx'[r] = t /\ \A q \in Request \ {r} : tx'[q] = tx[q]
  BY <1>2 DEF TypeInv
<1>4. \A x \in Session : \A q \in Request \ {r} : sessionLock'[x] = q <=> sessionLock[x] = q
  BY <1>1 DEF TypeInv, LocksOK
<1> QED BY <1>1, <1>2, <1>3, <1>4 DEF Alone, Own, InOrder, Sweeping, Cancelling, ToWrite

LEMMA ReadOwn ==
  ASSUME TypeInv, OwnInv, NEW r \in Request, ReadSession(r)
  PROVE  Alone(r) /\ Own(r)'
<1> DEFINE t == [tx[r] EXCEPT !.pc = "lock", !.seen = sessionStatus[tx[r].session]]
<1>1. /\ tx' = [tx EXCEPT ![r] = t] /\ UNCHANGED <<bookings, sessionLock, now>>
      /\ tx[r] \in Tx /\ tx[r].pc = "read" /\ SessionsStay /\ Own(r)
  BY SameTable DEF ReadSession, TypeInv, db, locks, env, OwnInv
<1>2. t.pc = "lock" /\ t.row = tx[r].row /\ t.session = tx[r].session /\ t.sweep = tx[r].sweep
  BY <1>1 DEF Tx
<1> HIDE DEF t
<1>3. Alone(r) /\ tx'[r] = t
  BY <1>1, GoesOn
<1> QED BY <1>1, <1>2, <1>3 DEF Own, InOrder, Sweeping, Cancelling, ToWrite

(* The slot locked next is the first one missing.                            *)
LEMMA LockOwn ==
  ASSUME TypeInv, OwnInv, NEW r \in Request, LockSession(r)
  PROVE  Alone(r) /\ Own(r)'
<1>1. PICK s \in Session : /\ NextLock(r, s) /\ sessionLock[s] = None
                           /\ sessionLock' = [sessionLock EXCEPT ![s] = r]
  BY DEF LockSession
<1>2. /\ UNCHANGED <<bookings, tx, now>> /\ SessionsStay /\ tx[r].pc = "lock" /\ Own(r)
      /\ sessionLock \in [Session -> Request \cup {None}] /\ tx[r].session \in Session
  BY SameTable DEF LockSession, db, env, OwnInv, TypeInv, LocksOK, Sound
<1>3. /\ sessionLock'[s] = r /\ \A x \in Session \ {s} : sessionLock'[x] = sessionLock[x]
      /\ \A x \in Session : \A q \in Request \ {r} : sessionLock'[x] = q <=> sessionLock[x] = q
  BY <1>1, <1>2
<1>4. MissingLocks(r) \subseteq Session /\ MissingLocks(r)' \subseteq MissingLocks(r) \ {s}
  <2>1. BookingLockIds(tx[r].session) \subseteq Session
    BY <1>2, LockIds
  <2>2. BookingLockIds(tx'[r].session) = BookingLockIds(tx[r].session)
    BY <1>2
  <2>3. \A x \in BookingLockIds(tx[r].session) : sessionLock'[x] # r => x # s /\ sessionLock[x] # r
    BY <1>3, <2>1
  <2> QED BY <2>1, <2>2, <2>3 DEF MissingLocks
<1>5. ASSUME NEW x \in Session, sessionLock'[x] = r, NEW t \in MissingLocks(r)'
      PROVE  x < t
  <2>1. t \in MissingLocks(r) /\ t # s /\ t \in Session /\ Session \subseteq Nat
    BY <1>4
  <2>2. s <= t
    BY <1>1, <2>1 DEF NextLock
  <2>3. CASE x = s
    BY <2>1, <2>2, <2>3
  <2>4. CASE x # s
    BY <1>2, <1>3, <1>5, <2>1, <2>4 DEF Own, InOrder
  <2> QED BY <2>3, <2>4
<1> QED BY <1>2, <1>3, <1>5 DEF Alone, Own, InOrder, Sweeping, Cancelling, ToWrite

LEMMA AdmitOwn ==
  ASSUME TypeInv, OwnInv, NEW r \in Request, Admit(r)
  PROVE  Alone(r) /\ Own(r)'
<1> DEFINE t == [tx[r] EXCEPT !.pc = "insert"]
<1>1. /\ tx' = [tx EXCEPT ![r] = t] /\ UNCHANGED <<bookings, sessionLock, now>>
      /\ tx[r] \in Tx /\ tx[r].pc = "lock" /\ SessionsStay /\ Own(r)
  BY SameTable DEF Admit, Locked, TypeInv, db, locks, env, OwnInv
<1>2. t.pc = "insert" /\ t.row = tx[r].row /\ t.session = tx[r].session /\ t.sweep = tx[r].sweep
  BY <1>1 DEF Tx
<1> HIDE DEF t
<1>3. Alone(r) /\ tx'[r] = t
  BY <1>1, GoesOn
<1> QED BY <1>1, <1>2, <1>3 DEF Own, InOrder, Sweeping, Cancelling, ToWrite

(* Whatever gives its slots back and goes on has none.                       *)
LEMMA SlotsGivenBack ==
  ASSUME TypeInv, OwnInv, NEW r \in Request, NEW t, tx' = [tx EXCEPT ![r] = t],
         t.pc \in {"read", "settle"}, t.row = tx[r].row, t.session = tx[r].session,
         t.sweep = tx[r].sweep, tx[r].pc # "status", sessionLock' = SessionsReleased(r),
         UNCHANGED <<bookings, now>>
  PROVE  Alone(r) /\ Own(r)'
<1>1. tx'[r] = t /\ \A q \in Request \ {r} : tx'[q] = tx[q]
  BY DEF TypeInv
<1>2. /\ \A s \in Session : sessionLock'[s] # r
      /\ \A s \in Session : \A q \in Request \ {r} : sessionLock'[s] = q <=> sessionLock[s] = q
  BY DEF SessionsReleased
<1>3. Own(r) /\ SessionsStay
  BY SameTable DEF OwnInv
<1> QED BY <1>1, <1>2, <1>3 DEF Alone, Own, InOrder, Sweeping, Cancelling, ToWrite

LEMMA GiveUpOwn ==
  ASSUME TypeInv, OwnInv, NEW r \in Request, tx[r].pc = "lock", GiveUp(r),
         UNCHANGED <<bookings, now>>
  PROVE  Alone(r) /\ Own(r)'
<1>1. CASE Release(r)
  BY <1>1, Ended, SameTable
<1>2. CASE sessionLock' = SessionsReleased(r) /\ tx' = [tx EXCEPT ![r].pc = "settle"]
  <2> DEFINE t == [tx[r] EXCEPT !.pc = "settle"]
  <2>1. tx' = [tx EXCEPT ![r] = t] /\ tx[r] \in Tx
    BY <1>2 DEF TypeInv
  <2>2. t.pc = "settle" /\ t.row = tx[r].row /\ t.session = tx[r].session /\ t.sweep = tx[r].sweep
    BY <2>1 DEF Tx
  <2> HIDE DEF t
  <2> QED BY <1>2, <2>1, <2>2, SlotsGivenBack
<1> QED BY <1>1, <1>2 DEF GiveUp

LEMMA Promoted ==
  ASSUME TypeInv, NEW r \in Request, Promote(r)
  PROVE  \E t : /\ tx' = [tx EXCEPT ![r] = t] /\ t.pc \in {"read", "settle"}
                /\ t.row = tx[r].row /\ t.session = tx[r].session /\ t.sweep = tx[r].sweep
<1>0. tx[r] \in Tx
  BY DEF TypeInv
<1>1. CASE tx' = [tx EXCEPT ![r].pc = "settle"]
  <2> DEFINE t == [tx[r] EXCEPT !.pc = "settle"]
  <2>1. tx' = [tx EXCEPT ![r] = t]
    BY <1>1
  <2>2. t.pc = "settle" /\ t.row = tx[r].row /\ t.session = tx[r].session /\ t.sweep = tx[r].sweep
    BY <1>0 DEF Tx
  <2> HIDE DEF t
  <2> QED BY <2>1, <2>2
<1>2. ASSUME NEW st \in Heads(tx[r].session),
             tx' = [tx EXCEPT ![r].pc = "read", ![r].student = st,
                              ![r].discipline = DefaultDiscipline(st, tx[r].session)]
      PROVE  \E t : /\ tx' = [tx EXCEPT ![r] = t] /\ t.pc \in {"read", "settle"}
                    /\ t.row = tx[r].row /\ t.session = tx[r].session /\ t.sweep = tx[r].sweep
  <2> DEFINE d == DefaultDiscipline(st, tx[r].session)
             t == [tx[r] EXCEPT !.pc = "read", !.student = st, !.discipline = d]
  <2>1. tx' = [tx EXCEPT ![r] = t]
    BY <1>2 DEF TypeInv
  <2>2. t.pc = "read" /\ t.row = tx[r].row /\ t.session = tx[r].session /\ t.sweep = tx[r].sweep
    BY <1>0 DEF Tx
  <2> HIDE DEF t
  <2> QED BY <2>1, <2>2
<1> QED BY <1>1, <1>2 DEF Promote

LEMMA PromoteOwn ==
  ASSUME TypeInv, OwnInv, NEW r \in Request, Promote(r)
  PROVE  Alone(r) /\ Own(r)'
<1>1. /\ UNCHANGED <<bookings, sessionLock, now>> /\ SessionsStay /\ Own(r)
      /\ tx[r] \in Tx /\ tx[r].pc = "promote"
  BY SameTable DEF Promote, TypeInv, db, locks, env, OwnInv
<1>2. PICK t : /\ tx' = [tx EXCEPT ![r] = t] /\ t.pc \in {"read", "settle"}
               /\ t.row = tx[r].row /\ t.session = tx[r].session /\ t.sweep = tx[r].sweep
  BY Promoted
<1>3. Alone(r) /\ tx'[r] = t
  BY <1>1, <1>2, GoesOn
<1> QED BY <1>1, <1>2, <1>3 DEF Own, InOrder, Sweeping, Cancelling, ToWrite

(* What a transaction sees of a booking's session is the booking's.          *)
LEMMA ViewSessions ==
  ASSUME TypeInv, NEW r \in Request, NEW b \in BookingId, bookings[b] # Absent
  PROVE  View(r)[b].session = bookings[b].session
<1>1. tx[r] \in Tx /\ Sound(tx[r]) /\ bookings \in Tables /\ bookings[b] \in BookingRow
  BY DEF TypeInv, DbOK, Tables
<1>2. [bookings[b] EXCEPT !.status = "CANCELLED"].session = bookings[b].session
  BY <1>1 DEF BookingRow
<1>3. CASE tx[r].row = b
  <2>1. View(r) = [bookings EXCEPT ![b] = [bookings[b] EXCEPT !.status = "CANCELLED"]]
    BY <1>3, BookingIdAssumption DEF View
  <2>2. View(r)[b] = [bookings[b] EXCEPT !.status = "CANCELLED"]
    BY <1>1, <2>1 DEF Tables
  <2> QED BY <1>2, <2>2
<1>4. CASE tx[r].row # b
  BY <1>4, ViewRows
<1> QED BY <1>3, <1>4

LEMMA StatusSessions ==
  ASSUME TypeInv, NEW B, NEW new, bookings' = WithStatus(B, new)
  PROVE  SessionsStay
<1>1. ASSUME NEW b \in BookingId, bookings[b] # Absent
      PROVE  bookings'[b].session = bookings[b].session
  <2>1. bookings[b] \in BookingRow
    BY <1>1 DEF TypeInv, DbOK, Tables
  <2>2. [bookings[b] EXCEPT !.status = new].session = bookings[b].session
    BY <2>1 DEF BookingRow
  <2> QED BY <2>2 DEF WithStatus
<1> QED BY <1>1 DEF SessionsStay


LEMMA EndsOwn ==
  ASSUME TypeInv, NEW r \in Request,
         InsertBooking(r) \/ Settle(r) \/ ApplyStatus(r) \/ CommitJoin(r)
           \/ CommitSessionCancel(r) \/ Crash(r)
  PROVE  Alone(r) /\ Own(r)'
<1>1. Release(r) /\ now' = now
  BY DEF InsertBooking, Settle, ApplyStatus, CommitJoin, CommitSessionCancel, Crash, env
<1>2. SessionsStay
  <2>1. View(r) \in Tables
    BY ViewType
  <2>2. CASE InsertBooking(r)
    <3>1. PICK b \in Unused : bookings' = [View(r) EXCEPT ![b] = NewBooking(r)]
      BY <2>2 DEF InsertBooking
    <3>2. ASSUME NEW c \in BookingId, bookings[c] # Absent
          PROVE  bookings'[c].session = bookings[c].session
      <4>1. c # b
        BY <3>2 DEF Unused
      <4>2. bookings'[c] = View(r)[c]
        BY <2>1, <3>1, <4>1 DEF Tables
      <4> QED BY <3>2, <4>2, ViewSessions
    <3> QED BY <3>2 DEF SessionsStay
  <2>3. CASE Settle(r)
    BY <2>3, ViewSessions DEF Settle, SessionsStay
  <2>4. CASE ApplyStatus(r)
    BY <2>4, StatusSessions DEF ApplyStatus
  <2>5. CASE CommitSessionCancel(r)
    BY <2>5, StatusSessions DEF CommitSessionCancel
  <2>6. CASE CommitJoin(r) \/ Crash(r)
    BY <2>6, SameTable DEF CommitJoin, Crash, db
  <2> QED BY <2>2, <2>3, <2>4, <2>5, <2>6
<1> QED BY <1>1, <1>2, Ended

LEMMA CollectOwn ==
  ASSUME TypeInv, OwnInv, NEW r \in Request,
         CollectBooked(r) \/ \E b \in BookingId : ReaccessBooking(r, b)
  PROVE  Alone(r) /\ Own(r)'
<1>1. /\ UNCHANGED <<bookings, sessionLock, now>> /\ SessionsStay /\ Own(r)
      /\ tx[r] \in Tx /\ tx[r].pc \in {"collect", "reaccess"}
  BY SameTable DEF CollectBooked, ReaccessBooking, TypeInv, db, locks, env, OwnInv
<1>2. PICK t : /\ tx' = [tx EXCEPT ![r] = t] /\ t.pc = "reaccess"
               /\ t.row = tx[r].row /\ t.session = tx[r].session /\ t.sweep = tx[r].sweep
  <2>1. CASE CollectBooked(r)
    <3> DEFINE B == BookedIn(bookings, {tx[r].session})
    <3> HIDE DEF B
    <3> DEFINE t == [tx[r] EXCEPT !.pc = "reaccess", !.pending = B]
    <3>1. tx' = [tx EXCEPT ![r] = t]
      BY <2>1 DEF CollectBooked, TypeInv, B
    <3>2. /\ t.pc = "reaccess"
          /\ t.row = tx[r].row /\ t.session = tx[r].session /\ t.sweep = tx[r].sweep
      BY <1>1 DEF Tx
    <3> HIDE DEF t
    <3> QED BY <3>1, <3>2
  <2>2. ASSUME NEW b \in BookingId, ReaccessBooking(r, b)
        PROVE  \E t : /\ tx' = [tx EXCEPT ![r] = t] /\ t.pc = "reaccess"
                      /\ t.row = tx[r].row /\ t.session = tx[r].session /\ t.sweep = tx[r].sweep
    <3> DEFINE t == [tx[r] EXCEPT !.pending = tx[r].pending \ {b}]
    <3>1. tx' = [tx EXCEPT ![r] = t] /\ tx[r].pc = "reaccess"
      BY <2>2 DEF ReaccessBooking, TypeInv
    <3>2. /\ t.pc = "reaccess"
          /\ t.row = tx[r].row /\ t.session = tx[r].session /\ t.sweep = tx[r].sweep
      BY <1>1, <3>1 DEF Tx
    <3> HIDE DEF t
    <3> QED BY <3>1, <3>2
  <2> QED BY <2>1, <2>2
<1>3. Alone(r) /\ tx'[r] = t
  BY <1>1, <1>2, GoesOn
<1> QED BY <1>1, <1>2, <1>3 DEF Own, InOrder, Sweeping, Cancelling, ToWrite

(* mark_visited holds no lock and no row of its own.                         *)
LEMMA SweepOwn ==
  ASSUME TypeInv, OwnInv, NEW r \in Request, NEW s \in Session, SweepSession(r, s)
  PROVE  Alone(r) /\ Own(r)'
<1> DEFINE B == BookedIn(bookings, {s})
<1>1. \A b \in B : bookings[b].session = s
  BY DEF BookedIn
<1> HIDE DEF B
<1> DEFINE t == [tx[r] EXCEPT !.pc = "visit", !.session = s, !.pending = B]
<1>2. /\ UNCHANGED <<bookings, sessionLock, now>> /\ SessionsStay /\ Own(r)
      /\ tx[r] \in Tx /\ tx[r].pc = "sweep" /\ s \in tx[r].sweep
  BY SameTable DEF SweepSession, TypeInv, db, locks, env, OwnInv
<1>3. tx' = [tx EXCEPT ![r] = t]
  BY DEF SweepSession, TypeInv, B
<1>4. /\ t.pc = "visit" /\ t.session = s /\ t.pending = B
      /\ t.row = tx[r].row /\ t.sweep = tx[r].sweep
  BY <1>2 DEF Tx
<1> HIDE DEF t
<1>5. Alone(r) /\ tx'[r] = t
  BY <1>2, <1>3, GoesOn
<1> QED BY <1>1, <1>2, <1>4, <1>5 DEF Own, InOrder, Sweeping, Cancelling, ToWrite


LEMMA VisitOwn ==
  ASSUME TypeInv, OwnInv, NEW r \in Request, NEW b \in BookingId, VisitBooking(r, b)
  PROVE  Alone(r) /\ Own(r)'
<1> DEFINE B == {b}
           t == [tx[r] EXCEPT !.pending = tx[r].pending \ {b}]
<1>1. /\ UNCHANGED <<sessionLock, now>> /\ Own(r) /\ bookings' = WithStatus(B, "VISITED")
      /\ tx[r] \in Tx /\ Sound(tx[r]) /\ tx[r].pc = "visit" /\ tx' = [tx EXCEPT ![r] = t]
  BY DEF VisitBooking, TypeInv, locks, env, OwnInv
<1>2. /\ t.pc = "visit" /\ t.session = tx[r].session /\ t.pending \subseteq tx[r].pending
      /\ t.row = tx[r].row /\ t.sweep = tx[r].sweep
  BY <1>1 DEF Tx
<1> HIDE DEF B, t
<1>3. SessionsStay
  BY <1>1, StatusSessions
<1>4. Alone(r) /\ tx'[r] = t
  BY <1>1, <1>3, GoesOn
<1>5. \A c \in tx[r].pending : c \in BookingId /\ bookings'[c].session = bookings[c].session
  BY <1>1, <1>3 DEF SessionsStay, Sound, Tx
<1> QED BY <1>1, <1>2, <1>4, <1>5 DEF Own, InOrder, Sweeping, Cancelling, ToWrite

LEMMA CloseOwn ==
  ASSUME TypeInv, OwnInv, NEW r \in Request, CloseSession(r)
  PROVE  Alone(r) /\ Own(r)'
<1>1. /\ UNCHANGED <<bookings, sessionLock, now>> /\ SessionsStay /\ Own(r) /\ tx[r].pc = "visit"
  BY SameTable DEF CloseSession, locks, env, OwnInv
<1>2. PICK t : /\ tx' = [tx EXCEPT ![r] = t] /\ t.pc \in {"idle", "sweep"}
               /\ t.row = None /\ t.sweep \subseteq tx[r].sweep
  <2> DEFINE left == tx[r].sweep \ {tx[r].session}
  <2> HIDE DEF left
  <2>1. left \subseteq tx[r].sweep
    BY DEF left
  <2> DEFINE t == IF left = {} THEN IdleTx ELSE [IdleTx EXCEPT !.pc = "sweep", !.sweep = left]
  <2>2. tx' = [tx EXCEPT ![r] = t]
    BY DEF CloseSession, left
  <2>3. t.pc \in {"idle", "sweep"} /\ t.row = None /\ t.sweep \subseteq left
    BY DEF IdleTx
  <2> HIDE DEF t
  <2> QED BY <2>1, <2>2, <2>3
<1>3. Alone(r) /\ tx'[r] = t
  BY <1>1, <1>2, GoesOn
<1> QED BY <1>1, <1>2, <1>3 DEF Own, InOrder, Sweeping, Cancelling, ToWrite

LEMMA VictimOwn ==
  ASSUME TypeInv, OwnInv, NEW r \in Request, DeadlockVictim(r)
  PROVE  Alone(r) /\ Own(r)'
<1>1. UNCHANGED <<bookings, now>>
  BY DEF DeadlockVictim, db, env
<1>2. CASE tx[r].pc = "lock" /\ GiveUp(r)
  BY <1>1, <1>2, GiveUpOwn
<1>3. CASE Release(r)
  BY <1>1, <1>3, Ended, SameTable
<1>4. CASE /\ tx[r].pc = "lock"
           /\ sessionLock' = SessionsReleased(r)
           /\ tx' = [tx EXCEPT ![r].pc = "read", ![r].attempt = @ + 1]
  <2> DEFINE t == [tx[r] EXCEPT !.pc = "read", !.attempt = tx[r].attempt + 1]
  <2>1. tx' = [tx EXCEPT ![r] = t] /\ tx[r] \in Tx
    BY <1>4 DEF TypeInv
  <2>2. t.pc = "read" /\ t.row = tx[r].row /\ t.session = tx[r].session /\ t.sweep = tx[r].sweep
    BY <2>1 DEF Tx
  <2> HIDE DEF t
  <2> QED BY <1>1, <1>4, <2>1, <2>2, SlotsGivenBack
<1> QED BY <1>2, <1>3, <1>4 DEF DeadlockVictim

-------------------------------------------------------------------------------
(* The invariant                                                             *)

LEMMA RequestOwn ==
  ASSUME TypeInv, OwnInv, NEW r \in Request,
         Begin(r) \/ BeginSweep(r) \/ Proceed(r) \/ Crash(r)
  PROVE  Alone(r) /\ Own(r)'
<1>1. CASE Begin(r)
  <2>1. CASE \/ \E st \in Student, s \in Session, d \in Discipline, reg \in Registration :
                  BeginCreate(r, st, s, d, reg)
             \/ \E b \in BookingId, byStaff \in BOOLEAN : BeginCancel(r, b, byStaff)
             \/ \E b \in BookingId, new \in StaffStatuses : BeginStatus(r, b, new)
    BY <2>1, BegunOwn
  <2>2. CASE \E st \in Student, s \in Session : BeginJoin(r, st, s)
    BY <2>2, SlotLockedOwn
  <2>3. CASE \E s \in Session : BeginSessionCancel(r, s)
    BY <2>3, SlotLockedOwn
  <2> QED BY <1>1, <2>1, <2>2, <2>3 DEF Begin
<1>2. CASE BeginSweep(r)
  BY <1>2, BegunOwn
<1>3. CASE Proceed(r)
  <2>1. CASE ReadSession(r) \/ LockSession(r) \/ Admit(r)
    BY <2>1, ReadOwn, LockOwn, AdmitOwn
  <2>2. CASE Refuse(r)
    BY <2>2, GiveUpOwn DEF Refuse, Locked, db, env
  <2>3. CASE InsertBooking(r) \/ Settle(r) \/ ApplyStatus(r) \/ CommitJoin(r)
               \/ CommitSessionCancel(r)
    BY <2>3, EndsOwn
  <2>4. CASE Promote(r) \/ CloseSession(r) \/ DeadlockVictim(r)
    BY <2>4, PromoteOwn, CloseOwn, VictimOwn
  <2>5. CASE CollectBooked(r) \/ \E b \in BookingId : ReaccessBooking(r, b)
    BY <2>5, CollectOwn
  <2>6. CASE \E s \in Session : SweepSession(r, s)
    BY <2>6, SweepOwn
  <2>7. CASE \E b \in BookingId : VisitBooking(r, b)
    BY <2>7, VisitOwn
  <2> QED BY <1>3, <2>1, <2>2, <2>3, <2>4, <2>5, <2>6, <2>7 DEF Proceed
<1>4. CASE Crash(r)
  BY <1>4, EndsOwn
<1> QED BY <1>1, <1>2, <1>3, <1>4

LEMMA OwnStep == TypeInv /\ OwnInv /\ [Next]_vars => OwnInv'
<1> SUFFICES ASSUME TypeInv, OwnInv, [Next]_vars
             PROVE  OwnInv'
  OBVIOUS
<1>1. ASSUME NEW r \in Request, Begin(r) \/ BeginSweep(r) \/ Proceed(r) \/ Crash(r)
      PROVE  OwnInv'
  BY <1>1, RequestOwn, OthersOwn DEF OwnInv
<1>2. ASSUME UNCHANGED <<bookings, sessionLock, tx>>, now <= now', now' \in Nat
      PROVE  OwnInv'
  <2> SUFFICES ASSUME NEW r \in Request
               PROVE  Own(r)'
    BY DEF OwnInv
  <2>1. Own(r) /\ tx[r].sweep \subseteq Session /\ now \in Nat
    BY DEF OwnInv, TypeInv, Tx
  <2>2. ASSUME NEW s \in tx[r].sweep
        PROVE  EndsAt[s] <= now'
    <3>1. EndsAt[s] <= now /\ EndsAt[s] \in Nat
      BY <2>1 DEF Own, Sweeping
    <3> QED BY <1>2, <2>1, <3>1
  <2> QED BY <1>2, <2>1, <2>2 DEF Own, InOrder, Sweeping, Cancelling, ToWrite, MissingLocks
<1>3. CASE Tick \/ (\E s \in Session, new \in SessionEdits : EditSession(s, new)) \/ UNCHANGED vars
  BY <1>2, <1>3 DEF Tick, EditSession, vars, locks, db, env, TypeInv
<1> QED BY <1>1, <1>3 DEF Next

LEMMA OwnInvariant == Spec => [](TypeInv /\ OwnInv)
<1>1. Init => TypeInv /\ OwnInv
  BY InitType DEF Init, OwnInv, Own, InOrder, Sweeping, Cancelling, ToWrite, IdleTx
<1>2. TypeInv /\ OwnInv /\ [Next]_vars => TypeInv' /\ OwnInv'
  BY TypeStep, OwnStep
<1> QED BY <1>1, <1>2, PTL DEF Spec


-------------------------------------------------------------------------------
(* Deadlocks                                                                 *)

LEMMA LeastSession ==
  ASSUME NEW W, W \subseteq Session, W # {}
  PROVE  \E s \in W : \A t \in W : s <= t
<1> DEFINE R == {p \in Nat \X Nat : p[1] < p[2]}
<1>1. IsWellFoundedOn(R, Nat)
  BY NatLessThanWellFounded DEF OpToRel
<1>2. \A x, y \in Nat : x < y => <<x, y>> \in R
  OBVIOUS
<1> HIDE DEF R
<1>3. W \subseteq Nat
  OBVIOUS
<1>4. PICK s \in W : \A t \in W : <<t, s>> \notin R
  BY <1>1, <1>3, WFMin
<1>5. ASSUME NEW t \in W
      PROVE  s <= t
  <2>1. s \in Nat /\ t \in Nat /\ ~(t < s)
    BY <1>2, <1>3, <1>4
  <2> QED BY <2>1
<1> QED BY <1>5

(* Let s be the least slot waited for in a cycle, and x its waiter. Somebody *)
(* in the cycle waits for x, for a slot x holds; x locks in key order, so    *)
(* that slot comes before s.                                                 *)
LEMMA NoSlotCycle ==
  ASSUME TypeInv, OwnInv, NEW C \in SUBSET Request, WaitCycle(C)
  PROVE  \E r \in C : tx[r].pc = "reaccess"
<1> SUFFICES ASSUME \A r \in C : tx[r].pc # "reaccess"
             PROVE  FALSE
  OBVIOUS
<1> DEFINE W == {s \in Session : \E x \in C : tx[x].pc = "lock" /\ NextLock(x, s)}
<1>1. ASSUME NEW x \in C, NEW y \in C, WaitsFor(x, y)
      PROVE  /\ tx[x].pc = "lock"
             /\ \E s \in Session : NextLock(x, s) /\ sessionLock[s] = y
  BY <1>1 DEF WaitsFor
<1>2. W # {}
  <2>1. PICK x \in C, y \in C : WaitsFor(x, y)
    BY DEF WaitCycle
  <2> QED BY <1>1, <2>1
<1>3. PICK s \in W : \A t \in W : s <= t
  BY <1>2, LeastSession
<1>4. PICK x \in C : tx[x].pc = "lock" /\ NextLock(x, s)
  OBVIOUS
<1>5. PICK w \in C : WaitsFor(w, x)
  BY <1>4 DEF WaitCycle
<1>6. PICK t \in Session : NextLock(w, t) /\ sessionLock[t] = x
  BY <1>1, <1>5
<1>7. t \in W
  BY <1>1, <1>5, <1>6
<1>8. s <= t /\ s \in Nat /\ t \in Nat
  BY <1>3, <1>7
<1>9. t < s
  BY <1>4, <1>6 DEF OwnInv, Own, InOrder, NextLock
<1> QED BY <1>8, <1>9

(* Requests that only book, cancel or queue never deadlock among themselves, *)
(* whatever the timetable: in every cycle there is a session cancellation.   *)
THEOREM OnlySessionCancelsDeadlock == Spec => []OnlySessionCancelDeadlocks
<1>1. TypeInv /\ OwnInv => OnlySessionCancelDeadlocks
  BY NoSlotCycle DEF OnlySessionCancelDeadlocks
<1> QED BY <1>1, OwnInvariant, PTL


-------------------------------------------------------------------------------
(* Statuses                                                                  *)

(* Everything that can change a row of the Booking table.                    *)
Changed(b) ==
  \/ bookings[b] = Absent /\ \E r \in Request : InsertBooking(r) /\ bookings'[b] = NewBooking(r)
  \/ /\ bookings'[b].status = "CANCELLED"
     /\ \E r \in Request : tx[r].row = b /\ tx[r].pc # "status"
  \/ \E r \in Request : /\ tx[r].pc = "status" /\ tx[r].row = b
                        /\ bookings'[b].status = tx[r].seen
  \/ bookings'[b].status = "REACCESS"
  \/ /\ bookings'[b].status = "VISITED"
     /\ \E r \in Request : tx[r].pc = "visit" /\ b \in tx[r].pending

LEMMA StatusWritten ==
  ASSUME TypeInv, NEW B \in SUBSET BookingId, NEW new, bookings' = WithStatus(B, new),
         \A c \in B : bookings[c] # Absent, NEW b \in BookingId
  PROVE  /\ b \notin B => bookings'[b] = bookings[b]
         /\ b \in B => bookings'[b].status = new
<1>1. b \in B => bookings[b] \in BookingRow
  BY DEF TypeInv, DbOK, Tables
<1>2. b \in B => [bookings[b] EXCEPT !.status = new].status = new
  BY <1>1 DEF BookingRow
<1> QED BY <1>2 DEF WithStatus

LEMMA CancellationSeen ==
  ASSUME TypeInv, NEW r \in Request, NEW b \in BookingId, View(r)[b] # bookings[b]
  PROVE  tx[r].row = b /\ View(r)[b].status = "CANCELLED"
<1>1. tx[r].row = b /\ bookings[b] \in BookingRow /\ bookings \in Tables
  BY ViewRows DEF TypeInv, DbOK, Sound, Tables
<1>2. [bookings[b] EXCEPT !.status = "CANCELLED"].status = "CANCELLED"
  BY <1>1 DEF BookingRow
<1>3. View(r) = [bookings EXCEPT ![b] = [bookings[b] EXCEPT !.status = "CANCELLED"]]
  BY <1>1, BookingIdAssumption DEF View
<1>4. View(r)[b] = [bookings[b] EXCEPT !.status = "CANCELLED"]
  BY <1>1, <1>3 DEF Tables
<1> QED BY <1>1, <1>2, <1>4

LEMMA RowChanges ==
  ASSUME TypeInv, [Next]_vars, NEW b \in BookingId, bookings'[b] # bookings[b]
  PROVE  Changed(b)
<1>1. ASSUME NEW r \in Request, InsertBooking(r)
      PROVE  Changed(b)
  <2>1. PICK n \in Unused : bookings' = [View(r) EXCEPT ![n] = NewBooking(r)]
    BY <1>1 DEF InsertBooking
  <2>2. View(r) \in Tables
    BY ViewType
  <2>3. CASE b = n
    <3>1. bookings[b] = Absent /\ bookings'[b] = NewBooking(r)
      BY <2>1, <2>2, <2>3 DEF Unused, Tables
    <3> QED BY <1>1, <3>1 DEF Changed
  <2>4. CASE b # n
    <3>1. bookings'[b] = View(r)[b]
      BY <2>1, <2>2, <2>4 DEF Tables
    <3>2. tx[r].row = b /\ bookings'[b].status = "CANCELLED"
      BY <3>1, CancellationSeen
    <3>3. tx[r].pc # "status"
      BY <1>1 DEF InsertBooking
    <3> QED BY <3>2, <3>3 DEF Changed
  <2> QED BY <2>3, <2>4
<1>2. ASSUME NEW r \in Request, Settle(r)
      PROVE  Changed(b)
  <2>1. bookings' = View(r) /\ tx[r].pc # "status"
    BY <1>2 DEF Settle
  <2>2. tx[r].row = b /\ bookings'[b].status = "CANCELLED"
    BY <2>1, CancellationSeen
  <2> QED BY <2>1, <2>2 DEF Changed
<1>3. ASSUME NEW r \in Request, ApplyStatus(r)
      PROVE  Changed(b)
  <2> DEFINE B == {tx[r].row}
  <2>1. /\ bookings' = WithStatus(B, tx[r].seen) /\ tx[r].pc = "status"
        /\ B \in SUBSET BookingId /\ \A c \in B : bookings[c] # Absent
    BY <1>3, BookingIdAssumption DEF ApplyStatus, TypeInv, Sound
  <2>2. b \in B => b = tx[r].row
    OBVIOUS
  <2> HIDE DEF B
  <2>3. PICK new : new = tx[r].seen /\ bookings' = WithStatus(B, new)
    BY <2>1
  <2>4. b \in B /\ bookings'[b].status = new
    BY <2>1, <2>3, StatusWritten
  <2> QED BY <2>1, <2>2, <2>3, <2>4 DEF Changed
<1>4. ASSUME NEW r \in Request, CommitSessionCancel(r)
      PROVE  Changed(b)
  <2> DEFINE B == {c \in BookingId : bookingLock[c] = r}
  <2>1. /\ bookings' = WithStatus(B, "REACCESS")
        /\ B \in SUBSET BookingId /\ \A c \in B : bookings[c] # Absent
    BY <1>4 DEF CommitSessionCancel, TypeInv, LocksOK
  <2> HIDE DEF B
  <2>2. bookings'[b].status = "REACCESS"
    BY <2>1, StatusWritten
  <2> QED BY <2>2 DEF Changed
<1>5. ASSUME NEW r \in Request, NEW c \in BookingId, VisitBooking(r, c)
      PROVE  Changed(b)
  <2> DEFINE B == {c}
  <2>1. /\ bookings' = WithStatus(B, "VISITED") /\ tx[r].pc = "visit" /\ c \in tx[r].pending
        /\ B \in SUBSET BookingId /\ \A x \in B : bookings[x] # Absent
    BY <1>5 DEF VisitBooking, NextPending, TypeInv, Sound
  <2>2. b \in B => b = c
    OBVIOUS
  <2> HIDE DEF B
  <2>3. b \in B /\ bookings'[b].status = "VISITED"
    BY <2>1, StatusWritten
  <2> QED BY <2>1, <2>2, <2>3 DEF Changed
<1>6. ASSUME NEW r \in Request, Proceed(r) PROVE Changed(b) \/ UNCHANGED bookings
  BY <1>1, <1>2, <1>3, <1>4, <1>5, <1>6 DEF Proceed, ReadSession, LockSession, Admit, Refuse,
     Promote, CommitJoin, CollectBooked, ReaccessBooking, SweepSession, CloseSession,
     DeadlockVictim, db
<1>7. ASSUME NEW r \in Request, Begin(r) \/ BeginSweep(r) \/ Crash(r) PROVE UNCHANGED bookings
  BY <1>7 DEF Begin, BeginCreate, BeginCancel, BeginStatus, BeginJoin, BeginSessionCancel,
     BeginSweep, Crash, db
<1>8. CASE Tick \/ (\E s \in Session, new \in SessionEdits : EditSession(s, new)) \/ UNCHANGED vars
  BY <1>8 DEF Tick, EditSession, vars, db
<1> QED BY <1>6, <1>7, <1>8 DEF Next


LEMMA NewRow ==
  ASSUME NEW r \in Request
  PROVE  /\ NewBooking(r).status = "BOOKED"
         /\ NewBooking(r).student = tx[r].student
         /\ NewBooking(r).session = tx[r].session
         /\ NewBooking(r).registration = tx[r].registration
BY DEF NewBooking

(* Where staff cannot set VISITED by hand, only bookings of sessions that    *)
(* have ended are marked so.                                                 *)
THEOREM VisitsAfterEnd ==
  ASSUME "VISITED" \notin StaffStatuses
  PROVE  Spec => VisitedOnlyAfterEnd
<1> DEFINE Kept == \A b \in BookingId :
                     bookings'[b].status = "VISITED" /\ bookings[b].status # "VISITED"
                       => EndsAt[bookings[b].session] <= now
<1>1. TypeInv /\ OwnInv /\ [Next]_vars => Kept
  <2> SUFFICES ASSUME TypeInv, OwnInv, [Next]_vars, NEW b \in BookingId,
                      bookings'[b].status = "VISITED", bookings[b].status # "VISITED"
               PROVE  EndsAt[bookings[b].session] <= now
    OBVIOUS
  <2>1. Changed(b)
    BY RowChanges
  <2>2. PICK r \in Request : tx[r].pc = "visit" /\ b \in tx[r].pending
    BY <2>1, NewRow DEF Changed, OwnInv, Own, ToWrite
  <2>3. tx[r].session \in tx[r].sweep /\ bookings[b].session = tx[r].session
    BY <2>2 DEF OwnInv, Own, Sweeping
  <2> QED BY <2>3 DEF OwnInv, Own, Sweeping
<1>2. Kept => [Kept]_vars
  OBVIOUS
<1> HIDE DEF Kept
<1>3. TypeInv /\ OwnInv /\ [Next]_vars => [Kept]_vars
  BY <1>1, <1>2
<1>4. [][Kept]_vars => VisitedOnlyAfterEnd
  BY DEF VisitedOnlyAfterEnd, Kept
<1> QED BY <1>3, <1>4, OwnInvariant, PTL DEF Spec

(* Where staff neither rebooks nor cancels by hand, a booking is cancelled   *)
(* only while it is booked: never over a status set meanwhile.               *)
THEOREM OnlyBookedCancelled ==
  ASSUME StaffNeverRebooks, "CANCELLED" \notin StaffStatuses
  PROVE  Spec => CancelsOnlyBooked
<1> DEFINE Kept == \A b \in BookingId :
                     bookings'[b].status = "CANCELLED" /\ bookings[b].status # "CANCELLED"
                       => IsBooked(bookings, b)
<1>1. TypeInv /\ OwnInv /\ SeatInv /\ [Next]_vars => Kept
  <2> SUFFICES ASSUME TypeInv, OwnInv, SeatInv, [Next]_vars, NEW b \in BookingId,
                      bookings'[b].status = "CANCELLED", bookings[b].status # "CANCELLED"
               PROVE  IsBooked(bookings, b)
    OBVIOUS
  <2>1. Changed(b)
    BY RowChanges
  <2>2. PICK r \in Request : tx[r].row = b /\ tx[r].pc # "status"
    BY <2>1, NewRow DEF Changed, OwnInv, Own, ToWrite
  <2> QED BY <2>2, BookingIdAssumption DEF SeatInv, Held
<1> HIDE DEF Kept
<1>2. [][Kept]_vars => CancelsOnlyBooked
  BY DEF CancelsOnlyBooked, Kept
<1>3. TypeInv /\ OwnInv /\ SeatInv /\ [Next]_vars => [Kept]_vars
  BY <1>1
<1> QED BY <1>2, <1>3, OwnInvariant, SeatInvariant, PTL DEF Spec


(* Deleting one entry of a queue touches no other.                           *)
LEMMA EntryDeleted ==
  ASSUME TypeInv, NEW s \in Session, NEW st \in Student, NEW s0, NEW st0,
         waitlist' = WithoutEntry(s0, st0), waitlist'[s][st] # waitlist[s][st]
  PROVE  s = s0
<1>1. waitlist \in [Session -> [Student -> Nat]]
  BY DEF TypeInv, DbOK
<1>2. s # s0 => waitlist'[s] = waitlist[s]
  BY <1>1 DEF WithoutEntry
<1> QED BY <1>2

LEMMA SeatFreed ==
  ASSUME TypeInv, OwnInv, SeatInv, NEW r \in Request, tx[r].row # None,
         InsertBooking(r) \/ Settle(r)
  PROVE  \E b \in BookingId : /\ IsBooked(bookings, b) /\ ~IsBooked(bookings', b)
                              /\ bookings[b].session = tx[r].session
<1> DEFINE b == tx[r].row
<1>1. b \in BookingId /\ bookings[b] # Absent /\ tx[r].pc # "status"
  BY DEF TypeInv, Tx, Sound, InsertBooking, Settle
<1>2. IsBooked(bookings, b) /\ bookings[b].session = tx[r].session
  BY <1>1 DEF SeatInv, Held, OwnInv, Own, Cancelling
<1>3. View(r) \in Tables /\ ~IsBooked(View(r), b)
  BY <1>1, ViewType, ViewRows
<1>4. bookings'[b] = View(r)[b]
  <2>1. CASE InsertBooking(r)
    <3>1. PICK n \in Unused : bookings' = [View(r) EXCEPT ![n] = NewBooking(r)]
      BY <2>1 DEF InsertBooking
    <3>2. n # b
      BY <1>1 DEF Unused
    <3> QED BY <1>1, <1>3, <3>1, <3>2 DEF Tables
  <2>2. CASE Settle(r)
    BY <2>2 DEF Settle
  <2> QED BY <2>1, <2>2
<1> QED BY <1>1, <1>2, <1>3, <1>4 DEF IsBooked

(* A place in a queue goes only to whoever gives up a booked seat of that    *)
(* session in the same step, as long as staff never rebooks.                 *)
THEOREM PlacesKept ==
  ASSUME StaffNeverRebooks
  PROVE  Spec => PlaceLostOnlyToFreedSeat
<1> DEFINE Kept ==
      \A s \in Session, st \in Student :
        waitlist[s][st] # 0 /\ waitlist'[s][st] = 0
          => \E b \in BookingId : /\ IsBooked(bookings, b) /\ ~IsBooked(bookings', b)
                                  /\ bookings[b].session = s
<1>1. TypeInv /\ OwnInv /\ SeatInv /\ [Next]_vars => Kept
  <2> SUFFICES ASSUME TypeInv, OwnInv, SeatInv, [Next]_vars, NEW s \in Session, NEW st \in Student,
                      waitlist[s][st] # 0, waitlist'[s][st] = 0
               PROVE  \E b \in BookingId : /\ IsBooked(bookings, b) /\ ~IsBooked(bookings', b)
                                           /\ bookings[b].session = s
    OBVIOUS
  <2>1. ASSUME NEW r \in Request, InsertBooking(r) \/ Settle(r)
        PROVE  tx[r].row # None /\ tx[r].session = s
    <3>1. tx[r].row # None
      BY <2>1, BookingIdAssumption DEF InsertBooking, Settle, TypeInv, Sound
    <3>2. waitlist' = WithoutEntry(tx[r].session, tx[r].student)
      BY <2>1, <3>1 DEF InsertBooking, Settle
    <3> QED BY <3>1, <3>2, EntryDeleted
  <2>2. ASSUME NEW r \in Request, CommitJoin(r)
        PROVE  FALSE
    <3>1. /\ tx[r].count # 0 /\ tx[r].count \in Nat /\ waitlist \in [Session -> [Student -> Nat]]
      BY <2>2 DEF CommitJoin, OwnInv, Own, ToWrite, TypeInv, Tx, DbOK
    <3>2. waitlist' = [waitlist EXCEPT ![tx[r].session][tx[r].student] = tx[r].count]
      BY <2>2 DEF CommitJoin
    <3>3. waitlist'[s][st] = waitlist[s][st] \/ waitlist'[s][st] = tx[r].count
      BY <3>1, <3>2
    <3> QED BY <3>1, <3>3
  <2>3. ASSUME NEW r \in Request, Proceed(r)
        PROVE  \/ InsertBooking(r) \/ Settle(r) \/ CommitJoin(r)
               \/ UNCHANGED waitlist
    BY <2>3 DEF Proceed, ReadSession, LockSession, Admit, Refuse, Promote, ApplyStatus,
       CollectBooked, ReaccessBooking, CommitSessionCancel, SweepSession, VisitBooking,
       CloseSession, DeadlockVictim, db
  <2>4. ASSUME NEW r \in Request, Begin(r) \/ BeginSweep(r) \/ Crash(r) PROVE UNCHANGED waitlist
    BY <2>4 DEF Begin, BeginCreate, BeginCancel, BeginStatus, BeginJoin, BeginSessionCancel,
       BeginSweep, Crash, db
  <2>5. ASSUME \/ Tick
               \/ \E x \in Session, new \in SessionEdits : EditSession(x, new)
               \/ UNCHANGED vars
        PROVE  UNCHANGED waitlist
    BY <2>5 DEF Tick, EditSession, vars, db
  <2>6. ~UNCHANGED waitlist
    OBVIOUS
  <2>7. PICK r \in Request : Proceed(r)
    BY <2>4, <2>5, <2>6 DEF Next
  <2>8. InsertBooking(r) \/ Settle(r)
    BY <2>2, <2>3, <2>6, <2>7
  <2> QED BY <2>1, <2>8, SeatFreed
<1> HIDE DEF Kept
<1>2. [][Kept]_vars => PlaceLostOnlyToFreedSeat
  BY DEF PlaceLostOnlyToFreedSeat, Kept
<1>3. TypeInv /\ OwnInv /\ SeatInv /\ [Next]_vars => [Kept]_vars
  BY <1>1
<1> QED BY <1>2, <1>3, OwnInvariant, SeatInvariant, PTL DEF Spec


-------------------------------------------------------------------------------
(* A student's own bookings                                                  *)

(* Slots that overlap s and have a resource in common with it.               *)
Shared(s) == OverlappingRoomSessions(s) \cup OverlappingSameLabWorkSessions(s)
               \cup OverlappingStandSessions(s)

NotBookedBy(table, st, s) ==
  \A b \in BookingId :
    IsBooked(table, b) /\ table[b].student = st => table[b].session \notin Shared(s)

(* What a self-service request about to insert has seen is still so.         *)
Unclashed(r) ==
  tx[r].pc = "insert" /\ tx[r].registration = "AUTO" =>
    NotBookedBy(View(r), tx[r].student, tx[r].session)

ClashInv == \A r \in Request : Unclashed(r)

LEMMA SharedSlots ==
  ASSUME NEW s \in Session, NEW t \in Session
  PROVE  /\ t \in Shared(s) <=> s \in Shared(t)
         /\ t \in Shared(s) => Overlap(t, s) /\ t \in BookingLockIds(s)
<1>1. Overlap(t, s) <=> Overlap(s, t)
  <2>1. /\ StartsAt[s] \in Nat /\ EndsAt[s] \in Nat
        /\ StartsAt[t] \in Nat /\ EndsAt[t] \in Nat
    OBVIOUS
  <2> QED BY <2>1 DEF Overlap
<1>2. SameStand(s, t) <=> SameStand(t, s)
  BY DEF SameStand
<1> QED BY <1>1, <1>2 DEF Shared, BookingLockIds, OverlappingRoomSessions,
   OverlappingSameLabWorkSessions, OverlappingStandSessions

LEMMA OthersUnclashed ==
  ASSUME TypeInv, TypeInv', SeatInv, ClashInv, NEW r \in Request, OthersUndisturbed(r),
         NEW q \in Request, q # r
  PROVE  Unclashed(q)'
<1> SUFFICES ASSUME tx'[q].pc = "insert", tx'[q].registration = "AUTO", NEW b \in BookingId,
                    IsBooked(View(q)', b), View(q)'[b].student = tx'[q].student
             PROVE  View(q)'[b].session \notin Shared(tx'[q].session)
  BY DEF Unclashed, NotBookedBy
<1>1. /\ tx'[q] = tx[q] /\ Held(q) /\ Unclashed(q) /\ q # None
      /\ tx[q].session \in Session /\ bookings' \in Tables
  BY DEF OthersUndisturbed, SeatInv, ClashInv, TypeInv, Sound, DbOK
<1>2. tx[q].row # b /\ View(q)'[b] = bookings'[b] /\ View(q)[b] = bookings[b]
  BY <1>1, ViewRows, ViewRowsNext
<1>3. IsBooked(bookings', b) /\ bookings'[b].session \in Session
  <2>1. IsBooked(bookings', b)
    BY <1>2 DEF IsBooked
  <2> QED BY <1>1, <2>1 DEF IsBooked, Tables, Absent, BookingRow
<1>4. CASE bookings'[b] = bookings[b]
  BY <1>1, <1>2, <1>3, <1>4 DEF Unclashed, NotBookedBy, IsBooked
<1>5. CASE bookings'[b] # bookings[b]
  <2>1. sessionLock[bookings'[b].session] = r
    BY <1>3, <1>5 DEF OthersUndisturbed
  <2>2. bookings'[b].session \notin BookingLockIds(tx[q].session)
    BY <1>1, <2>1 DEF Held
  <2> QED BY <1>1, <1>2, <1>3, <2>2, SharedSlots
<1> QED BY <1>4, <1>5

LEMMA OnlyAdmitted ==
  ASSUME TypeInv, NEW r \in Request, Begin(r) \/ BeginSweep(r) \/ Proceed(r) \/ Crash(r),
         tx'[r].pc = "insert"
  PROVE  Admit(r)
<1>1. tx[r] \in Tx /\ tx \in [Request -> Tx]
  BY DEF TypeInv
<1>2. ASSUME Release(r) PROVE FALSE
  BY <1>1, <1>2 DEF Release, IdleTx
<1>3. ASSUME Begin(r) \/ BeginSweep(r) PROVE FALSE
  <2>1. ASSUME NEW st \in Student, NEW s \in Session, NEW d \in Discipline, NEW reg \in Registration,
               BeginCreate(r, st, s, d, reg)
        PROVE  FALSE
    BY <1>1, <2>1 DEF BeginCreate, IdleTx
  <2>2. ASSUME NEW b \in BookingId, NEW byStaff \in BOOLEAN, BeginCancel(r, b, byStaff) PROVE FALSE
    BY <1>1, <2>2 DEF BeginCancel, IdleTx
  <2>3. ASSUME NEW b \in BookingId, NEW new \in StaffStatuses, BeginStatus(r, b, new) PROVE FALSE
    BY <1>1, <2>3 DEF BeginStatus, IdleTx
  <2>4. ASSUME NEW st \in Student, NEW s \in Session, BeginJoin(r, st, s) PROVE FALSE
    BY <1>1, <2>4 DEF BeginJoin, IdleTx
  <2>5. ASSUME NEW s \in Session, BeginSessionCancel(r, s) PROVE FALSE
    BY <1>1, <2>5 DEF BeginSessionCancel, IdleTx
  <2>6. ASSUME BeginSweep(r) PROVE FALSE
    BY <1>1, <2>6 DEF BeginSweep, IdleTx
  <2>7. CASE \E st \in Student, s \in Session, d \in Discipline, reg \in Registration :
               BeginCreate(r, st, s, d, reg)
    BY <2>1, <2>7
  <2>8. CASE \E b \in BookingId, byStaff \in BOOLEAN : BeginCancel(r, b, byStaff)
    BY <2>2, <2>8
  <2>9. CASE \E b \in BookingId, new \in StaffStatuses : BeginStatus(r, b, new)
    BY <2>3, <2>9
  <2>10. CASE \E st \in Student, s \in Session : BeginJoin(r, st, s)
    BY <2>4, <2>10
  <2>11. CASE \E s \in Session : BeginSessionCancel(r, s)
    BY <2>5, <2>11
  <2> QED BY <1>3, <2>6, <2>7, <2>8, <2>9, <2>10, <2>11 DEF Begin
<1>4. ASSUME GiveUp(r) PROVE FALSE
  BY <1>1, <1>2, <1>4 DEF GiveUp, Tx
<1>5. ASSUME ReadSession(r) \/ LockSession(r) \/ Promote(r) PROVE FALSE
  <2>1. CASE ReadSession(r)
    BY <1>1, <2>1 DEF ReadSession, Tx
  <2>2. CASE LockSession(r)
    BY <1>1, <2>2 DEF LockSession
  <2>3. CASE Promote(r)
    BY <1>1, <2>3, Promoted
  <2> QED BY <1>5, <2>1, <2>2, <2>3
<1>6. ASSUME \/ CollectBooked(r) \/ \E b \in BookingId : ReaccessBooking(r, b) \/ VisitBooking(r, b)
             \/ \E s \in Session : SweepSession(r, s)
      PROVE  FALSE
  <2>1. CASE CollectBooked(r)
    BY <1>1, <2>1 DEF CollectBooked, Tx
  <2>2. ASSUME NEW b \in BookingId, ReaccessBooking(r, b) PROVE FALSE
    BY <1>1, <2>2 DEF ReaccessBooking, Tx
  <2>3. ASSUME NEW b \in BookingId, VisitBooking(r, b) PROVE FALSE
    BY <1>1, <2>3 DEF VisitBooking, Tx
  <2>4. ASSUME NEW s \in Session, SweepSession(r, s) PROVE FALSE
    BY <1>1, <2>4 DEF SweepSession, Tx
  <2> QED BY <1>6, <2>1, <2>2, <2>3, <2>4
<1>7. ASSUME CloseSession(r) PROVE FALSE
  BY <1>1, <1>7 DEF CloseSession, IdleTx
<1>8. ASSUME DeadlockVictim(r) PROVE FALSE
  BY <1>1, <1>2, <1>4, <1>8 DEF DeadlockVictim, Tx
<1> QED BY <1>2, <1>3, <1>4, <1>5, <1>6, <1>7, <1>8 DEF Proceed, Refuse, InsertBooking, Settle,
   ApplyStatus, CommitJoin, CommitSessionCancel, Crash

LEMMA AdmittedUnclashed ==
  ASSUME TypeInv, NEW r \in Request, Admit(r)
  PROVE  Unclashed(r)'
<1> DEFINE t == [tx[r] EXCEPT !.pc = "insert"]
<1>1. /\ tx' = [tx EXCEPT ![r] = t] /\ bookings' = bookings /\ tx[r] \in Tx
      /\ tx[r].session \in Session /\ MayBook(r) /\ bookings \in Tables
  BY DEF Admit, Locked, TypeInv, Sound, db, DbOK
<1>2. /\ t.row = tx[r].row /\ t.student = tx[r].student /\ t.session = tx[r].session
      /\ t.registration = tx[r].registration
  BY <1>1 DEF Tx
<1> HIDE DEF t
<1>3. tx'[r] = t
  BY <1>1 DEF TypeInv
<1>4. View(r)' = View(r)
  <2>1. tx'[r].row = tx[r].row /\ bookings' = bookings
    BY <1>1, <1>2, <1>3
  <2> QED BY <2>1 DEF View
<1>5. ASSUME tx[r].registration = "AUTO", NEW b \in BookingId, IsBooked(View(r), b),
             View(r)[b].student = tx[r].student
      PROVE  View(r)[b].session \notin Shared(tx[r].session)
  <2>1. ~StudentOverlapBooked(View(r), tx[r].student, tx[r].session)
    BY <1>1, <1>5 DEF MayBook, Registration
  <2>2. ~Overlap(View(r)[b].session, tx[r].session)
    BY <1>5, <2>1 DEF StudentOverlapBooked
  <2>3. View(r)[b].session \in Session
    <3>0. View(r) \in Tables
      BY ViewType
    <3>1. View(r)[b] \in BookingRow \cup {Absent}
      BY <3>0 DEF Tables
    <3>2. View(r)[b].status = "BOOKED"
      BY <1>5 DEF IsBooked
    <3> QED BY <3>1, <3>2 DEF Absent, BookingRow
  <2> QED BY <1>1, <2>2, <2>3, SharedSlots
<1> QED BY <1>2, <1>3, <1>4, <1>5 DEF Unclashed, NotBookedBy


LEMMA ClashStep ==
  StaffNeverRebooks /\ TypeInv /\ TypeInv' /\ SeatInv /\ ClashInv /\ [Next]_vars => ClashInv'
<1> SUFFICES ASSUME StaffNeverRebooks, TypeInv, TypeInv', SeatInv, ClashInv, [Next]_vars
             PROVE  ClashInv'
  OBVIOUS
<1>1. ASSUME NEW r \in Request, Begin(r) \/ BeginSweep(r) \/ Proceed(r) \/ Crash(r)
      PROVE  ClashInv'
  <2>1. Unclashed(r)'
    BY <1>1, OnlyAdmitted, AdmittedUnclashed DEF Unclashed
  <2>2. \A q \in Request \ {r} : Unclashed(q)'
    BY <1>1, RequestStep, OthersUnclashed
  <2> QED BY <2>1, <2>2 DEF ClashInv
<1>2. ASSUME UNCHANGED <<bookings, tx>>
      PROVE  ClashInv'
  BY <1>2 DEF ClashInv, Unclashed, NotBookedBy, View, IsBooked
<1>3. CASE Tick \/ (\E s \in Session, new \in SessionEdits : EditSession(s, new)) \/ UNCHANGED vars
  BY <1>2, <1>3 DEF Tick, EditSession, vars, db
<1> QED BY <1>1, <1>3 DEF Next

(* Two self-service bookings of a student share no overlapping resource.     *)
Apart(b, c) ==
  /\ b # c
  /\ IsBooked(bookings, b) /\ bookings[b].registration = "AUTO"
  /\ IsBooked(bookings, c) /\ bookings[c].registration = "AUTO"
  /\ bookings[b].student = bookings[c].student
  => bookings[b].session \notin Shared(bookings[c].session)

ApartInv == \A b, c \in BookingId : Apart(b, c)

(* A row that is BOOKED after a step was so before it, or was just inserted  *)
(* by a request whose view of every other booked row was that of the table.  *)
LEMMA BookedAfter ==
  ASSUME StaffNeverRebooks, TypeInv, OwnInv, [Next]_vars, NEW b \in BookingId,
         IsBooked(bookings', b), bookings'[b] # bookings[b]
  PROVE  \E r \in Request : /\ InsertBooking(r) /\ bookings[b] = Absent
                            /\ bookings'[b] = NewBooking(r)
<1>1. Changed(b)
  BY RowChanges
<1> QED BY <1>1 DEF Changed, IsBooked, OwnInv, Own, ToWrite, StaffNeverRebooks

(* The other booked rows, as the request that inserts b saw them.            *)
LEMMA OthersSeen ==
  ASSUME TypeInv, TypeInv', SeatInv, ClashInv, NEW r \in Request, InsertBooking(r),
         NEW b \in BookingId, bookings[b] = Absent, bookings'[b] = NewBooking(r),
         NEW c \in BookingId, c # b,
         IsBooked(bookings', c), tx[r].registration = "AUTO",
         bookings'[c].student = tx[r].student
  PROVE  bookings'[c].session \in Session /\ bookings'[c].session \notin Shared(tx[r].session)
<1>1. PICK n \in Unused : bookings' = [View(r) EXCEPT ![n] = NewBooking(r)]
  BY DEF InsertBooking
<1>2. View(r) \in Tables /\ n \in BookingId /\ b \in BookingId
  BY ViewType DEF Unused
<1>3. n = b
  <2>1. View(r)[b] = Absent
    BY ViewType
  <2>2. n # b => bookings'[b] = Absent
    BY <1>1, <1>2, <2>1 DEF Tables
  <2> QED BY <2>2, NewRow DEF Absent
<1>4. bookings'[c] = View(r)[c]
  BY <1>1, <1>2, <1>3 DEF Tables
<1>5. IsBooked(View(r), c) /\ View(r)[c].student = tx[r].student
  BY <1>4 DEF IsBooked
<1>6. View(r)[c].session \in Session
  <2>1. View(r)[c] \in BookingRow \cup {Absent}
    BY <1>2 DEF Tables
  <2> QED BY <1>5, <2>1 DEF IsBooked, Absent, BookingRow
<1>7. tx[r].pc = "insert"
  BY DEF InsertBooking
<1> QED BY <1>4, <1>5, <1>6, <1>7 DEF ClashInv, Unclashed, NotBookedBy

LEMMA ApartStep ==
  /\ StaffNeverRebooks /\ TypeInv /\ TypeInv' /\ SeatInv /\ OwnInv /\ ClashInv /\ ApartInv
  /\ [Next]_vars
  => ApartInv'
<1> SUFFICES ASSUME StaffNeverRebooks, TypeInv, TypeInv', SeatInv, OwnInv, ClashInv, ApartInv,
                    [Next]_vars, NEW b \in BookingId, NEW c \in BookingId, b # c,
                    IsBooked(bookings', b), bookings'[b].registration = "AUTO",
                    IsBooked(bookings', c), bookings'[c].registration = "AUTO",
                    bookings'[b].student = bookings'[c].student
             PROVE  bookings'[b].session \notin Shared(bookings'[c].session)
  BY DEF ApartInv, Apart
<1>1. CASE bookings'[b] = bookings[b] /\ bookings'[c] = bookings[c]
  BY <1>1 DEF ApartInv, Apart, IsBooked
<1>2. ASSUME NEW x \in BookingId, NEW y \in BookingId, x # y, bookings'[x] # bookings[x],
             IsBooked(bookings', x), IsBooked(bookings', y),
             bookings'[x].registration = "AUTO", bookings'[x].student = bookings'[y].student
      PROVE  /\ bookings'[y].session \notin Shared(bookings'[x].session)
             /\ bookings'[x].session \notin Shared(bookings'[y].session)
  <2>1. PICK r \in Request : InsertBooking(r) /\ bookings[x] = Absent /\ bookings'[x] = NewBooking(r)
    BY <1>2, BookedAfter
  <2>2. /\ bookings'[x].session = tx[r].session /\ bookings'[x].student = tx[r].student
        /\ tx[r].registration = "AUTO" /\ tx[r].session \in Session
    BY <1>2, <2>1, NewRow DEF InsertBooking, TypeInv, Sound
  <2>3. bookings'[y].session \in Session /\ bookings'[y].session \notin Shared(tx[r].session)
    BY <1>2, <2>1, <2>2, OthersSeen
  <2> QED BY <2>2, <2>3, SharedSlots
<1>3. CASE bookings'[b] # bookings[b]
  BY <1>2, <1>3
<1>4. CASE bookings'[c] # bookings[c]
  BY <1>2, <1>4
<1> QED BY <1>1, <1>3, <1>4

(* Self-service sells a student no two overlapping slots that share a room,  *)
(* a lab work or a stand, for any timetable and however requests interleave, *)
(* as long as staff never rebooks.                                           *)
THEOREM NoSharedDoubleBooking ==
  ASSUME StaffNeverRebooks
  PROVE  Spec => []NoDoubleBookingOnSharedResource
<1>1. Init => ClashInv /\ ApartInv
  BY DEF Init, ClashInv, Unclashed, IdleTx, ApartInv, Apart, IsBooked, Absent
<1>2. /\ TypeInv /\ TypeInv' /\ SeatInv /\ OwnInv /\ ClashInv /\ ApartInv /\ [Next]_vars
      => ClashInv' /\ ApartInv'
  BY ClashStep, ApartStep
<1>3. TypeInv /\ ApartInv => NoDoubleBookingOnSharedResource
  BY DEF ApartInv, Apart, NoDoubleBookingOnSharedResource, AutoSeats, BookedIn, Shared
<1> QED BY <1>1, <1>2, <1>3, OwnInvariant, SeatInvariant, PTL DEF Spec
================================================================================
