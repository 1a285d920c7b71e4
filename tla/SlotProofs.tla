------------------------------ MODULE SlotProofs ------------------------------
(*****************************************************************************)
(* What the writers of slots keep for any number of lab works, slots and     *)
(* bookings: rows refer to rows, a booking's copies follow its slot, slots   *)
(* stay unique and keep the capacity of their lab work, and only the         *)
(* deletion of a lab work loses bookings.                                    *)
(*****************************************************************************)
EXTENDS SlotLifecycle, WellFoundedInduction, TLAPS

-------------------------------------------------------------------------------
(* The inductive invariant                                                   *)

Suspected(lw) == lw \in suspect

(* A sync still has this slot ahead of it.                                   *)
Pending(s) ==
  /\ form.resize /\ form.work = slots[s].work
  /\ form.pc = "list" \/ (form.pc = "resize" /\ s \in form.todo)

Upcoming(s) == slots[s].status = "OPEN" /\ slots[s].starts > now

FittedTo(slot) == slot.capacity = LabSessionCapacity(works[slot.work].capacity, slot.room)

(* An open future slot has the capacity its lab work gives it, or will get   *)
(* it from the request in flight.                                            *)
Fitted ==
  \A s \in Exists(slots) : Upcoming(s) /\ slots[s].work \notin suspect
                             => FittedTo(slots[s]) \/ Pending(s)

(* The slots a generation still writes were read from lab works that have    *)
(* not been edited since; without a generation there are none.               *)
GenSound ==
  /\ \A slot \in gen.todo : slot.work \in Exists(works) \ suspect => FittedTo(slot)
  /\ ~gen.on => gen.todo = {}

(* The form's slots are those of its lab work, and a sync writes the         *)
(* capacity that the form has just saved.                                    *)
FormSound ==
  /\ form.pc \in {"idle", "list", "delete"} => form.todo = {}
  /\ form.pc # "idle" => form.work \in LabWork
  /\ form.pc = "resize" => form.resize
  /\ \A s \in form.todo : slots[s].work = form.work \/ slots[s].work \in suspect
  /\ form.resize /\ form.work \in Exists(works) \ suspect
       => form.capacity = works[form.work].capacity

SlotInv == TypeOK /\ BookingFollowsSlot /\ SlotsUnique /\ Fitted /\ GenSound /\ FormSound


-------------------------------------------------------------------------------
(* Rows and keys                                                             *)

LEMMA RowsExist ==
  ASSUME NEW K, NEW Row, NEW table \in [K -> Row \cup {Absent, Deleted}],
         Absent \notin Row, Deleted \notin Row
  PROVE  Exists(table) = {k \in K : table[k] \in Row}
BY DEF Exists

LEMMA NotRows ==
  /\ Absent \notin WorkRow \cup SlotRow \cup BookingRow
  /\ Deleted \notin WorkRow \cup SlotRow \cup BookingRow
<1>1. \A row \in WorkRow \cup SlotRow \cup BookingRow :
        row.status # "ABSENT" /\ row.status # "DELETED"
  BY DEF WorkRow, SlotRow, BookingRow, SlotStatus
<1>2. Absent.status = "ABSENT" /\ Deleted.status = "DELETED"
  BY DEF Absent, Deleted
<1>3. QED BY <1>1, <1>2

LEMMA ExistingSlots ==
  ASSUME NEW table \in [SlotId -> SlotRow \cup {Absent}]
  PROVE  Exists(table) = {s \in SlotId : table[s] \in SlotRow}
<1>1. table \in [SlotId -> SlotRow \cup {Absent, Deleted}]
  OBVIOUS
<1>2. QED BY <1>1, NotRows, RowsExist

LEMMA ExistingBookings ==
  ASSUME NEW table \in [BookingId -> BookingRow \cup {Absent}]
  PROVE  Exists(table) = {b \in BookingId : table[b] \in BookingRow}
<1>1. table \in [BookingId -> BookingRow \cup {Absent, Deleted}]
  OBVIOUS
<1>2. QED BY <1>1, NotRows, RowsExist

LEMMA ExistingWorks ==
  ASSUME NEW table \in [LabWork -> WorkRow \cup {Absent, Deleted}]
  PROVE  Exists(table) = {lw \in LabWork : table[lw] \in WorkRow}
BY NotRows, RowsExist

(* The least key of a non-empty set of keys is one of them.                  *)
LEMMA LeastIn ==
  ASSUME NEW S, S \subseteq Nat, S # {}
  PROVE  Least(S) \in S
<1> DEFINE R == {p \in Nat \X Nat : p[1] < p[2]}
<1>1. IsWellFoundedOn(R, Nat)
  BY NatLessThanWellFounded DEF OpToRel
<1>2. \A x, y \in Nat : x < y => <<x, y>> \in R
  OBVIOUS
<1> HIDE DEF R
<1>3. PICK k \in S : \A other \in S : <<other, k>> \notin R
  BY <1>1, WFMin
<1>4. \A other \in S : k \in Nat /\ other \in Nat /\ ~(other < k)
  BY <1>2, <1>3
<1>5. \A other \in S : k <= other
  BY <1>4
<1>6. QED BY <1>5 DEF Least


(* A merge moves the rows of a duplicate to its keeper, which stays.         *)
LEMMA KeepersStay ==
  ASSUME NEW lw \in Exists(works)
  PROVE  /\ KeeperOf(lw) \in Exists(works)
         /\ KeeperOf(KeeperOf(lw)) = KeeperOf(lw)
         /\ KeeperOf(lw) # lw => KeeperOf(lw) \in Keepers
<1>1. \A k \in Keepers : KeeperOf(k) = k /\ k \in Exists(works)
  BY DEF Keepers, KeeperOf
<1>2. CASE \E k \in Keepers : lw \in Duplicates(k)
  <2>1. KeeperOf(lw) \in Keepers
    BY <1>2 DEF KeeperOf
  <2>2. QED BY <1>1, <2>1
<1>3. CASE ~\E k \in Keepers : lw \in Duplicates(k)
  BY <1>3 DEF KeeperOf
<1>4. QED BY <1>2, <1>3

LEMMA MergedWork ==
  ASSUME TypeOK, NEW lw \in Exists(works), NEW field \in {"duration", "capacity"},
         NEW default, NEW Values, \A d \in Exists(works) : works[d][field] \in Values
  PROVE  Merged(field, default, lw) \in Values
<1> DEFINE telling == {d \in Duplicates(lw) : works[d][field] # default}
<1>1. telling \subseteq Exists(works) /\ telling \subseteq Nat
  BY SlotAssumption DEF Duplicates, Exists, TypeOK
<1>2. CASE telling # {}
  <2>1. Least(telling) \in telling
    BY <1>1, <1>2, LeastIn
  <2>2. QED BY <1>1, <2>1 DEF Merged
<1>3. CASE telling = {}
  BY <1>3 DEF Merged
<1>4. QED BY <1>2, <1>3

(* What a merge writes over the lab works.                                   *)
MergedWorks ==
  [lw \in LabWork |->
     IF KeeperOf(lw) # lw THEN Deleted
     ELSE IF lw \in Keepers
          THEN [works[lw] EXCEPT !.duration = Merged("duration", DefaultDuration, lw),
                                 !.capacity = Merged("capacity", DefaultSeats, lw)]
          ELSE works[lw]]

LEMMA MergedWorksSound ==
  ASSUME TypeOK
  PROVE  /\ MergedWorks \in [LabWork -> WorkRow \cup {Absent, Deleted}]
         /\ \A lw \in Exists(works) : KeeperOf(lw) \in Exists(MergedWorks)
         /\ \A lw \in Exists(MergedWorks) :
              /\ lw \in Exists(works) /\ KeeperOf(lw) = lw
              /\ lw \notin Keepers => MergedWorks[lw] = works[lw]
<1>1. Exists(works) = {lw \in LabWork : works[lw] \in WorkRow}
  BY ExistingWorks DEF TypeOK
<1>2. \A lw \in Exists(works) : works[lw]["duration"] \in Duration /\ works[lw]["capacity"] \in Seats
  BY <1>1 DEF WorkRow
<1>3. \A lw \in Exists(works) : /\ Merged("duration", DefaultDuration, lw) \in Duration
                                /\ Merged("capacity", DefaultSeats, lw) \in Seats
  BY <1>2, MergedWork
<1>4. \A lw \in Exists(works) : KeeperOf(lw) = lw => MergedWorks[lw] \in WorkRow
  <2> SUFFICES ASSUME NEW lw \in Exists(works), KeeperOf(lw) = lw
               PROVE  MergedWorks[lw] \in WorkRow
    OBVIOUS
  <2> DEFINE d == Merged("duration", DefaultDuration, lw)
             c == Merged("capacity", DefaultSeats, lw)
  <2>1. lw \in LabWork /\ works[lw] \in WorkRow /\ d \in Duration /\ c \in Seats
    BY <1>1, <1>3
  <2>2. MergedWorks[lw] \in {works[lw], [works[lw] EXCEPT !.duration = d, !.capacity = c]}
    BY <2>1 DEF MergedWorks
  <2> HIDE DEF d, c
  <2>3. QED BY <2>1, <2>2 DEF WorkRow
<1>5. \A lw \in LabWork : lw \notin Exists(works) => MergedWorks[lw] \in {Absent, Deleted}
  <2> SUFFICES ASSUME NEW lw \in LabWork, lw \notin Exists(works)
               PROVE  MergedWorks[lw] \in {Absent, Deleted}
    OBVIOUS
  <2>1. works[lw] \in {Absent, Deleted} /\ lw \notin Keepers
    BY DEF Exists, Keepers, TypeOK
  <2>2. QED BY <2>1 DEF MergedWorks
<1>6. \A lw \in LabWork : KeeperOf(lw) # lw => MergedWorks[lw] = Deleted
  BY DEF MergedWorks
<1>7. MergedWorks \in [LabWork -> WorkRow \cup {Absent, Deleted}]
  <2>1. \A lw \in LabWork : MergedWorks[lw] \in WorkRow \cup {Absent, Deleted}
    BY <1>4, <1>5, <1>6
  <2>2. QED BY <2>1 DEF MergedWorks
<1>8. Exists(MergedWorks) = {lw \in LabWork : MergedWorks[lw] \in WorkRow}
  BY <1>7, ExistingWorks
<1>9. \A lw \in Exists(MergedWorks) : lw \in Exists(works) /\ KeeperOf(lw) = lw
  BY <1>5, <1>6, <1>8, NotRows
<1>10. \A lw \in Exists(works) : KeeperOf(lw) \in Exists(MergedWorks)
  BY <1>1, <1>4, <1>8, KeepersStay
<1>11. \A lw \in LabWork : KeeperOf(lw) = lw /\ lw \notin Keepers => MergedWorks[lw] = works[lw]
  BY DEF MergedWorks
<1>12. QED BY <1>1, <1>7, <1>9, <1>10, <1>11


-------------------------------------------------------------------------------
(* Types                                                                     *)

LEMMA CapacityNat ==
  ASSUME NEW c \in Nat, NEW room \in Room
  PROVE  LabSessionCapacity(c, room) \in Nat
BY SlotAssumption DEF LabSessionCapacity

LEMMA TypeInit == Init => TypeOK
<1> SUFFICES ASSUME Init PROVE TypeOK
  OBVIOUS
<1>1. works \in [LabWork -> WorkRow \cup {Absent, Deleted}]
  BY RowsAssumption DEF Init
<1>2. Exists(slots) = {} /\ Exists(bookings) = {}
  BY DEF Init, Exists
<1>3. slots \in [SlotId -> SlotRow \cup {Absent}] /\ bookings \in [BookingId -> BookingRow \cup {Absent}]
  BY DEF Init
<1>4. gen \in [on : BOOLEAN, todo : SUBSET SlotRow]
  BY DEF Init, NoRun
<1>5. form \in FormState /\ form.todo = {}
  BY DEF Init, NoForm, FormState
<1>6. QED BY <1>1, <1>2, <1>3, <1>4, <1>5 DEF Init, TypeOK

LEMMA GeneratedRows ==
  ASSUME TypeOK, NEW lw \in Exists(works), works[lw].room # None, NEW t \in Nat
  PROVE  GeneratedSlot(lw, t) \in SlotRow
<1> DEFINE work == works[lw]
           c == LabSessionCapacity(work.capacity, work.room)
<1>1. lw \in LabWork /\ work \in WorkRow
  BY ExistingWorks DEF TypeOK
<1>2. work.room \in Room /\ work.duration \in Nat /\ work.capacity \in Nat
  BY <1>1, SlotAssumption DEF WorkRow
<1>3. c \in Nat /\ t + work.duration \in Nat
  BY <1>2, CapacityNat
<1>4. GeneratedSlot(lw, t) = [status |-> "OPEN", work |-> lw, room |-> work.room, starts |-> t,
                              ends |-> t + work.duration, capacity |-> c]
  BY DEF GeneratedSlot
<1> HIDE DEF c, work
<1>5. QED BY <1>1, <1>2, <1>3, <1>4 DEF SlotRow, SlotStatus

LEMMA TypeBeginGenerate == TypeOK /\ BeginGenerate => TypeOK'
<1> SUFFICES ASSUME TypeOK, BeginGenerate PROVE TypeOK'
  OBVIOUS
<1>1. \A slot \in gen'.todo : \E lw \in Exists(works), t \in Nat :
         works[lw].room # None /\ slot = GeneratedSlot(lw, t)
  BY SlotAssumption DEF BeginGenerate, TypeOK
<1>2. gen'.todo \subseteq SlotRow
  BY <1>1, GeneratedRows
<1>3. gen' \in [on : BOOLEAN, todo : SUBSET SlotRow]
  <2>1. PICK T : gen' = [on |-> TRUE, todo |-> T]
    BY DEF BeginGenerate
  <2>2. T \in SUBSET SlotRow
    BY <1>2, <2>1
  <2>3. QED BY <2>1, <2>2
<1>4. QED BY <1>3 DEF BeginGenerate, TypeOK

LEMMA TargetSlot ==
  ASSUME TypeOK, NEW slot \in gen.todo, GenerateSlot(slot)
  PROVE  \E s \in SlotId :
           /\ slots' = [slots EXCEPT ![s] = slot]
           /\ slot \in SlotRow /\ slot.work \in Exists(works)
           /\ \/ SlotsAt(slot) = {} /\ s \notin Exists(slots)
              \/ s \in SlotsAt(slot)
<1> DEFINE found == SlotsAt(slot)
<1>1. found \subseteq Exists(slots) /\ Exists(slots) \subseteq SlotId /\ SlotId \subseteq Nat
  BY SlotAssumption DEF SlotsAt, SlotsOf, Exists, TypeOK
<1>2. slot \in SlotRow /\ slot.work \in Exists(works)
  BY DEF GenerateSlot, TypeOK
<1>3. CASE found = {}
  <2>1. Unused(slots) # {} /\ Unused(slots) \subseteq SlotId
    BY <1>3 DEF GenerateSlot, Unused, TypeOK
  <2>2. PICK s \in Unused(slots) : s = Least(Unused(slots))
    BY <1>1, <2>1, LeastIn
  <2>3. slots' = [slots EXCEPT ![s] = slot]
    BY <1>3, <2>2 DEF GenerateSlot
  <2>4. s \notin Exists(slots) /\ s \in SlotId
    BY <2>1, <2>2 DEF Unused, Exists
  <2>5. QED BY <1>2, <1>3, <2>3, <2>4
<1>4. CASE found # {}
  <2>1. PICK s \in found : s = Least(found)
    BY <1>1, <1>4, LeastIn
  <2>2. slots' = [slots EXCEPT ![s] = slot]
    BY <1>4, <2>1 DEF GenerateSlot
  <2>3. QED BY <1>1, <1>2, <2>1, <2>2
<1>5. QED BY <1>3, <1>4

LEMMA TypeGenerateSlot ==
  ASSUME TypeOK, NEW slot \in gen.todo, GenerateSlot(slot)
  PROVE  TypeOK'
<1>1. PICK s \in SlotId : slots' = [slots EXCEPT ![s] = slot] /\ slot \in SlotRow
                          /\ slot.work \in Exists(works)
  BY TargetSlot
<1>2. slots' \in [SlotId -> SlotRow \cup {Absent}]
  BY <1>1 DEF TypeOK
<1>3. /\ Exists(slots) = {x \in SlotId : slots[x] \in SlotRow}
      /\ Exists(slots') = {x \in SlotId : slots'[x] \in SlotRow}
  BY <1>2, ExistingSlots DEF TypeOK
<1>4. Exists(slots) \subseteq Exists(slots')
  BY <1>1, <1>3 DEF TypeOK
<1>5. \A x \in Exists(slots') : slots'[x].work \in Exists(works)
  BY <1>1, <1>3 DEF TypeOK
<1>6. gen' \in [on : BOOLEAN, todo : SUBSET SlotRow]
  BY DEF GenerateSlot, TypeOK
<1>7. QED BY <1>2, <1>4, <1>5, <1>6 DEF GenerateSlot, TypeOK

LEMMA TypeEndGenerate ==
  ASSUME TypeOK, gen' = NoRun, UNCHANGED <<now, works, slots, bookings, form, suspect>>
  PROVE  TypeOK'
<1>1. gen' \in [on : BOOLEAN, todo : SUBSET SlotRow]
  BY DEF NoRun
<1>2. QED BY <1>1 DEF TypeOK


(* Form steps leave slots and bookings alone, but for the two saves.         *)
LEMMA TypeSaveLabWork ==
  ASSUME TypeOK, NEW lw \in LabWork, NEW row \in FormRows, SaveLabWork(lw, row),
         works[lw] # Deleted
  PROVE  TypeOK'
<1>1. FreeCode(lw) \in Code
  <2>1. FreeCodes(lw) \subseteq Code /\ FreeCodes(lw) \subseteq Nat /\ FreeCodes(lw) # {}
    BY SlotAssumption DEF FreeCodes, SaveLabWork
  <2>2. QED BY <2>1, LeastIn DEF FreeCode
<1>2. row \in WorkRow
  BY RowsAssumption
<1>3. PICK saved : saved = [row EXCEPT !.code = FreeCode(lw)]
  OBVIOUS
<1>4. saved \in WorkRow
  BY <1>1, <1>2, <1>3 DEF WorkRow
<1>5. works' = [works EXCEPT ![lw] = saved]
  BY <1>3 DEF SaveLabWork
<1>6. works' \in [LabWork -> WorkRow \cup {Absent, Deleted}]
  BY <1>4, <1>5 DEF TypeOK
<1>7. Exists(works) \subseteq Exists(works')
  BY <1>4, <1>5, <1>6, ExistingWorks DEF TypeOK
<1>8. form' \in FormState /\ form'.todo = {}
  <2>1. row.capacity \in Nat /\ row.duration \in Nat
    BY <1>2, SlotAssumption DEF WorkRow
  <2>2. PICK p \in {"list", "idle"}, w \in {lw, None}, c \in {row.capacity, 0},
             d \in {row.duration, 0}, resize \in BOOLEAN, retime \in BOOLEAN :
          form' = [NoForm EXCEPT !.pc = p, !.work = w, !.resize = resize, !.retime = retime,
                                 !.capacity = c, !.duration = d]
    BY DEF SaveLabWork
  <2>3. form' = [pc |-> p, work |-> w, todo |-> {}, resize |-> resize, retime |-> retime,
                 capacity |-> c, duration |-> d]
    BY <2>2 DEF NoForm
  <2>4. QED BY <2>1, <2>3 DEF FormState
<1>9. suspect' \subseteq LabWork
  BY DEF SaveLabWork, TypeOK
<1>10. QED BY <1>6, <1>7, <1>8, <1>9 DEF SaveLabWork, TypeOK

(* A request that changes nothing but itself.                                *)
LEMMA TypeForm ==
  ASSUME TypeOK, form' \in FormState, form'.todo \subseteq Exists(slots),
         UNCHANGED <<now, works, slots, bookings, gen, suspect>>
  PROVE  TypeOK'
BY DEF TypeOK

LEMMA NoFormTyped == NoForm \in FormState /\ NoForm.todo = {}
BY DEF NoForm, FormState

LEMMA TypeListing ==
  ASSUME TypeOK, ListForCapacity \/ ListForDuration
  PROVE  TypeOK'
<1>1. Exists(slots) \subseteq SlotId
  BY DEF Exists, TypeOK
<1>2. PICK p \in {"resize", "retime"}, T \in SUBSET Exists(slots) :
        form' = [form EXCEPT !.pc = p, !.todo = T]
  BY DEF ListForCapacity, ListForDuration, FutureOpen, Unbooked, SlotsOf
<1>3. form' \in FormState /\ form'.todo = T
  BY <1>1, <1>2 DEF FormState, TypeOK
<1>4. QED BY <1>2, <1>3, TypeForm DEF ListForCapacity, ListForDuration

LEMMA TypeEndSync == TypeOK /\ EndSync => TypeOK'
<1> SUFFICES ASSUME TypeOK, EndSync PROVE TypeOK'
  OBVIOUS
<1>1. form' = NoForm \/ form' = [form EXCEPT !.pc = "list", !.resize = FALSE]
  BY DEF EndSync
<1>2. form' \in FormState /\ form'.todo = {}
  BY <1>1, NoFormTyped DEF EndSync, FormState, TypeOK
<1>3. QED BY <1>2, TypeForm DEF EndSync

LEMMA TypeBeginDelete == TypeOK /\ (\E lw \in LabWork : BeginDelete(lw)) => TypeOK'
<1> SUFFICES ASSUME TypeOK, NEW lw \in LabWork, BeginDelete(lw) PROVE TypeOK'
  OBVIOUS
<1>1. form' \in FormState /\ form'.todo = {}
  BY DEF BeginDelete, NoForm, FormState
<1>2. QED BY <1>1, TypeForm DEF BeginDelete

(* The saves change one field of one slot.                                   *)
SlotEdited(s) ==
  /\ slots' \in [SlotId -> SlotRow \cup {Absent}]
  /\ \A x \in SlotId \ {s} : slots'[x] = slots[x]
  /\ slots[s] \in SlotRow /\ slots'[s] \in SlotRow
  /\ slots'[s].work = slots[s].work /\ slots'[s].room = slots[s].room
  /\ slots'[s].starts = slots[s].starts

LEMMA SlotEdit ==
  ASSUME TypeOK, NEW s \in Exists(slots), NEW row \in SlotRow,
         slots' = [slots EXCEPT ![s] = row], row.work = slots[s].work,
         row.room = slots[s].room, row.starts = slots[s].starts
  PROVE  SlotEdited(s)
<1>1. s \in SlotId /\ slots[s] \in SlotRow
  BY ExistingSlots DEF TypeOK
<1>2. QED BY <1>1 DEF SlotEdited, TypeOK

LEMMA SaveCapacityEdits ==
  ASSUME TypeOK, NEW s \in SlotId, SaveCapacity(s)
  PROVE  /\ SlotEdited(s) /\ s \in Exists(slots) /\ slots'[s].status = slots[s].status
         /\ slots'[s].capacity = LabSessionCapacity(form.capacity, slots[s].room)
<1>1. s \in Exists(slots) /\ slots[s] \in SlotRow
  BY ExistingSlots DEF SaveCapacity, TypeOK
<1>2. PICK c : c = LabSessionCapacity(form.capacity, slots[s].room)
  OBVIOUS
<1>3. c \in Nat
  BY <1>1, <1>2, CapacityNat DEF TypeOK, FormState, SlotRow
<1>4. PICK row : row = [slots[s] EXCEPT !.capacity = c]
  OBVIOUS
<1>5. /\ row \in SlotRow /\ row.work = slots[s].work /\ row.room = slots[s].room
      /\ row.starts = slots[s].starts /\ row.status = slots[s].status /\ row.capacity = c
  BY <1>1, <1>3, <1>4 DEF SlotRow
<1>6. slots' = [slots EXCEPT ![s] = row]
  BY <1>2, <1>4 DEF SaveCapacity
<1>7. SlotEdited(s)
  BY <1>1, <1>5, <1>6, SlotEdit
<1>8. QED BY <1>1, <1>2, <1>5, <1>6, <1>7 DEF TypeOK

LEMMA SaveDurationEdits ==
  ASSUME TypeOK, NEW s \in SlotId, SaveDuration(s)
  PROVE  /\ SlotEdited(s) /\ s \in Exists(slots) /\ slots'[s].status = slots[s].status
         /\ slots'[s].capacity = slots[s].capacity
<1>1. s \in Exists(slots) /\ slots[s] \in SlotRow
  BY ExistingSlots DEF SaveDuration, TypeOK
<1>2. PICK e : e = slots[s].starts + form.duration
  OBVIOUS
<1>3. e \in Nat
  BY <1>1, <1>2 DEF TypeOK, FormState, SlotRow
<1>4. PICK row : row = [slots[s] EXCEPT !.ends = e]
  OBVIOUS
<1>5. /\ row \in SlotRow /\ row.work = slots[s].work /\ row.room = slots[s].room
      /\ row.starts = slots[s].starts /\ row.status = slots[s].status
      /\ row.capacity = slots[s].capacity
  BY <1>1, <1>3, <1>4 DEF SlotRow
<1>6. slots' = [slots EXCEPT ![s] = row]
  BY <1>2, <1>4 DEF SaveDuration
<1>7. SlotEdited(s)
  BY <1>1, <1>5, <1>6, SlotEdit
<1>8. QED BY <1>1, <1>5, <1>6, <1>7 DEF TypeOK

LEMMA StatusEdits ==
  ASSUME TypeOK, NEW s \in Exists(slots), NEW new \in SlotStatus,
         slots' = [slots EXCEPT ![s].status = new]
  PROVE  /\ SlotEdited(s) /\ slots'[s].status = new
         /\ slots'[s].capacity = slots[s].capacity
<1>1. slots[s] \in SlotRow
  BY ExistingSlots DEF TypeOK
<1>2. PICK row : row = [slots[s] EXCEPT !.status = new]
  OBVIOUS
<1>3. /\ row \in SlotRow /\ row.work = slots[s].work /\ row.room = slots[s].room
      /\ row.starts = slots[s].starts /\ row.status = new
      /\ row.capacity = slots[s].capacity
  BY <1>1, <1>2 DEF SlotRow
<1>4. slots' = [slots EXCEPT ![s] = row]
  BY <1>2
<1>5. SlotEdited(s)
  BY <1>3, <1>4, SlotEdit
<1>6. QED BY <1>3, <1>4, <1>5 DEF TypeOK, Exists

(* Steps that neither add nor drop a slot, nor change a slot's key.          *)
KeysKept ==
  /\ slots' \in [SlotId -> SlotRow \cup {Absent}]
  /\ Exists(slots') = Exists(slots)
  /\ \A x \in Exists(slots) : /\ slots'[x].work = slots[x].work
                              /\ slots'[x].room = slots[x].room
                              /\ slots'[x].starts = slots[x].starts

LEMMA EditedKeys ==
  ASSUME TypeOK, NEW s \in SlotId, SlotEdited(s)
  PROVE  KeysKept
<1>1. /\ Exists(slots) = {x \in SlotId : slots[x] \in SlotRow}
      /\ Exists(slots') = {x \in SlotId : slots'[x] \in SlotRow}
  BY ExistingSlots DEF SlotEdited, TypeOK
<1>2. QED BY <1>1 DEF SlotEdited, KeysKept


LEMMA SameKeys ==
  ASSUME TypeOK, slots' = slots
  PROVE  KeysKept
BY DEF TypeOK, KeysKept

(* Sessions that have ended are closed, all in one statement.                *)
LEMMA ClosedSlots ==
  ASSUME TypeOK, MarkVisited
  PROVE  /\ KeysKept
         /\ \A s \in Exists(slots) : /\ slots'[s].capacity = slots[s].capacity
                                     /\ slots'[s].status \in {slots[s].status, "CLOSED"}
<1> DEFINE ended == {s \in Exists(slots) : slots[s].ends <= now /\ slots[s].status = "OPEN"}
<1>1. slots' = [s \in SlotId |-> IF s \in ended THEN [slots[s] EXCEPT !.status = "CLOSED"]
                                 ELSE slots[s]]
  BY DEF MarkVisited
<1>2. Exists(slots) = {x \in SlotId : slots[x] \in SlotRow}
  BY ExistingSlots DEF TypeOK
<1>3. ended \subseteq Exists(slots)
  OBVIOUS
<1> HIDE DEF ended
<1>4. ASSUME NEW s \in SlotId, s \in Exists(slots)
      PROVE  /\ slots'[s] \in SlotRow
             /\ slots'[s].work = slots[s].work /\ slots'[s].room = slots[s].room
             /\ slots'[s].starts = slots[s].starts /\ slots'[s].capacity = slots[s].capacity
             /\ slots'[s].status \in {slots[s].status, "CLOSED"}
  <2>1. slots[s] \in SlotRow
    BY <1>2, <1>4
  <2>2. slots'[s] \in {slots[s], [slots[s] EXCEPT !.status = "CLOSED"]}
    BY <1>1
  <2>3. QED BY <2>1, <2>2 DEF SlotRow, SlotStatus
<1>5. \A s \in SlotId : s \notin Exists(slots) => slots'[s] = Absent
  BY <1>1, <1>2, <1>3 DEF TypeOK
<1>6. slots' \in [SlotId -> SlotRow \cup {Absent}]
  <2>1. \A s \in SlotId : slots'[s] \in SlotRow \cup {Absent}
    BY <1>4, <1>5
  <2>2. PICK f : f = [s \in SlotId |-> slots'[s]] /\ slots' = f
    BY <1>1
  <2>3. QED BY <2>1, <2>2
<1>7. Exists(slots') = {x \in SlotId : slots'[x] \in SlotRow}
  BY <1>6, ExistingSlots
<1>8. Exists(slots') = Exists(slots)
  BY <1>2, <1>4, <1>5, <1>7, NotRows
<1>9. KeysKept
  BY <1>2, <1>4, <1>6, <1>8 DEF KeysKept
<1>10. QED BY <1>2, <1>4, <1>9

(* Steps that change bookings in their status only.                          *)
BookingsKept ==
  /\ bookings' \in [BookingId -> BookingRow \cup {Absent}]
  /\ Exists(bookings') = Exists(bookings)
  /\ \A b \in Exists(bookings) : /\ bookings'[b].slot = bookings[b].slot
                                 /\ bookings'[b].work = bookings[b].work
                                 /\ bookings'[b].at = bookings[b].at

LEMMA SameBookings ==
  ASSUME TypeOK, bookings' = bookings
  PROVE  BookingsKept
BY DEF TypeOK, BookingsKept

LEMMA StatusOfBookings ==
  ASSUME TypeOK, NEW B \in SUBSET Exists(bookings),
         NEW new \in {"BOOKED", "VISITED", "REACCESS", "CANCELLED"},
         bookings' = WithStatus(B, new)
  PROVE  BookingsKept
<1>1. Exists(bookings) = {x \in BookingId : bookings[x] \in BookingRow}
  BY ExistingBookings DEF TypeOK
<1>2. ASSUME NEW b \in BookingId, b \in Exists(bookings)
      PROVE  /\ bookings'[b] \in BookingRow
             /\ bookings'[b].slot = bookings[b].slot /\ bookings'[b].work = bookings[b].work
             /\ bookings'[b].at = bookings[b].at
  <2>1. bookings[b] \in BookingRow
    BY <1>1, <1>2
  <2>2. bookings'[b] \in {bookings[b], [bookings[b] EXCEPT !.status = new]}
    BY DEF WithStatus
  <2>3. QED BY <2>1, <2>2 DEF BookingRow
<1>3. \A b \in BookingId : b \notin Exists(bookings) => bookings'[b] = Absent
  BY <1>1 DEF WithStatus, TypeOK
<1>4. bookings' \in [BookingId -> BookingRow \cup {Absent}]
  <2>1. \A b \in BookingId : bookings'[b] \in BookingRow \cup {Absent}
    BY <1>2, <1>3
  <2>2. PICK f : f = [b \in BookingId |-> bookings'[b]] /\ bookings' = f
    BY DEF WithStatus
  <2>3. QED BY <2>1, <2>2
<1>5. Exists(bookings') = {x \in BookingId : bookings'[x] \in BookingRow}
  BY <1>4, ExistingBookings
<1>6. Exists(bookings') = Exists(bookings)
  BY <1>1, <1>2, <1>3, <1>5, NotRows
<1>7. QED BY <1>1, <1>2, <1>4, <1>6 DEF BookingsKept

LEMMA TypeKept ==
  ASSUME TypeOK, KeysKept, BookingsKept, now' \in Nat, suspect' \subseteq LabWork,
         works' = works, gen' = gen, form' \in FormState, form'.todo \subseteq Exists(slots)
  PROVE  TypeOK'
<1>1. \A s \in Exists(slots') : slots'[s].work \in Exists(works')
  BY DEF KeysKept, TypeOK
<1>2. \A b \in Exists(bookings') : bookings'[b].slot \in Exists(slots')
  BY DEF KeysKept, BookingsKept, TypeOK
<1>3. QED BY <1>1, <1>2 DEF KeysKept, BookingsKept, TypeOK


(* Deleting a lab work drops its slots, and the bookings of both.            *)
LEMMA DeletedRows ==
  ASSUME TypeOK, DeleteLabWork, form.work \in LabWork
  PROVE  /\ works' \in [LabWork -> WorkRow \cup {Absent, Deleted}]
         /\ slots' \in [SlotId -> SlotRow \cup {Absent}]
         /\ bookings' \in [BookingId -> BookingRow \cup {Absent}]
         /\ Exists(works') = Exists(works) \ {form.work}
         /\ \A s \in Exists(slots') : /\ s \in Exists(slots) /\ slots'[s] = slots[s]
                                      /\ slots[s].work # form.work
         /\ \A s \in Exists(slots) : slots[s].work # form.work => s \in Exists(slots')
         /\ \A b \in Exists(bookings') : /\ b \in Exists(bookings) /\ bookings'[b] = bookings[b]
                                         /\ bookings[b].work # form.work
                                         /\ slots[bookings[b].slot].work # form.work
         /\ \A b \in Exists(bookings) : \/ b \in Exists(bookings')
                                        \/ bookings[b].work = form.work
                                        \/ slots[bookings[b].slot].work = form.work
<1>1. PICK lw \in LabWork : lw = form.work
  OBVIOUS
<1>2. works' = [works EXCEPT ![lw] = Deleted]
  BY <1>1 DEF DeleteLabWork
<1>3. PICK S : S = SlotsOf(lw)
  OBVIOUS
<1>4. PICK B : B = WorkBookings(lw) \cup BookingsIn(S)
  OBVIOUS
<1>5. slots' = Without(slots, S) /\ bookings' = Without(bookings, B)
  BY <1>1, <1>3, <1>4 DEF DeleteLabWork
<1>6. works' \in [LabWork -> WorkRow \cup {Absent, Deleted}]
  BY <1>2 DEF TypeOK
<1>7. slots' = [s \in SlotId |-> IF s \in S THEN Absent ELSE slots[s]]
  BY <1>5 DEF Without, TypeOK
<1>8. bookings' = [b \in BookingId |-> IF b \in B THEN Absent ELSE bookings[b]]
  BY <1>5 DEF Without, TypeOK
<1>9. /\ slots' \in [SlotId -> SlotRow \cup {Absent}]
      /\ bookings' \in [BookingId -> BookingRow \cup {Absent}]
  BY <1>7, <1>8 DEF TypeOK
<1>10. Exists(works') = Exists(works) \ {lw}
  <2>1. /\ Exists(works) = {x \in LabWork : works[x] \in WorkRow}
        /\ Exists(works') = {x \in LabWork : works'[x] \in WorkRow}
    BY <1>6, ExistingWorks DEF TypeOK
  <2>2. QED BY <1>2, <2>1, NotRows DEF TypeOK
<1>11. /\ Exists(slots) = {x \in SlotId : slots[x] \in SlotRow}
       /\ Exists(slots') = {x \in SlotId : slots'[x] \in SlotRow}
  BY <1>9, ExistingSlots DEF TypeOK
<1>12. /\ Exists(bookings) = {x \in BookingId : bookings[x] \in BookingRow}
       /\ Exists(bookings') = {x \in BookingId : bookings'[x] \in BookingRow}
  BY <1>9, ExistingBookings DEF TypeOK
<1>13. \A s \in Exists(slots') : s \in Exists(slots) /\ slots'[s] = slots[s] /\ s \notin S
  BY <1>7, <1>11, NotRows
<1>14. \A s \in Exists(slots) : s \in S <=> slots[s].work = lw
  BY <1>3 DEF SlotsOf
<1>15. \A s \in Exists(slots) : s \notin S => s \in Exists(slots')
  BY <1>7, <1>11
<1>16. \A b \in Exists(bookings') : b \in Exists(bookings) /\ bookings'[b] = bookings[b] /\ b \notin B
  BY <1>8, <1>12, NotRows
<1>17. \A b \in Exists(bookings) : b \in B <=> \/ bookings[b].work = lw
                                               \/ bookings[b].slot \in S
  BY <1>4 DEF WorkBookings, BookingsIn
<1>18. \A b \in Exists(bookings) : b \notin B => b \in Exists(bookings')
  BY <1>8, <1>12
<1>19. \A b \in Exists(bookings) : bookings[b].slot \in Exists(slots)
  BY DEF TypeOK
<1>20. \A b \in Exists(bookings) : b \in B <=> \/ bookings[b].work = lw
                                               \/ slots[bookings[b].slot].work = lw
  BY <1>14, <1>17, <1>19
<1>21. QED BY <1>1, <1>6, <1>9, <1>10, <1>13, <1>14, <1>15, <1>16, <1>18, <1>20

LEMMA TypeDeleteLabWork ==
  ASSUME TypeOK, DeleteLabWork, form.work \in LabWork
  PROVE  TypeOK'
<1>1. \A s \in Exists(slots') : slots'[s].work \in Exists(works')
  BY DeletedRows DEF TypeOK
<1>2. \A b \in Exists(bookings') : bookings'[b].slot \in Exists(slots')
  BY DeletedRows DEF TypeOK
<1>3. form' \in FormState /\ form'.todo = {}
  BY NoFormTyped DEF DeleteLabWork
<1>4. QED BY <1>1, <1>2, <1>3, DeletedRows DEF DeleteLabWork, TypeOK

(* A merge moves every row to the keeper of its lab work.                    *)
LEMMA MovedSlots ==
  ASSUME TypeOK, slots' = Repointed(slots)
  PROVE  /\ slots' \in [SlotId -> SlotRow \cup {Absent}]
         /\ Exists(slots') = Exists(slots)
         /\ \A s \in Exists(slots) : /\ slots'[s].work = KeeperOf(slots[s].work)
                                     /\ slots'[s].room = slots[s].room
                                     /\ slots'[s].starts = slots[s].starts
                                     /\ slots'[s].status = slots[s].status
                                     /\ slots'[s].capacity = slots[s].capacity
<1>1. Exists(slots) = {x \in SlotId : slots[x] \in SlotRow}
  BY ExistingSlots DEF TypeOK
<1>2. \A s \in Exists(slots) : KeeperOf(slots[s].work) \in LabWork
  BY KeepersStay DEF TypeOK, Exists
<1>3. ASSUME NEW s \in SlotId, s \in Exists(slots)
      PROVE  /\ slots'[s] \in SlotRow
             /\ slots'[s].work = KeeperOf(slots[s].work)
             /\ slots'[s].room = slots[s].room /\ slots'[s].starts = slots[s].starts
             /\ slots'[s].status = slots[s].status /\ slots'[s].capacity = slots[s].capacity
  <2>1. PICK k \in LabWork : k = KeeperOf(slots[s].work)
    BY <1>2, <1>3
  <2>2. slots'[s] = [slots[s] EXCEPT !.work = k]
    BY <1>3, <2>1 DEF Repointed, TypeOK
  <2>3. slots[s] \in SlotRow
    BY <1>1, <1>3
  <2>4. QED BY <2>1, <2>2, <2>3 DEF SlotRow
<1>4. \A s \in SlotId : s \notin Exists(slots) => slots'[s] = Absent
  BY <1>1 DEF Repointed, TypeOK
<1>5. slots' \in [SlotId -> SlotRow \cup {Absent}]
  <2>1. \A s \in SlotId : slots'[s] \in SlotRow \cup {Absent}
    BY <1>3, <1>4
  <2>2. PICK f : f = [s \in SlotId |-> slots'[s]] /\ slots' = f
    BY DEF Repointed, TypeOK
  <2>3. QED BY <2>1, <2>2
<1>6. Exists(slots') = {x \in SlotId : slots'[x] \in SlotRow}
  BY <1>5, ExistingSlots
<1>7. Exists(slots') = Exists(slots)
  BY <1>1, <1>3, <1>4, <1>6, NotRows
<1>8. QED BY <1>1, <1>3, <1>5, <1>7

LEMMA MovedBookings ==
  ASSUME TypeOK, bookings' = Repointed(bookings)
  PROVE  /\ bookings' \in [BookingId -> BookingRow \cup {Absent}]
         /\ Exists(bookings') = Exists(bookings)
         /\ \A b \in Exists(bookings) : /\ bookings'[b].work = KeeperOf(bookings[b].work)
                                        /\ bookings'[b].slot = bookings[b].slot
                                        /\ bookings'[b].at = bookings[b].at
<1>1. Exists(bookings) = {x \in BookingId : bookings[x] \in BookingRow}
  BY ExistingBookings DEF TypeOK
<1>0. \A b \in Exists(bookings) : KeeperOf(bookings[b].work) \in LabWork
  <2>1. \A b \in Exists(bookings) : bookings[b].work \in LabWork
    BY <1>1 DEF BookingRow
  <2>2. Keepers \subseteq LabWork
    BY DEF Keepers, Exists, TypeOK
  <2>3. \A lw \in LabWork : KeeperOf(lw) \in Keepers \cup {lw}
    BY DEF KeeperOf
  <2>4. QED BY <2>1, <2>2, <2>3
<1>2. ASSUME NEW b \in BookingId, b \in Exists(bookings)
      PROVE  /\ bookings'[b] \in BookingRow
             /\ bookings'[b].work = KeeperOf(bookings[b].work)
             /\ bookings'[b].slot = bookings[b].slot /\ bookings'[b].at = bookings[b].at
  <2>1. PICK k \in LabWork : k = KeeperOf(bookings[b].work)
    BY <1>0, <1>2
  <2>2. bookings'[b] = [bookings[b] EXCEPT !.work = k]
    BY <1>2, <2>1 DEF Repointed, TypeOK
  <2>3. bookings[b] \in BookingRow
    BY <1>1, <1>2
  <2>4. QED BY <2>1, <2>2, <2>3 DEF BookingRow
<1>3. \A b \in BookingId : b \notin Exists(bookings) => bookings'[b] = Absent
  BY <1>1 DEF Repointed, TypeOK
<1>4. bookings' \in [BookingId -> BookingRow \cup {Absent}]
  <2>1. \A b \in BookingId : bookings'[b] \in BookingRow \cup {Absent}
    BY <1>2, <1>3
  <2>2. PICK f : f = [b \in BookingId |-> bookings'[b]] /\ bookings' = f
    BY DEF Repointed, TypeOK
  <2>3. QED BY <2>1, <2>2
<1>5. Exists(bookings') = {x \in BookingId : bookings'[x] \in BookingRow}
  BY <1>4, ExistingBookings
<1>6. Exists(bookings') = Exists(bookings)
  BY <1>1, <1>2, <1>3, <1>5, NotRows
<1>7. QED BY <1>1, <1>2, <1>4, <1>6


LEMMA TypeDedupe == TypeOK /\ Dedupe => TypeOK'
<1> SUFFICES ASSUME TypeOK, Dedupe PROVE TypeOK'
  OBVIOUS
<1>1. works' = MergedWorks /\ slots' = Repointed(slots) /\ bookings' = Repointed(bookings)
  BY DEF Dedupe, MergedWorks
<1>2. /\ works' \in [LabWork -> WorkRow \cup {Absent, Deleted}]
      /\ \A lw \in Exists(works) : KeeperOf(lw) \in Exists(works')
  BY <1>1, MergedWorksSound
<1>3. \A s \in Exists(slots') : slots'[s].work \in Exists(works')
  BY <1>1, <1>2, MovedSlots DEF TypeOK
<1>4. \A b \in Exists(bookings') : bookings'[b].slot \in Exists(slots')
  BY <1>1, MovedSlots, MovedBookings DEF TypeOK
<1>5. suspect' \subseteq LabWork
  BY DEF Dedupe, Keepers, Exists, TypeOK
<1>6. /\ slots' \in [SlotId -> SlotRow \cup {Absent}] /\ Exists(slots') = Exists(slots)
      /\ bookings' \in [BookingId -> BookingRow \cup {Absent}]
  BY <1>1, MovedSlots, MovedBookings
<1>7. QED BY <1>2, <1>3, <1>4, <1>5, <1>6 DEF Dedupe, TypeOK

(* A new booking copies its slot.                                            *)
LEMMA BookedRow ==
  ASSUME TypeOK, NEW s \in SlotId, Book(s)
  PROVE  \E b \in BookingId :
           /\ b \notin Exists(bookings) /\ s \in Exists(slots)
           /\ bookings' \in [BookingId -> BookingRow \cup {Absent}]
           /\ Exists(bookings') = Exists(bookings) \cup {b}
           /\ \A x \in Exists(bookings) : bookings'[x] = bookings[x]
           /\ bookings'[b].slot = s /\ bookings'[b].work = slots[s].work
           /\ bookings'[b].at = slots[s].starts
<1>1. s \in Exists(slots) /\ slots[s] \in SlotRow
  BY ExistingSlots DEF Book, TypeOK
<1>2. PICK row : row = [status |-> "BOOKED", slot |-> s, work |-> slots[s].work,
                        at |-> slots[s].starts]
  OBVIOUS
<1>3. PICK b \in Unused(bookings) : bookings' = [bookings EXCEPT ![b] = row]
  BY <1>2 DEF Book
<1>4. row \in BookingRow
  BY <1>1, <1>2 DEF BookingRow, SlotRow
<1>5. b \in BookingId /\ b \notin Exists(bookings)
  BY DEF Unused, Exists, TypeOK
<1>6. bookings' \in [BookingId -> BookingRow \cup {Absent}]
  BY <1>3, <1>4 DEF TypeOK
<1>7. bookings'[b] = row /\ \A x \in BookingId \ {b} : bookings'[x] = bookings[x]
  BY <1>3, <1>5 DEF TypeOK
<1>8. /\ Exists(bookings) = {x \in BookingId : bookings[x] \in BookingRow}
      /\ Exists(bookings') = {x \in BookingId : bookings'[x] \in BookingRow}
  BY <1>6, ExistingBookings DEF TypeOK
<1>9. Exists(bookings') = Exists(bookings) \cup {b}
  BY <1>4, <1>5, <1>7, <1>8
<1>10. QED BY <1>1, <1>2, <1>5, <1>6, <1>7, <1>8, <1>9

LEMMA TypeBook ==
  ASSUME TypeOK, NEW s \in SlotId, Book(s)
  PROVE  TypeOK'
<1>1. PICK b \in BookingId :
        /\ s \in Exists(slots)
        /\ bookings' \in [BookingId -> BookingRow \cup {Absent}]
        /\ Exists(bookings') = Exists(bookings) \cup {b}
        /\ \A x \in Exists(bookings) : bookings'[x] = bookings[x]
        /\ bookings'[b].slot = s
  BY BookedRow
<1>2. \A x \in Exists(bookings') : bookings'[x].slot \in Exists(slots)
  BY <1>1 DEF TypeOK
<1>3. QED BY <1>1, <1>2 DEF Book, TypeOK

(* Cancellations, sweeps and edits change statuses.                          *)
StatusStep ==
  \/ \E s \in SlotId : CancelSession(s)
  \/ \E s \in SlotId, new \in SessionEdits : EditSession(s, new)
  \/ \E b \in BookingId : CancelBooking(b)
  \/ MarkVisited
  \/ Tick

LEMMA SeatedExist ==
  ASSUME NEW S
  PROVE  UNION {Seated(s) : s \in S} \subseteq Exists(bookings)
BY DEF Seated, BookingsIn

LEMMA StatusStepKeeps == TypeOK /\ StatusStep => KeysKept /\ BookingsKept
<1> SUFFICES ASSUME TypeOK, StatusStep PROVE KeysKept /\ BookingsKept
  OBVIOUS
<1>1. ASSUME NEW s \in SlotId, CancelSession(s) PROVE KeysKept /\ BookingsKept
  <2>1. Seated(s) \in SUBSET Exists(bookings)
    BY DEF Seated, BookingsIn
  <2>2. KeysKept
    BY <1>1, StatusEdits, EditedKeys DEF CancelSession, SlotStatus
  <2>3. bookings' = WithStatus(Seated(s), "REACCESS")
    BY <1>1 DEF CancelSession
  <2>4. QED BY <2>1, <2>2, <2>3, StatusOfBookings
<1>2. ASSUME NEW s \in SlotId, NEW new \in SessionEdits, EditSession(s, new)
      PROVE  KeysKept /\ BookingsKept
  <2>1. s \in Exists(slots) /\ new \in SlotStatus
    BY <1>2, SlotAssumption DEF EditSession
  <2>2. KeysKept
    BY <1>2, <2>1, StatusEdits, EditedKeys DEF EditSession
  <2>3. QED BY <1>2, <2>2, SameBookings DEF EditSession
<1>3. ASSUME NEW b \in BookingId, CancelBooking(b) PROVE KeysKept /\ BookingsKept
  <2>1. {b} \in SUBSET Exists(bookings)
    BY <1>3 DEF CancelBooking
  <2>2. bookings' = WithStatus({b}, "CANCELLED")
    BY <1>3 DEF CancelBooking
  <2>3. BookingsKept
    BY <2>1, <2>2, StatusOfBookings
  <2>4. QED BY <1>3, <2>3, SameKeys DEF CancelBooking
<1>4. ASSUME MarkVisited PROVE KeysKept /\ BookingsKept
  <2> DEFINE ended == {s \in Exists(slots) : slots[s].ends <= now /\ slots[s].status = "OPEN"}
  <2>1. bookings' = WithStatus(UNION {Seated(s) : s \in ended}, "VISITED")
    BY <1>4 DEF MarkVisited
  <2> HIDE DEF ended
  <2>2. UNION {Seated(s) : s \in ended} \in SUBSET Exists(bookings)
    BY SeatedExist
  <2>3. BookingsKept
    BY <2>1, <2>2, StatusOfBookings
  <2>4. QED BY <1>4, <2>3, ClosedSlots
<1>5. ASSUME Tick PROVE KeysKept /\ BookingsKept
  BY <1>5, SameKeys, SameBookings DEF Tick
<1>6. QED BY <1>1, <1>2, <1>3, <1>4, <1>5 DEF StatusStep

LEMMA TypeStatusStep == TypeOK /\ StatusStep => TypeOK'
<1> SUFFICES ASSUME TypeOK, StatusStep PROVE TypeOK'
  OBVIOUS
<1>1. KeysKept /\ BookingsKept
  BY StatusStepKeeps
<1>2. works' = works /\ gen' = gen /\ form' = form
  BY DEF StatusStep, CancelSession, EditSession, CancelBooking, MarkVisited, Tick
<1>3. now' \in Nat
  <2>1. now' \in {now, now + 1}
    BY DEF StatusStep, CancelSession, EditSession, CancelBooking, MarkVisited, Tick
  <2>2. now \in Nat
    BY DEF TypeOK
  <2>3. QED BY <2>1, <2>2
<1>4. suspect' \subseteq LabWork
  <2>1. ASSUME NEW s \in SlotId, NEW new \in SessionEdits, EditSession(s, new)
        PROVE  suspect' \subseteq LabWork
    BY <2>1 DEF EditSession, TypeOK, Exists
  <2>2. CASE suspect' = suspect
    BY <2>2 DEF TypeOK
  <2>3. QED BY <2>1, <2>2 DEF StatusStep, CancelSession, CancelBooking, MarkVisited, Tick
<1>5. form \in FormState /\ form.todo \subseteq Exists(slots)
  BY DEF TypeOK
<1>6. QED BY <1>1, <1>2, <1>3, <1>4, <1>5, TypeKept


LEMMA TypeStep ==
  ASSUME TypeOK, FormSound, [Next]_vars
  PROVE  TypeOK'
<1>1. CASE Generate
  BY <1>1, TypeBeginGenerate, TypeGenerateSlot, TypeEndGenerate
     DEF Generate, GenerateFails, EndGenerate
<1>2. CASE Form
  <2>1. ASSUME NEW lw \in LabWork, NEW row \in FormRows, works[lw] # Deleted, SaveLabWork(lw, row)
        PROVE  TypeOK'
    BY <2>1, TypeSaveLabWork
  <2>2. ASSUME NEW s \in SlotId, SaveCapacity(s) \/ SaveDuration(s)
        PROVE  TypeOK'
    <3>1. KeysKept
      BY <2>2, SaveCapacityEdits, SaveDurationEdits, EditedKeys
    <3>2. BookingsKept
      BY <2>2, SameBookings DEF SaveCapacity, SaveDuration
    <3>3. form' = [form EXCEPT !.todo = @ \ {s}]
      BY <2>2 DEF SaveCapacity, SaveDuration
    <3>4. form' \in FormState /\ form'.todo \subseteq Exists(slots)
      BY <3>3 DEF FormState, TypeOK
    <3>5. now \in Nat /\ suspect \subseteq LabWork
      BY DEF TypeOK
    <3>6. QED BY <2>2, <3>1, <3>2, <3>4, <3>5, TypeKept DEF SaveCapacity, SaveDuration
  <2>3. CASE DeleteLabWork
    BY <2>3, TypeDeleteLabWork DEF DeleteLabWork, FormSound
  <2>4. QED BY <1>2, <2>1, <2>2, <2>3, TypeListing, TypeEndSync, TypeBeginDelete DEF Form
<1>3. CASE Dedupe
  BY <1>3, TypeDedupe
<1>4. ASSUME NEW s \in SlotId, Book(s) PROVE TypeOK'
  BY <1>4, TypeBook
<1>5. CASE StatusStep
  BY <1>5, TypeStatusStep
<1>6. CASE UNCHANGED vars
  BY <1>6 DEF vars, TypeOK
<1>7. QED BY <1>1, <1>2, <1>3, <1>4, <1>5, <1>6 DEF Next, StatusStep

-------------------------------------------------------------------------------
(* Bookings follow their slots                                               *)

(* Steps that keep the keys of the rows there are, and add none.             *)
LEMMA FollowKept ==
  ASSUME TypeOK, BookingFollowsSlot, KeysKept, BookingsKept
  PROVE  BookingFollowsSlot'
BY DEF TypeOK, BookingFollowsSlot, KeysKept, BookingsKept

LEMMA FollowStep ==
  ASSUME TypeOK, FormSound, BookingFollowsSlot, [Next]_vars
  PROVE  BookingFollowsSlot'
<1>1. ASSUME NEW slot \in gen.todo, GenerateSlot(slot)
      PROVE  BookingFollowsSlot'
  <2>1. PICK s \in SlotId :
          /\ slots' = [slots EXCEPT ![s] = slot]
          /\ \/ SlotsAt(slot) = {} /\ s \notin Exists(slots)
             \/ s \in SlotsAt(slot)
    BY <1>1, TargetSlot
  <2>2. \A x \in Exists(slots) : slots'[x].work = slots[x].work /\ slots'[x].starts = slots[x].starts
    BY <2>1 DEF SlotsAt, SlotsOf, Exists, TypeOK
  <2>3. bookings' = bookings
    BY <1>1 DEF GenerateSlot
  <2>4. QED BY <2>2, <2>3 DEF BookingFollowsSlot, TypeOK
<1>2. CASE DeleteLabWork
  <2>1. form.work \in LabWork
    BY <1>2 DEF DeleteLabWork, FormSound
  <2>2. \A b \in Exists(bookings') : /\ b \in Exists(bookings) /\ bookings'[b] = bookings[b]
                                     /\ slots[bookings[b].slot].work # form.work
    BY <1>2, <2>1, DeletedRows
  <2>3. \A s \in Exists(slots) : slots[s].work # form.work => slots'[s] = slots[s]
    BY <1>2, <2>1, DeletedRows
  <2>4. QED BY <2>2, <2>3 DEF BookingFollowsSlot, TypeOK
<1>3. CASE Dedupe
  <2>1. slots' = Repointed(slots) /\ bookings' = Repointed(bookings)
    BY <1>3 DEF Dedupe
  <2>2. QED BY <2>1, MovedSlots, MovedBookings DEF BookingFollowsSlot, TypeOK
<1>4. ASSUME NEW s \in SlotId, Book(s) PROVE BookingFollowsSlot'
  <2>1. PICK b \in BookingId :
           /\ b \notin Exists(bookings) /\ s \in Exists(slots)
           /\ Exists(bookings') = Exists(bookings) \cup {b}
           /\ \A x \in Exists(bookings) : bookings'[x] = bookings[x]
           /\ bookings'[b].slot = s /\ bookings'[b].work = slots[s].work
           /\ bookings'[b].at = slots[s].starts
    BY <1>4, BookedRow
  <2>2. slots' = slots
    BY <1>4 DEF Book
  <2>3. QED BY <2>1, <2>2 DEF BookingFollowsSlot
<1>5. ASSUME NEW s \in SlotId, SaveCapacity(s) \/ SaveDuration(s)
      PROVE  BookingFollowsSlot'
  <2>1. KeysKept
    BY <1>5, SaveCapacityEdits, SaveDurationEdits, EditedKeys
  <2>2. BookingsKept
    BY <1>5, SameBookings DEF SaveCapacity, SaveDuration
  <2>3. QED BY <2>1, <2>2, FollowKept
<1>6. CASE StatusStep
  BY <1>6, StatusStepKeeps, FollowKept
<1>7. CASE slots' = slots /\ bookings' = bookings
  BY <1>7, SameKeys, SameBookings, FollowKept
<1>8. CASE Generate
  BY <1>1, <1>7, <1>8 DEF Generate, BeginGenerate, EndGenerate, GenerateFails
<1>9. CASE Form
  BY <1>2, <1>5, <1>7, <1>9
     DEF Form, SaveLabWork, ListForCapacity, ListForDuration, EndSync, BeginDelete
<1>10. CASE UNCHANGED vars
  BY <1>7, <1>10 DEF vars
<1>11. QED BY <1>3, <1>4, <1>6, <1>8, <1>9, <1>10 DEF Next, StatusStep


-------------------------------------------------------------------------------
(* Lab works that are neither merged nor edited under a generation           *)

(* What a merge or a deletion leaves of the lab works nobody suspects.       *)
TrustedStay ==
  \A lw \in Exists(works') \ suspect' : /\ lw \in Exists(works) \ suspect
                                        /\ works'[lw] = works[lw]

LEMMA TrustedAfterDedupe == TypeOK /\ Dedupe => TrustedStay
<1> SUFFICES ASSUME TypeOK, Dedupe PROVE TrustedStay
  OBVIOUS
<1>1. works' = MergedWorks /\ suspect' = suspect \cup Keepers
  BY DEF Dedupe, MergedWorks
<1>2. \A lw \in Exists(works') : /\ lw \in Exists(works)
                                 /\ lw \notin Keepers => works'[lw] = works[lw]
  BY <1>1, MergedWorksSound
<1>3. QED BY <1>1, <1>2 DEF TrustedStay

LEMMA TrustedAfterDelete ==
  ASSUME TypeOK, DeleteLabWork, form.work \in LabWork
  PROVE  TrustedStay
<1>1. Exists(works') = Exists(works) \ {form.work}
  BY DeletedRows
<1>2. \A lw \in LabWork : lw # form.work => works'[lw] = works[lw]
  BY DEF DeleteLabWork, TypeOK
<1>3. suspect' = suspect
  BY DEF DeleteLabWork
<1>4. Exists(works) \subseteq LabWork
  BY DEF Exists, TypeOK
<1>5. QED BY <1>1, <1>2, <1>3, <1>4 DEF TrustedStay

(* A merge leaves the slots of a trusted lab work where they were.           *)
LEMMA TrustedSlotsStay ==
  ASSUME TypeOK, Dedupe, NEW s \in Exists(slots)
  PROVE  slots'[s].work = slots[s].work \/ slots'[s].work \in suspect'
<1>1. slots'[s].work = KeeperOf(slots[s].work)
  BY MovedSlots DEF Dedupe
<1>2. slots[s].work \in Exists(works)
  BY DEF TypeOK
<1>3. KeeperOf(slots[s].work) # slots[s].work => KeeperOf(slots[s].work) \in Keepers
  BY <1>2, KeepersStay
<1>4. QED BY <1>1, <1>3 DEF Dedupe

LEMMA SuspicionStays == Next => suspect \subseteq suspect'
<1>1. Generate => suspect' = suspect
  BY DEF Generate, BeginGenerate, EndGenerate, GenerateSlot, GenerateFails
<1>2. Form => suspect \subseteq suspect'
  BY DEF Form, SaveLabWork, ListForCapacity, ListForDuration, EndSync, SaveCapacity,
         SaveDuration, BeginDelete, DeleteLabWork
<1>3. QED BY <1>1, <1>2
          DEF Next, Dedupe, Book, CancelSession, EditSession, CancelBooking, MarkVisited, Tick

(* SlotsUnique over all slots.                                               *)
KeysUnique ==
  \A s, t \in Exists(slots) :
    /\ slots[s].work = slots[t].work /\ slots[s].work \notin suspect
    /\ slots[s].room = slots[t].room /\ slots[s].starts = slots[t].starts
    => s = t

LEMMA UniqueAsKeys == TypeOK => (SlotsUnique <=> KeysUnique)
BY DEF TypeOK, SlotsUnique, KeysUnique, SlotsOf

LEMMA UniqueKept ==
  ASSUME TypeOK, KeysUnique, KeysKept, suspect \subseteq suspect'
  PROVE  KeysUnique'
BY DEF KeysUnique, KeysKept

LEMMA UniqueStep ==
  ASSUME TypeOK, FormSound, KeysUnique, [Next]_vars
  PROVE  KeysUnique'
<1>1. ASSUME NEW slot \in gen.todo, GenerateSlot(slot)
      PROVE  KeysUnique'
  <2>1. PICK s \in SlotId :
          /\ slots' = [slots EXCEPT ![s] = slot] /\ slot \in SlotRow
          /\ \/ SlotsAt(slot) = {} /\ s \notin Exists(slots)
             \/ s \in SlotsAt(slot)
    BY <1>1, TargetSlot
  <2>2. slots' \in [SlotId -> SlotRow \cup {Absent}]
    BY <2>1 DEF TypeOK
  <2>3. /\ Exists(slots) = {x \in SlotId : slots[x] \in SlotRow}
        /\ Exists(slots') = {x \in SlotId : slots'[x] \in SlotRow}
    BY <2>2, ExistingSlots DEF TypeOK
  <2>4. slots'[s] = slot /\ \A x \in SlotId \ {s} : slots'[x] = slots[x]
    BY <2>1 DEF TypeOK
  <2>5. Exists(slots') = Exists(slots) \cup {s}
    BY <2>1, <2>3, <2>4
  <2>6. suspect' = suspect
    BY <1>1 DEF GenerateSlot
  <2>7. CASE SlotsAt(slot) = {} /\ s \notin Exists(slots)
    <3>1. \A x \in Exists(slots) : ~(/\ slots[x].work = slot.work /\ slots[x].room = slot.room
                                     /\ slots[x].starts = slot.starts)
      BY <2>7 DEF SlotsAt, SlotsOf
    <3>2. \A x \in Exists(slots) : slots'[x] = slots[x]
      BY <2>3, <2>4, <2>7
    <3>3. QED BY <2>4, <2>5, <2>6, <3>1, <3>2 DEF KeysUnique
  <2>8. CASE s \in SlotsAt(slot)
    <3>1. /\ s \in Exists(slots) /\ slots[s].work = slot.work
          /\ slots[s].room = slot.room /\ slots[s].starts = slot.starts
      BY <2>8 DEF SlotsAt, SlotsOf
    <3>2. KeysKept
      BY <2>2, <2>3, <2>4, <2>5, <3>1 DEF KeysKept
    <3>3. QED BY <2>6, <3>2, UniqueKept
  <2>9. QED BY <2>1, <2>7, <2>8
<1>2. CASE DeleteLabWork
  <2>1. \A s \in Exists(slots') : s \in Exists(slots) /\ slots'[s] = slots[s]
    BY <1>2, DeletedRows DEF DeleteLabWork, FormSound
  <2>2. suspect' = suspect
    BY <1>2 DEF DeleteLabWork
  <2>3. QED BY <2>1, <2>2 DEF KeysUnique
<1>3. CASE Dedupe
  <2>1. \A s \in Exists(slots) : slots'[s].work = slots[s].work \/ slots'[s].work \in suspect'
    BY <1>3, TrustedSlotsStay
  <2>2. /\ Exists(slots') = Exists(slots)
        /\ \A s \in Exists(slots) : slots'[s].room = slots[s].room /\ slots'[s].starts = slots[s].starts
    BY <1>3, MovedSlots DEF Dedupe
  <2>3. suspect \subseteq suspect'
    BY <1>3 DEF Dedupe
  <2>4. QED BY <2>1, <2>2, <2>3 DEF KeysUnique
<1>4. ASSUME NEW s \in SlotId, SaveCapacity(s) \/ SaveDuration(s)
      PROVE  KeysUnique'
  <2>1. KeysKept
    BY <1>4, SaveCapacityEdits, SaveDurationEdits, EditedKeys
  <2>2. QED BY <1>4, <2>1, UniqueKept DEF SaveCapacity, SaveDuration
<1>5. CASE StatusStep
  <2>1. suspect \subseteq suspect'
    BY <1>5 DEF StatusStep, CancelSession, EditSession, CancelBooking, MarkVisited, Tick
  <2>2. QED BY <1>5, <2>1, StatusStepKeeps, UniqueKept
<1>6. CASE slots' = slots /\ suspect \subseteq suspect'
  BY <1>6, SameKeys, UniqueKept
<1>7. CASE Generate
  BY <1>1, <1>6, <1>7 DEF Generate, BeginGenerate, EndGenerate, GenerateFails
<1>8. CASE Form
  BY <1>2, <1>4, <1>6, <1>8
     DEF Form, SaveLabWork, ListForCapacity, ListForDuration, EndSync, BeginDelete
<1>9. CASE UNCHANGED vars
  BY <1>6, <1>9 DEF vars
<1>10. ASSUME NEW s \in SlotId, Book(s) PROVE KeysUnique'
  BY <1>6, <1>10 DEF Book
<1>11. QED BY <1>3, <1>5, <1>7, <1>8, <1>9, <1>10 DEF Next, StatusStep


-------------------------------------------------------------------------------
(* Capacities                                                                *)

LEMMA GenTrusted ==
  ASSUME GenSound, TrustedStay, gen' = gen
  PROVE  GenSound'
BY DEF GenSound, TrustedStay, FittedTo

LEMMA GenSame ==
  ASSUME GenSound, works' = works, suspect \subseteq suspect', gen' = gen
  PROVE  GenSound'
BY DEF GenSound, FittedTo

LEMMA GenStep ==
  ASSUME TypeOK, FormSound, GenSound, [Next]_vars
  PROVE  GenSound'
<1>1. CASE BeginGenerate
  <2>1. \A slot \in gen'.todo : \E lw \in Exists(works), t \in Nat : slot = GeneratedSlot(lw, t)
    BY <1>1, SlotAssumption DEF BeginGenerate, TypeOK
  <2>2. \A lw \in Exists(works), t \in Nat :
          LET slot == GeneratedSlot(lw, t)
          IN slot.capacity = LabSessionCapacity(works[slot.work].capacity, slot.room)
    BY DEF GeneratedSlot
  <2>3. works' = works /\ gen'.on
    BY <1>1 DEF BeginGenerate
  <2>4. QED BY <2>1, <2>2, <2>3 DEF GenSound, FittedTo
<1>2. ASSUME NEW slot \in gen.todo, GenerateSlot(slot)
      PROVE  GenSound'
  <2>1. gen'.todo = gen.todo \ {slot} /\ gen'.on = gen.on
    BY <1>2 DEF GenerateSlot, TypeOK
  <2>2. works' = works /\ suspect' = suspect
    BY <1>2 DEF GenerateSlot
  <2>3. QED BY <2>1, <2>2 DEF GenSound, FittedTo
<1>3. CASE gen' = NoRun
  BY <1>3 DEF GenSound, NoRun
<1>4. ASSUME NEW lw \in LabWork, NEW row \in FormRows, SaveLabWork(lw, row)
      PROVE  GenSound'
  <2>1. gen' = gen /\ \A x \in LabWork \ {lw} : works'[x] = works[x]
    BY <1>4 DEF SaveLabWork, TypeOK
  <2>2. CASE ~gen.on
    BY <2>1, <2>2 DEF GenSound
  <2>3. CASE gen.on
    <3>1. suspect' = suspect \cup {lw}
      BY <1>4, <2>3 DEF SaveLabWork
    <3>2. DOMAIN works' = LabWork /\ DOMAIN works = LabWork
      BY <1>4 DEF SaveLabWork, TypeOK
    <3>3. TrustedStay
      BY <2>1, <3>1, <3>2 DEF TrustedStay, Exists
    <3>4. QED BY <2>1, <3>3, GenTrusted
  <2>4. QED BY <2>2, <2>3
<1>5. CASE Dedupe
  BY <1>5, TrustedAfterDedupe, GenTrusted DEF Dedupe
<1>6. CASE DeleteLabWork
  BY <1>6, TrustedAfterDelete, GenTrusted DEF DeleteLabWork, FormSound
<1>7. CASE works' = works /\ suspect \subseteq suspect' /\ gen' = gen
  BY <1>7, GenSame
<1>8. CASE Generate
  BY <1>1, <1>2, <1>3, <1>8 DEF Generate, EndGenerate, GenerateFails
<1>9. CASE Form
  BY <1>4, <1>6, <1>7, <1>9
     DEF Form, ListForCapacity, ListForDuration, EndSync, SaveCapacity, SaveDuration, BeginDelete
<1>10. CASE UNCHANGED vars
  BY <1>7, <1>10 DEF vars
<1>11. CASE StatusStep
  BY <1>7, <1>11 DEF StatusStep, CancelSession, EditSession, CancelBooking, MarkVisited, Tick
<1>12. ASSUME NEW s \in SlotId, Book(s) PROVE GenSound'
  BY <1>7, <1>12 DEF Book
<1>13. QED BY <1>5, <1>8, <1>9, <1>10, <1>11, <1>12 DEF Next, StatusStep

(* Steps of others: lab works and slots of the form stay or are suspected.   *)
LEMMA FormOthers ==
  ASSUME TypeOK, FormSound, form' = form, suspect \subseteq suspect',
         works' = works \/ TrustedStay,
         \A s \in Exists(slots) : slots'[s].work = slots[s].work \/ slots'[s].work \in suspect'
  PROVE  FormSound'
<1>1. form.resize /\ form.work \in Exists(works') \ suspect'
        => form.capacity = works'[form.work].capacity
  BY DEF FormSound, TrustedStay
<1>2. \A s \in form.todo : slots'[s].work = form.work \/ slots'[s].work \in suspect'
  BY DEF FormSound, TypeOK
<1>3. QED BY <1>1, <1>2 DEF FormSound

LEMMA FormStep ==
  ASSUME TypeOK, FormSound, [Next]_vars
  PROVE  FormSound'
<1>1. ASSUME NEW slot \in gen.todo, GenerateSlot(slot)
      PROVE  FormSound'
  <2>1. PICK s \in SlotId :
          /\ slots' = [slots EXCEPT ![s] = slot]
          /\ \/ SlotsAt(slot) = {} /\ s \notin Exists(slots)
             \/ s \in SlotsAt(slot)
    BY <1>1, TargetSlot
  <2>2. \A x \in Exists(slots) : slots'[x].work = slots[x].work
    BY <2>1 DEF SlotsAt, SlotsOf, Exists, TypeOK
  <2>3. QED BY <1>1, <2>2, FormOthers DEF GenerateSlot
<1>2. CASE Dedupe
  BY <1>2, TrustedSlotsStay, TrustedAfterDedupe, FormOthers DEF Dedupe
<1>3. CASE StatusStep
  <2>1. KeysKept /\ suspect \subseteq suspect'
    BY <1>3, StatusStepKeeps
       DEF StatusStep, CancelSession, EditSession, CancelBooking, MarkVisited, Tick
  <2>2. form' = form /\ works' = works
    BY <1>3 DEF StatusStep, CancelSession, EditSession, CancelBooking, MarkVisited, Tick
  <2>3. QED BY <2>1, <2>2, FormOthers DEF KeysKept
<1>4. CASE form' = form /\ works' = works /\ slots' = slots /\ suspect' = suspect
  BY <1>4, FormOthers
<1>5. ASSUME NEW lw \in LabWork, NEW row \in FormRows, SaveLabWork(lw, row)
      PROVE  FormSound'
  <2>0. PICK resize \in BOOLEAN, retime \in BOOLEAN :
          \E d, saved :
            /\ saved = [row EXCEPT !.code = FreeCode(lw)]
            /\ works' = [works EXCEPT ![lw] = saved]
            /\ form' = [NoForm EXCEPT !.pc = IF resize \/ retime THEN "list" ELSE "idle",
                                      !.work = IF resize \/ retime THEN lw ELSE None,
                                      !.resize = resize, !.retime = retime,
                                      !.capacity = IF resize THEN row.capacity ELSE 0,
                                      !.duration = d]
    BY <1>5 DEF SaveLabWork
  <2>1. PICK d, saved :
          /\ saved = [row EXCEPT !.code = FreeCode(lw)]
          /\ works' = [works EXCEPT ![lw] = saved]
          /\ form' = [NoForm EXCEPT !.pc = IF resize \/ retime THEN "list" ELSE "idle",
                                    !.work = IF resize \/ retime THEN lw ELSE None,
                                    !.resize = resize, !.retime = retime,
                                    !.capacity = IF resize THEN row.capacity ELSE 0,
                                    !.duration = d]
    BY <2>0
  <2>2. saved.capacity = row.capacity
    BY <2>1, RowsAssumption DEF WorkRow
  <2>3. works'[lw] = saved
    BY <2>1 DEF TypeOK
  <2>4. /\ form'.todo = {} /\ form'.resize = resize
        /\ form'.pc = IF resize \/ retime THEN "list" ELSE "idle"
        /\ form'.work = IF resize \/ retime THEN lw ELSE None
        /\ form'.capacity = IF resize THEN row.capacity ELSE 0
    BY <2>1 DEF NoForm
  <2>5. QED BY <2>2, <2>3, <2>4 DEF FormSound
<1>6. CASE ListForCapacity \/ ListForDuration
  <2>1. form.work \in LabWork
    BY <1>6 DEF ListForCapacity, ListForDuration, FormSound
  <2>2. \A s \in SlotsOf(form.work) : slots[s].work = form.work
    BY DEF SlotsOf
  <2>3. PICK p \in {"resize", "retime"}, T \in SUBSET SlotsOf(form.work) :
          form' = [form EXCEPT !.pc = p, !.todo = T] /\ (p = "resize" => form.resize)
    BY <1>6 DEF ListForCapacity, ListForDuration, FutureOpen, Unbooked
  <2>4. /\ form'.pc = p /\ form'.todo = T /\ form'.work = form.work
        /\ form'.resize = form.resize /\ form'.capacity = form.capacity
    BY <2>3 DEF FormState, TypeOK
  <2>5. works' = works /\ slots' = slots /\ suspect' = suspect
    BY <1>6 DEF ListForCapacity, ListForDuration
  <2>6. QED BY <2>1, <2>2, <2>3, <2>4, <2>5 DEF FormSound
<1>7. CASE EndSync
  <2>1. CASE form' = NoForm
    BY <2>1 DEF NoForm, FormSound
  <2>2. CASE form' = [form EXCEPT !.pc = "list", !.resize = FALSE]
    <3>1. form'.todo = {} /\ form'.pc = "list" /\ form'.work = form.work /\ ~form'.resize
      BY <1>7, <2>2 DEF EndSync, FormState, TypeOK
    <3>2. form.work \in LabWork
      BY <1>7 DEF EndSync, FormSound
    <3>3. QED BY <3>1, <3>2 DEF FormSound
  <2>3. QED BY <1>7, <2>1, <2>2 DEF EndSync
<1>8. ASSUME NEW s \in SlotId, SaveCapacity(s) \/ SaveDuration(s)
      PROVE  FormSound'
  <2>1. KeysKept
    BY <1>8, SaveCapacityEdits, SaveDurationEdits, EditedKeys
  <2>2. form' = [form EXCEPT !.todo = @ \ {s}]
    BY <1>8 DEF SaveCapacity, SaveDuration
  <2>3. /\ form'.pc = form.pc /\ form'.todo = form.todo \ {s} /\ form'.work = form.work
        /\ form'.resize = form.resize /\ form'.capacity = form.capacity
    BY <2>2 DEF FormState, TypeOK
  <2>4. works' = works /\ suspect' = suspect /\ form.todo \subseteq Exists(slots)
    BY <1>8 DEF SaveCapacity, SaveDuration, TypeOK
  <2>5. QED BY <2>1, <2>3, <2>4 DEF FormSound, KeysKept
<1>9. ASSUME NEW lw \in LabWork, BeginDelete(lw) PROVE FormSound'
  <2>1. form'.pc = "delete" /\ form'.work = lw /\ form'.todo = {} /\ ~form'.resize
    BY <1>9 DEF BeginDelete, NoForm
  <2>2. QED BY <2>1 DEF FormSound
<1>10. CASE DeleteLabWork
  BY <1>10 DEF DeleteLabWork, NoForm, FormSound
<1>11. CASE Generate
  BY <1>1, <1>4, <1>11 DEF Generate, BeginGenerate, EndGenerate, GenerateFails
<1>12. CASE Form
  BY <1>5, <1>6, <1>7, <1>8, <1>9, <1>10, <1>12 DEF Form
<1>13. CASE UNCHANGED vars
  BY <1>4, <1>13 DEF vars
<1>14. ASSUME NEW s \in SlotId, Book(s) PROVE FormSound'
  BY <1>4, <1>14 DEF Book
<1>15. QED BY <1>2, <1>3, <1>11, <1>12, <1>13, <1>14 DEF Next, StatusStep


(* A trusted slot keeps what fits it, and is not opened again.               *)
SlotStays(x) ==
  /\ x \in Exists(slots)
  /\ slots'[x].work = slots[x].work /\ slots'[x].room = slots[x].room
  /\ slots'[x].starts = slots[x].starts /\ slots'[x].capacity = slots[x].capacity
  /\ slots'[x].status = "OPEN" => slots[x].status = "OPEN"
  /\ works'[slots[x].work] = works[slots[x].work]

TrustedSlot(x) == slots[x].work \notin suspect

LEMMA FittedKept ==
  ASSUME TypeOK, Fitted, now' \in Nat, now <= now', suspect \subseteq suspect',
         \A x \in Exists(slots') : TrustedSlot(x)' => SlotStays(x),
         \A x \in Exists(slots) :
           Upcoming(x) /\ Pending(x) /\ SlotStays(x) => Pending(x)' \/ FittedTo(slots[x])'
  PROVE  Fitted'
<1> SUFFICES ASSUME NEW x \in Exists(slots'), Upcoming(x)', slots'[x].work \notin suspect'
             PROVE  FittedTo(slots[x])' \/ Pending(x)'
  BY DEF Fitted
<1>1. SlotStays(x)
  BY DEF TrustedSlot
<1>2. x \in Exists(slots) /\ slots[x] \in SlotRow
  BY <1>1, ExistingSlots DEF SlotStays, TypeOK
<1>3. slots[x].starts > now' => slots[x].starts > now
  BY <1>2 DEF SlotRow, TypeOK
<1>4. Upcoming(x) /\ slots[x].work \notin suspect
  BY <1>1, <1>3 DEF SlotStays, Upcoming
<1>5. FittedTo(slots[x]) \/ Pending(x)
  BY <1>2, <1>4 DEF Fitted
<1>6. FittedTo(slots[x]) => FittedTo(slots[x])'
  BY <1>1 DEF SlotStays, FittedTo
<1>7. QED BY <1>1, <1>2, <1>4, <1>5, <1>6

LEMMA FittedOthers ==
  ASSUME TypeOK, Fitted, now' \in Nat, now <= now', suspect \subseteq suspect', form' = form,
         \A x \in Exists(slots') : TrustedSlot(x)' => SlotStays(x)
  PROVE  Fitted'
<1>1. \A x \in Exists(slots) : Pending(x) /\ SlotStays(x) => Pending(x)'
  BY DEF Pending, SlotStays
<1>2. QED BY <1>1, FittedKept

LEMMA FittedGenerateSlot ==
  ASSUME TypeOK, GenSound, Fitted, NEW slot \in gen.todo, GenerateSlot(slot)
  PROVE  Fitted'
<1>1. PICK s \in SlotId :
        /\ slots' = [slots EXCEPT ![s] = slot]
        /\ slot \in SlotRow /\ slot.work \in Exists(works)
  BY TargetSlot
<1>2. slots' \in [SlotId -> SlotRow \cup {Absent}]
  BY <1>1 DEF TypeOK
<1>3. /\ Exists(slots) = {x \in SlotId : slots[x] \in SlotRow}
      /\ Exists(slots') = {x \in SlotId : slots'[x] \in SlotRow}
  BY <1>2, ExistingSlots DEF TypeOK
<1>4. slots'[s] = slot /\ \A x \in SlotId \ {s} : slots'[x] = slots[x]
  BY <1>1 DEF TypeOK
<1>5. works' = works /\ suspect' = suspect /\ now' = now /\ form' = form
  BY DEF GenerateSlot
<1>6. slot.work \notin suspect => FittedTo(slot)
  BY <1>1 DEF GenSound
<1>7. slot.work \notin suspect => FittedTo(slots[s])'
  BY <1>4, <1>5, <1>6 DEF FittedTo
<1>8. ASSUME NEW x \in Exists(slots'), x # s
      PROVE  /\ x \in Exists(slots) /\ slots'[x] = slots[x]
             /\ FittedTo(slots[x]) => FittedTo(slots[x])'
             /\ Pending(x) => Pending(x)'
             /\ Upcoming(x)' => Upcoming(x)
  <2>1. x \in Exists(slots) /\ slots'[x] = slots[x]
    BY <1>3, <1>4, <1>8
  <2>2. FittedTo(slots[x]) => FittedTo(slots[x])'
    BY <2>1, <1>5 DEF FittedTo
  <2>3. QED BY <2>1, <2>2, <1>5 DEF Pending, Upcoming
<1>9. QED BY <1>4, <1>5, <1>7, <1>8 DEF Fitted

LEMMA FittedSaveLabWork ==
  ASSUME TypeOK, FormSound, Fitted, NEW lw \in LabWork, NEW row \in FormRows,
         works[lw] # Deleted, SaveLabWork(lw, row)
  PROVE  Fitted'
<1>0. PICK resize \in BOOLEAN, retime \in BOOLEAN :
        \E saved, c, d :
          /\ resize <=> works[lw] # Absent /\ works[lw].capacity # row.capacity
          /\ saved = [row EXCEPT !.code = FreeCode(lw)]
          /\ works' = [works EXCEPT ![lw] = saved]
          /\ form' = [NoForm EXCEPT !.pc = IF resize \/ retime THEN "list" ELSE "idle",
                                    !.work = IF resize \/ retime THEN lw ELSE None,
                                    !.resize = resize, !.retime = retime,
                                    !.capacity = c, !.duration = d]
  BY DEF SaveLabWork
<1>1. PICK saved, c, d :
        /\ resize <=> works[lw] # Absent /\ works[lw].capacity # row.capacity
        /\ saved = [row EXCEPT !.code = FreeCode(lw)]
        /\ works' = [works EXCEPT ![lw] = saved]
        /\ form' = [NoForm EXCEPT !.pc = IF resize \/ retime THEN "list" ELSE "idle",
                                  !.work = IF resize \/ retime THEN lw ELSE None,
                                  !.resize = resize, !.retime = retime,
                                  !.capacity = c, !.duration = d]
  BY <1>0
<1>2. saved.capacity = row.capacity
  BY <1>1, RowsAssumption DEF WorkRow
<1>3. works'[lw] = saved /\ \A x \in LabWork \ {lw} : works'[x] = works[x]
  BY <1>1 DEF TypeOK
<1>4. resize => form'.resize /\ form'.work = lw /\ form'.pc = "list"
  BY <1>1 DEF NoForm
<1>5. form.pc = "idle" /\ now' = now /\ slots' = slots /\ suspect \subseteq suspect'
  BY DEF SaveLabWork
<1> SUFFICES ASSUME NEW x \in Exists(slots'), Upcoming(x)', slots'[x].work \notin suspect'
             PROVE  FittedTo(slots[x])' \/ Pending(x)'
  BY DEF Fitted
<1>6. x \in Exists(slots) /\ slots[x].work \in Exists(works) /\ slots[x].work \in LabWork
  BY <1>5 DEF Exists, TypeOK
<1>7. FittedTo(slots[x])
  BY <1>5, <1>6 DEF Fitted, Upcoming, Pending
<1>8. CASE slots[x].work # lw
  <2>1. works'[slots[x].work] = works[slots[x].work]
    BY <1>3, <1>6, <1>8
  <2>2. QED BY <1>5, <1>7, <2>1 DEF FittedTo
<1>9. CASE slots[x].work = lw /\ resize
  BY <1>4, <1>5, <1>9 DEF Pending
<1>10. CASE slots[x].work = lw /\ ~resize
  <2>1. works[lw] # Absent
    BY <1>6, <1>10 DEF Exists
  <2>2. works[lw].capacity = works'[lw].capacity
    BY <1>1, <1>2, <1>3, <1>10, <2>1
  <2>3. QED BY <1>5, <1>7, <1>10, <2>2 DEF FittedTo
<1>11. QED BY <1>8, <1>9, <1>10

LEMMA FittedSaves ==
  ASSUME TypeOK, FormSound, Fitted, NEW s \in SlotId, SaveCapacity(s) \/ SaveDuration(s)
  PROVE  Fitted'
<1>1. form' = [form EXCEPT !.todo = @ \ {s}]
  BY DEF SaveCapacity, SaveDuration
<1>2. /\ form'.pc = form.pc /\ form'.todo = form.todo \ {s} /\ form'.work = form.work
      /\ form'.resize = form.resize
  BY <1>1 DEF FormState, TypeOK
<1>3. works' = works /\ suspect' = suspect /\ now' = now
  BY DEF SaveCapacity, SaveDuration
<1>4. /\ SlotEdited(s) /\ s \in Exists(slots) /\ slots'[s].status = slots[s].status
      /\ s \in form.todo
  BY SaveCapacityEdits, SaveDurationEdits DEF SaveCapacity, SaveDuration
<1>5. KeysKept
  BY <1>4, EditedKeys
<1>6. ASSUME NEW x \in Exists(slots), x # s
      PROVE  /\ slots'[x] = slots[x]
             /\ FittedTo(slots[x]) => FittedTo(slots[x])'
             /\ Pending(x) => Pending(x)'
             /\ Upcoming(x)' => Upcoming(x)
  <2>1. x \in SlotId
    BY DEF Exists, TypeOK
  <2>2. slots'[x] = slots[x]
    BY <1>4, <1>6, <2>1 DEF SlotEdited
  <2>3. FittedTo(slots[x]) => FittedTo(slots[x])'
    BY <1>3, <2>2 DEF FittedTo
  <2>4. QED BY <1>2, <1>3, <1>6, <2>2, <2>3 DEF Pending, Upcoming
<1>7. Upcoming(s)' /\ slots'[s].work \notin suspect' => FittedTo(slots[s])' \/ Pending(s)'
  <2>1. CASE SaveCapacity(s)
    <3>1. slots'[s].capacity = LabSessionCapacity(form.capacity, slots[s].room)
      BY <2>1, SaveCapacityEdits
    <3>2. form.resize /\ (slots[s].work = form.work \/ slots[s].work \in suspect)
      BY <1>4, <2>1 DEF SaveCapacity, FormSound
    <3>3. slots[s].work \in Exists(works)
      BY <1>4 DEF TypeOK
    <3>4. slots[s].work \notin suspect => form.capacity = works[slots[s].work].capacity
      BY <3>2, <3>3 DEF FormSound
    <3>5. QED BY <1>3, <1>4, <3>1, <3>4 DEF SlotEdited, FittedTo
  <2>2. CASE SaveDuration(s)
    <3>1. slots'[s].capacity = slots[s].capacity /\ form.pc = "retime"
      BY <2>2, SaveDurationEdits DEF SaveDuration
    <3>2. Upcoming(s)' => Upcoming(s)
      BY <1>3, <1>4 DEF SlotEdited, Upcoming
    <3>3. ~Pending(s)
      BY <3>1 DEF Pending
    <3>4. FittedTo(slots[s]) => FittedTo(slots[s])'
      BY <1>3, <1>4, <3>1 DEF SlotEdited, FittedTo
    <3>5. QED BY <1>3, <1>4, <3>2, <3>3, <3>4 DEF Fitted, SlotEdited
  <2>3. QED BY <2>1, <2>2
<1>8. QED BY <1>3, <1>5, <1>6, <1>7 DEF Fitted, KeysKept


LEMMA FittedStep ==
  ASSUME TypeOK, FormSound, GenSound, Fitted, [Next]_vars
  PROVE  Fitted'
<1>1. CASE Generate
  <2>1. CASE UNCHANGED <<now, works, slots, form, suspect>>
    BY <2>1, FittedOthers DEF SlotStays, TypeOK
  <2>2. QED BY <1>1, <2>1, FittedGenerateSlot
            DEF Generate, BeginGenerate, EndGenerate, GenerateFails
<1>2. CASE ListForCapacity \/ ListForDuration
  <2>1. UNCHANGED <<now, works, slots, suspect>>
    BY <1>2 DEF ListForCapacity, ListForDuration
  <2>2. \A x \in Exists(slots') : SlotStays(x)
    BY <2>1 DEF SlotStays
  <2>3. \A x \in Exists(slots) : Upcoming(x) /\ Pending(x) => Pending(x)'
    <3>1. CASE ListForCapacity
      <4>1. form' = [form EXCEPT !.pc = "resize", !.todo = FutureOpen(form.work)]
        BY <3>1 DEF ListForCapacity
      <4>2. /\ form'.pc = "resize" /\ form'.todo = FutureOpen(form.work)
            /\ form'.work = form.work /\ form'.resize = form.resize
        BY <4>1 DEF FormState, TypeOK
      <4>3. QED BY <4>2, <2>1 DEF Upcoming, Pending, FutureOpen, SlotsOf
    <3>2. CASE ListForDuration
      BY <3>2 DEF ListForDuration, Pending
    <3>3. QED BY <1>2, <3>1, <3>2
  <2>4. now' \in Nat /\ now <= now'
    BY <2>1 DEF TypeOK
  <2>5. QED BY <2>1, <2>2, <2>3, <2>4, FittedKept
<1>3. CASE EndSync \/ DeleteLabWork \/ \E lw \in LabWork : BeginDelete(lw)
  <2>1. \A x : ~Pending(x)
    BY <1>3 DEF EndSync, DeleteLabWork, BeginDelete, Pending
  <2>2. now' = now /\ suspect' = suspect
    BY <1>3 DEF EndSync, DeleteLabWork, BeginDelete
  <2>3. \A x \in Exists(slots') : SlotStays(x)
    <3>1. CASE EndSync \/ \E lw \in LabWork : BeginDelete(lw)
      BY <3>1 DEF EndSync, BeginDelete, SlotStays
    <3>2. CASE DeleteLabWork
      <4>1. form.work \in LabWork
        BY <3>2 DEF DeleteLabWork, FormSound
      <4>2. \A x \in Exists(slots') : /\ x \in Exists(slots) /\ slots'[x] = slots[x]
                                      /\ slots[x].work # form.work
        BY <3>2, <4>1, DeletedRows
      <4>3. \A lw \in LabWork : lw # form.work => works'[lw] = works[lw]
        BY <3>2 DEF DeleteLabWork, TypeOK
      <4>4. \A x \in Exists(slots) : slots[x].work \in LabWork
        BY DEF TypeOK, Exists
      <4>5. QED BY <4>2, <4>3, <4>4 DEF SlotStays
    <3>3. QED BY <1>3, <3>1, <3>2
  <2>4. now' \in Nat /\ now <= now'
    BY <2>2 DEF TypeOK
  <2>5. QED BY <2>1, <2>2, <2>3, <2>4, FittedKept
<1>4. CASE Form
  BY <1>2, <1>3, <1>4, FittedSaveLabWork, FittedSaves DEF Form
<1>5. CASE Dedupe
  <2>1. now' = now /\ form' = form /\ suspect \subseteq suspect'
    BY <1>5 DEF Dedupe
  <2>2. now' \in Nat /\ now <= now'
    BY <2>1 DEF TypeOK
  <2>3. /\ Exists(slots') = Exists(slots)
        /\ \A x \in Exists(slots) : /\ slots'[x].room = slots[x].room
                                    /\ slots'[x].starts = slots[x].starts
                                    /\ slots'[x].status = slots[x].status
                                    /\ slots'[x].capacity = slots[x].capacity
    BY <1>5, MovedSlots DEF Dedupe
  <2>4. TrustedStay
    BY <1>5, TrustedAfterDedupe
  <2>5. \A x \in Exists(slots') : slots'[x].work \in Exists(works')
    BY <1>5, TypeDedupe DEF TypeOK
  <2>6. \A x \in Exists(slots') : TrustedSlot(x)' => SlotStays(x)
    BY <1>5, <2>3, <2>4, <2>5, TrustedSlotsStay DEF TrustedStay, TrustedSlot, SlotStays
  <2>7. QED BY <2>1, <2>2, <2>6, FittedOthers
<1>6. CASE StatusStep
  <2>1. KeysKept /\ form' = form /\ works' = works /\ suspect \subseteq suspect'
    BY <1>6, StatusStepKeeps
       DEF StatusStep, CancelSession, EditSession, CancelBooking, MarkVisited, Tick
  <2>2. now' \in Nat /\ now <= now'
    <3>1. now' \in {now, now + 1}
      BY <1>6 DEF StatusStep, CancelSession, EditSession, CancelBooking, MarkVisited, Tick
    <3>2. QED BY <3>1 DEF TypeOK
  <2>3. ASSUME NEW x \in Exists(slots'), TrustedSlot(x)'
        PROVE  /\ slots'[x].capacity = slots[x].capacity
               /\ slots'[x].status = "OPEN" => slots[x].status = "OPEN"
    <3>1. x \in Exists(slots) /\ x \in SlotId
      BY <2>1 DEF KeysKept, Exists, TypeOK
    <3>2. ASSUME NEW s \in SlotId, CancelSession(s)
          PROVE  /\ slots'[x].capacity = slots[x].capacity
                 /\ slots'[x].status = "OPEN" => slots[x].status = "OPEN"
      <4>1. /\ s \in Exists(slots) /\ slots[s].status = "OPEN"
            /\ slots' = [slots EXCEPT ![s].status = "CANCELLED"]
        BY <3>2 DEF CancelSession
      <4>2. SlotEdited(s) /\ slots'[s].capacity = slots[s].capacity
        BY <4>1, StatusEdits DEF SlotStatus
      <4>3. QED BY <3>1, <4>1, <4>2 DEF SlotEdited
    <3>3. ASSUME NEW s \in SlotId, NEW new \in SessionEdits, EditSession(s, new)
          PROVE  slots'[x] = slots[x]
      <4>1. suspect' = suspect \cup {slots[s].work} /\ slots' = [slots EXCEPT ![s].status = new]
        BY <3>3 DEF EditSession
      <4>2. slots'[x].work = slots[x].work
        BY <2>1, <3>1 DEF KeysKept
      <4>3. x # s
        BY <2>3, <4>1, <4>2 DEF TrustedSlot
      <4>4. QED BY <3>1, <4>1, <4>3 DEF TypeOK
    <3>4. CASE MarkVisited
      BY <3>1, <3>4, ClosedSlots
    <3>5. CASE slots' = slots
      BY <3>5
    <3>6. QED BY <1>6, <3>2, <3>3, <3>4, <3>5 DEF StatusStep, CancelBooking, Tick
  <2>4. \A x \in Exists(slots') : TrustedSlot(x)' => SlotStays(x)
    BY <2>1, <2>3 DEF KeysKept, SlotStays
  <2>5. QED BY <2>1, <2>2, <2>4, FittedOthers
<1>7. ASSUME UNCHANGED <<now, works, slots, form, suspect>>
      PROVE  Fitted'
  BY <1>7, FittedOthers DEF SlotStays, TypeOK
<1>8. CASE UNCHANGED vars
  BY <1>7, <1>8 DEF vars
<1>9. ASSUME NEW s \in SlotId, Book(s) PROVE Fitted'
  BY <1>7, <1>9 DEF Book
<1>10. QED BY <1>1, <1>4, <1>5, <1>6, <1>8, <1>9 DEF Next, StatusStep

-------------------------------------------------------------------------------
(* The results                                                               *)

LEMMA SlotInvInit == Init => SlotInv
<1> SUFFICES ASSUME Init PROVE SlotInv
  OBVIOUS
<1>1. Exists(slots) = {} /\ Exists(bookings) = {}
  BY DEF Init, Exists
<1>2. GenSound /\ FormSound
  BY DEF Init, NoRun, NoForm, GenSound, FormSound
<1>3. QED BY <1>1, <1>2, TypeInit
          DEF SlotInv, BookingFollowsSlot, SlotsUnique, SlotsOf, Fitted

LEMMA SlotInvariant == Spec => []SlotInv
<1>1. SlotInv /\ [Next]_vars => SlotInv'
  <2> SUFFICES ASSUME SlotInv, [Next]_vars PROVE SlotInv'
    OBVIOUS
  <2>1. TypeOK /\ FormSound /\ GenSound /\ Fitted /\ BookingFollowsSlot /\ KeysUnique
    BY UniqueAsKeys DEF SlotInv
  <2>2. TypeOK'
    BY <2>1, TypeStep
  <2>3. KeysUnique'
    BY <2>1, UniqueStep
  <2>4. SlotsUnique'
    BY <2>2, <2>3, UniqueAsKeys, PTL
  <2>5. QED BY <2>1, <2>2, <2>4, FollowStep, GenStep, FormStep, FittedStep DEF SlotInv
<1>2. QED BY <1>1, SlotInvInit, PTL DEF Spec

(* Rows are of their types, and none refers to a row that is gone.           *)
THEOREM TypeCorrect == Spec => []TypeOK
<1>1. SlotInv => TypeOK
  BY DEF SlotInv
<1>2. QED BY <1>1, SlotInvariant, PTL

(* A booking's lab work and start are those of its slot, through every       *)
(* generation, merge, edit and deletion.                                     *)
THEOREM BookingsFollowSlots == Spec => []BookingFollowsSlot
<1>1. SlotInv => BookingFollowsSlot
  BY DEF SlotInv
<1>2. QED BY <1>1, SlotInvariant, PTL

(* However often the generation runs, no lab work gets two slots of one room *)
(* and start, unless a merge brought them together.                          *)
THEOREM NoSlotTwice == Spec => []SlotsUnique
<1>1. SlotInv => SlotsUnique
  BY DEF SlotInv
<1>2. QED BY <1>1, SlotInvariant, PTL

(* Between the requests of lab heads an open future slot has exactly the      *)
(* seats that its lab work and its room allow.                               *)
THEOREM CapacitiesFollow == Spec => []CapacitiesAgree
<1>1. SlotInv => CapacitiesAgree
  <2> SUFFICES ASSUME SlotInv, form.pc = "idle",
                      NEW lw \in Exists(works) \ suspect, NEW s \in SlotsOf(lw),
                      slots[s].status = "OPEN", slots[s].starts > now
               PROVE  /\ slots[s].capacity <= works[lw].capacity
                      /\ slots[s].capacity <= RoomCapacity[slots[s].room]
                      /\ slots[s].capacity \in {works[lw].capacity, RoomCapacity[slots[s].room]}
    BY DEF CapacitiesAgree
  <2>1. s \in Exists(slots) /\ slots[s].work = lw /\ slots[s] \in SlotRow
    BY ExistingSlots DEF SlotsOf, SlotInv, TypeOK
  <2>2. FittedTo(slots[s])
    BY <2>1 DEF SlotInv, Fitted, Upcoming, Pending
  <2>3. lw \in LabWork /\ works[lw] \in WorkRow
    BY ExistingWorks DEF SlotInv, TypeOK
  <2>4. works[lw].capacity \in Nat /\ RoomCapacity[slots[s].room] \in Nat
    BY <2>1, <2>3, SlotAssumption DEF SlotRow, WorkRow
  <2>5. QED BY <2>1, <2>2, <2>4 DEF FittedTo, LabSessionCapacity
<1>2. QED BY <1>1, SlotInvariant, PTL

(* Only a lab head's deletion of a lab work loses bookings, and only those   *)
(* of that lab work.                                                         *)
THEOREM OnlyDeletionLoses == Spec => LostOnlyByDelete
<1> DEFINE Kept == \A b \in Exists(bookings) : bookings'[b] = Absent
                     => form.pc = "delete" /\ form.work = bookings[b].work
<1>1. SlotInv /\ [Next]_vars => Kept
  <2> SUFFICES ASSUME SlotInv, [Next]_vars, NEW b \in Exists(bookings), bookings'[b] = Absent
               PROVE  form.pc = "delete" /\ form.work = bookings[b].work
    OBVIOUS
  <2>1. TypeOK /\ FormSound /\ BookingFollowsSlot
    BY DEF SlotInv
  <2>2. b \notin Exists(bookings')
    BY DEF Exists
  <2>3. CASE DeleteLabWork
    BY <2>1, <2>2, <2>3, DeletedRows DEF DeleteLabWork, FormSound, BookingFollowsSlot
  <2>4. CASE BookingsKept
    BY <2>2, <2>4 DEF BookingsKept
  <2>5. CASE Dedupe
    BY <2>1, <2>2, <2>5, MovedBookings DEF Dedupe
  <2>6. ASSUME NEW s \in SlotId, Book(s)
        PROVE  FALSE
    <3>1. PICK x \in BookingId : Exists(bookings') = Exists(bookings) \cup {x}
      BY <2>1, <2>6, BookedRow
    <3>2. QED BY <2>2, <3>1
  <2>7. bookings' # bookings
    BY <2>2
  <2>8. StatusStep => BookingsKept
    BY <2>1, StatusStepKeeps
  <2>9. ~Generate
    BY <2>7 DEF Generate, BeginGenerate, EndGenerate, GenerateSlot, GenerateFails
  <2>10. Form => DeleteLabWork
    BY <2>7 DEF Form, SaveLabWork, ListForCapacity, ListForDuration, EndSync, SaveCapacity,
                SaveDuration, BeginDelete
  <2>11. ~UNCHANGED vars
    BY <2>7 DEF vars
  <2>12. QED BY <2>3, <2>4, <2>5, <2>6, <2>8, <2>9, <2>10, <2>11 DEF Next, StatusStep
<1> HIDE DEF Kept
<1>2. Spec => [][Kept]_vars
  BY <1>1, SlotInvariant, PTL DEF Spec
<1>3. [][Kept]_vars => LostOnlyByDelete
  BY DEF Kept, LostOnlyByDelete
<1>4. QED BY <1>2, <1>3
================================================================================
