------------------------------ MODULE SupportDesk ------------------------------
(*****************************************************************************)
(* Support tickets: created for a training centre, answered by its staff.    *)
(* An answer is a message row, then the ticket's new status, without a       *)
(* transaction; a ticket left open for a working day is shown as overdue.    *)
(* The clock counts hours, from a Monday at midnight.                        *)
(*****************************************************************************)
EXTENDS AccessScope

CONSTANTS Ticket, Hours, ServersDie   \* ServersDie: whether a worker may die between two steps

ASSUME SupportAssumption ==
  /\ Hours \subseteq Nat /\ \E first \in Hours : \A h \in Hours : first <= h
  /\ ServersDie \in BOOLEAN
  /\ None \notin Ticket

VARIABLES
  ticket,     \* SupportTicket rows, each with the side its last message is from
  reply,      \* the message each person has written without saving the status
  clock,
  overlapped  \* history: tickets two people have answered at once, or half answered
supportVars == <<ticket, reply, clock, overlapped>>

Person == Student \cup Staff
TicketRow == [student : Person, center : Center \cup {None}, status : {"OPEN", "ANSWERED"},
              created : Hours, last : {"NOBODY", "STUDENT", "STAFF"}]
Reply == [ticket : Ticket, status : {"OPEN", "ANSWERED"}]
NoReply == [ticket |-> None]
SupportTypeOK ==
  /\ \A t \in DOMAIN ticket : ticket[t] \in TicketRow
  /\ DOMAIN ticket \subseteq Ticket
  /\ reply \in [Person -> Reply \cup {NoReply}]
  /\ clock \in Hours
  /\ overlapped \subseteq Ticket

SupportInit ==
  /\ ticket = <<>>
  /\ reply = [p \in Person |-> NoReply]
  /\ clock = CHOOSE h \in Hours : \A other \in Hours : h <= other
  /\ overlapped = {}

-------------------------------------------------------------------------------
(* Working hours                                                             *)

Weekday(h) == (h \div 24) % 7
NextMidnight(h) == 24 * (h \div 24 + 1)

(* Mutated form of SkipToNextWeekday: Saturdays count.                       *)
SkipSunday(h) == IF Weekday(h) = 6 THEN NextMidnight(h) ELSE h

SkipToNextWeekday(h) ==
  IF Weekday(h) = 5 THEN NextMidnight(h) + 24
  ELSE IF Weekday(h) = 6 THEN NextMidnight(h)
  ELSE h

(* The loop of add_business_hours: so many hours left to add to a moment.    *)
HoursAdded[left \in Nat] ==
  [at \in Nat |->
     LET current == SkipToNextWeekday(at)
         rest == NextMidnight(current) - current
         chunk == IF left < rest THEN left ELSE rest
     IN IF left = 0 THEN at ELSE HoursAdded[left - chunk][current + chunk]]

AddBusinessHours(start, hours) == HoursAdded[hours][start]

IsOverdue(t) ==
  /\ ticket[t].status = "OPEN"
  /\ clock > AddBusinessHours(ticket[t].created, 24)

-------------------------------------------------------------------------------
(* Tickets                                                                   *)

Create(p, c) ==
  \E t \in Ticket \ DOMAIN ticket :
    /\ ticket' = [x \in DOMAIN ticket \cup {t} |->
         IF x = t THEN [student |-> p, center |-> c, status |-> "OPEN", created |-> clock,
                        last |-> "NOBODY"]
         ELSE ticket[x]]
    /\ UNCHANGED <<reply, clock, overlapped>>

CreateTicket(st, c) ==
  /\ c \in StudentSupportCenters(st)
  /\ Create(st, c)

(* perform_create: only a student's centre is looked at, if one is given.    *)
CreateByApi(p, c) ==
  /\ p \in Student /\ c # None => c \in StudentSupportCenters(p)
  /\ Create(p, c)

(* SupportTicketViewSet.get_queryset                                         *)
SeesTicket(p, t) ==
  IF p \in Staff THEN InLabCenter(p, ticket[t].center) ELSE ticket[t].student = p

(* update: the centre is not looked at again.                                *)
MoveTicket(p, t, c) ==
  /\ SeesTicket(p, t)
  /\ ticket' = [ticket EXCEPT ![t].center = c]
  /\ UNCHANGED <<reply, clock, overlapped>>

DeleteTicket(p, t) ==
  /\ SeesTicket(p, t)
  /\ ticket' = [x \in DOMAIN ticket \ {t} |-> ticket[x]]
  /\ overlapped' = overlapped \ {t}
  /\ reply' = [q \in Person |-> IF reply[q].ticket = t THEN NoReply ELSE reply[q]]
  /\ UNCHANGED clock

(* The message is written; its sender's page knows the status to save next.  *)
Write(p, t, side) ==
  /\ reply[p] = NoReply
  /\ ticket' = [ticket EXCEPT ![t].last = side]
  /\ reply' = [reply EXCEPT ![p] = [ticket |-> t, status |-> IF side = "STAFF" THEN "ANSWERED" ELSE "OPEN"]]
  /\ overlapped' = IF \E q \in Person : reply[q].ticket = t THEN overlapped \cup {t} ELSE overlapped \ {t}
  /\ UNCHANGED clock

(* StaffSupportReplyView *)
StaffReply(u, t) == u \in Staff /\ SeesTicket(u, t) /\ Write(u, t, "STAFF")
(* SupportDetailWebView *)
FollowUp(p, t) == ticket[t].student = p /\ Write(p, t, "STUDENT")
(* SupportMessageView *)
MessageByApi(p, t) == SeesTicket(p, t) /\ Write(p, t, IF p \in Staff THEN "STAFF" ELSE "STUDENT")

(* Mutated form of SaveStatus: a follow-up leaves the status alone.          *)
SaveAnswer(p) ==
  /\ reply[p] # NoReply
  /\ ticket' = [ticket EXCEPT ![reply[p].ticket].status =
                  IF reply[p].status = "ANSWERED" THEN "ANSWERED" ELSE @]
  /\ reply' = [reply EXCEPT ![p] = NoReply]
  /\ UNCHANGED <<clock, overlapped>>

(* The status may be written long after the message.                         *)
SaveStatus(p) ==
  /\ reply[p] # NoReply
  /\ ticket' = [ticket EXCEPT ![reply[p].ticket].status = reply[p].status]
  /\ reply' = [reply EXCEPT ![p] = NoReply]
  /\ UNCHANGED <<clock, overlapped>>

(* The worker dies after the message.                                        *)
LoseStatus(p) ==
  /\ ServersDie
  /\ reply[p] # NoReply
  /\ reply' = [reply EXCEPT ![p] = NoReply]
  /\ overlapped' = overlapped \cup {reply[p].ticket}
  /\ UNCHANGED <<ticket, clock>>

Wait == \E h \in Hours : h > clock /\ clock' = h /\ UNCHANGED <<ticket, reply, overlapped>>

SupportRequest ==
  \/ \E p \in Person, c \in Center \cup {None} : CreateByApi(p, c) \/ (p \in Student /\ CreateTicket(p, c))
  \/ \E p \in Person, t \in DOMAIN ticket :
       \/ StaffReply(p, t) \/ FollowUp(p, t) \/ MessageByApi(p, t) \/ DeleteTicket(p, t)
       \/ \E c \in Center \cup {None} : MoveTicket(p, t, c)
  \/ Wait

SupportContinue == \E p \in Person : SaveStatus(p) \/ LoseStatus(p)

-------------------------------------------------------------------------------
Answering(t) == \E p \in Person : reply[p].ticket = t

(* A ticket whose last message is the student's is open, and shown to staff  *)
(* as waiting: the follow-up reopens it (test_support.py,                    *)
(* test_student_follow_up_reopens_ticket).                                   *)
FollowUpReopens ==
  \A t \in DOMAIN ticket :
    ~Answering(t) /\ ticket[t].last = "STUDENT" => ticket[t].status = "OPEN"

(* Once nobody is writing, the status tells whose turn it is, unless two     *)
(* replies overlapped or one was cut short; the next reply made alone puts   *)
(* the status right again.                                                   *)
StatusFollowsLastMessage ==
  \A t \in DOMAIN ticket \ overlapped :
    ~Answering(t) /\ ticket[t].last # "NOBODY"
      => (ticket[t].status = "ANSWERED" <=> ticket[t].last = "STAFF")

WeekdayHours(from, to) == Cardinality({h \in from .. to - 1 : Weekday(h) < 5})

(* An open ticket is overdue once the 24th hour of a weekday since it was    *)
(* created has passed: counted hour by hour, weekends never count.           *)
OverdueAfterADay ==
  \A t \in DOMAIN ticket :
    ticket[t].status = "OPEN" => (IsOverdue(t) <=> WeekdayHours(ticket[t].created, clock - 1) >= 24)
================================================================================
