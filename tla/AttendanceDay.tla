---------------------------- MODULE AttendanceDay ----------------------------
(***************************************************************************)
(* Clock-in and clock-out of one agent, from the screens to the rows (E5): *)
(* the phone's attendance tab and the web console's, the clock service,    *)
(* the two maintenance sweeps, HR's manual entry, and the verification     *)
(* queue on which leaders decide.  A request is executed by the server in  *)
(* the steps the code separates; its answer is delivered or lost.          *)
(*                                                                         *)
(* Time is counted in half days: now is 2d-1 during the shift of day d and *)
(* 2d after its end, on the same date and within the check-out window.     *)
(***************************************************************************)
EXTENDS Integers, Sequences, FiniteSets, SequencesExt

CONSTANTS Devices,      \* the agent's devices
          Agents,       \* the agents considered: [last, roster, internal,
                        \* phones, consoles, room], the days modelled (1..last),
                        \* those with a shift, back office or not, what they
                        \* use, and a bound on their records
          Leaders,      \* those who decide on the agent's records
          AbsenceLag,   \* half days from a shift's end to the absence sweep
          CloseLag,     \* half days from a shift's end to the auto-close sweep
          MaxAtOnce     \* bound: requests and jobs the server works on at once

ASSUME DayAssumption == /\ AbsenceLag \in Nat
                        /\ CloseLag \in Nat
                        /\ MaxAtOnce \in Nat
                        /\ \A a \in Agents :
                             /\ a.last \in Nat \ {0}
                             /\ a.roster \subseteq 1..a.last
                             /\ a.internal \in BOOLEAN
                             /\ a.room \in Nat
                             /\ a.phones \cup a.consoles \subseteq Devices
                             /\ a.phones \cap a.consoles = {}

VARIABLES now,       \* half days since the start
          agent,     \* the agent
          rows,      \* the agent's attendance records, by insertion
          dev,       \* what each of the agent's screens shows and holds
          req,       \* the request each of the agent's screens has in flight
          desk,      \* the leaders' queue screens, HR's form included
          sweep      \* the maintenance job at work
vars == <<now, agent, rows, dev, req, desk, sweep>>

Days == 1..agent.last
Horizon == 2 * agent.last + CloseLag
Today == (now + 1) \div 2

Open == {"PENDING", "ESCALATED"}
\* A record is of the shift of its day, or of none; its check-in is dated.
Rows == [day : Days, date : Days, sched : BOOLEAN, in : BOOLEAN,
         out : {"none", "agent", "auto", "manual"},
         st : {"PRESENT", "INCOMPLETE", "ABSENT"},
         ver : {"AUTO_APPROVED", "PENDING", "ESCALATED", "VERIFIED", "REJECTED"},
         flagged : BOOLEAN, photo : 0..agent.last, acts : 0..1,
         due : Int]  \* times queued less decisions announced

\* What the server holds of a request between its reads and its write.
Idle == [op |-> "none", id |-> 0, ver |-> "PENDING", flagged |-> FALSE, photo |-> 0]
\* A screen: the running record it shows, and the photo it holds.
Blank == [open |-> 0, photo |-> 0]
\* A queue screen: the records its request still decides on; HR's form: the date the
\* autofill found without a record.
Empty == [todo |-> {}, kind |-> "none", day |-> 0]
NoJob == [job |-> "none", todo |-> {}]

Init == /\ now = 1
        /\ agent \in Agents
        /\ rows = << >>
        /\ dev = [d \in Devices |-> Blank]
        /\ req = [d \in Devices |-> Idle]
        /\ desk = [l \in Leaders |-> Empty]
        /\ sweep = NoJob

-----------------------------------------------------------------------------
(* The server's rules.                                                     *)

StillOpen(i) == rows[i].out = "none"
WithinWindow(r) == r.out = "none" /\ r.in /\ now <= 2 * r.day

\* A null check-in sorts first in a descending order.
OpenRecord ==
  LET open == {i \in DOMAIN rows : StillOpen(i)}
      blank == {i \in open : ~rows[i].in}
  IN  IF blank # {} THEN Max(blank) ELSE Max(open \cup {0})

\* Mutant: an index over the clocked-in records only.
TakenIfPresent(day) ==
  \E i \in DOMAIN rows : rows[i].sched /\ rows[i].day = day /\ rows[i].in
Taken(day) == \E i \in DOMAIN rows : rows[i].sched /\ rows[i].day = day

Queue(r) == [r EXCEPT !.ver = "PENDING",
                      !.due = @ + (IF r.ver \in Open THEN 0 ELSE 1)]
\* Mutant: the flag written as a status.
AutoClosedStatus(r) == [Queue(r) EXCEPT !.out = "auto", !.st = "AUTO_CLOSED"]
AutoClosed(r) == [Queue(r) EXCEPT !.out = "auto", !.st = "INCOMPLETE",
                                  !.flagged = TRUE]

NewRow(day, sched, flag, photo) ==
  [day |-> day, date |-> day, sched |-> sched, in |-> TRUE, out |-> "none",
   st |-> "PRESENT", ver |-> IF flag THEN "PENDING" ELSE "AUTO_APPROVED",
   flagged |-> flag, photo |-> photo, acts |-> 0,
   due |-> IF flag THEN 1 ELSE 0]

AbsentRow(day) ==
  [NewRow(day, TRUE, FALSE, 0) EXCEPT !.in = FALSE, !.st = "ABSENT",
                                      !.ver = "PENDING", !.due = 1]

AtWork == {d \in Devices : req[d] # Idle} \cup {l \in Leaders : desk[l].todo # {}}
Capacity == Cardinality(AtWork) + (IF sweep = NoJob THEN 0 ELSE 1) < MaxAtOnce

-----------------------------------------------------------------------------
(* The agent's screens.                                                    *)

Busy(d) == req[d].op # "none"

\* The running record a list of the records rs shows, the first one checked in
\* and not out; the phone asks that its check-out window is still open.
Running(rs) == {i \in DOMAIN rs : rs[i].in /\ rs[i].out = "none"}
ConsoleOpen(rs) == Max(Running(rs) \cup {0})
PhoneOpen(rs) == Max({i \in Running(rs) : WithinWindow(rs[i])} \cup {0})

Reload(d, rs) ==
  [dev[d] EXCEPT !.open = IF d \in agent.phones THEN PhoneOpen(rs) ELSE ConsoleOpen(rs)]

Show(d, s) == dev' = [dev EXCEPT ![d] = s]

\* The lists are read on focus, on a pull, and after a mutation.
Refetch(d) == /\ dev[d] # Reload(d, rows)
              /\ Show(d, Reload(d, rows))
              /\ UNCHANGED <<now, agent, rows, req, desk, sweep>>

\* What a screen does with an answer: success brings the list up to date and
\* uses up the phone's photo, ALREADY_CLOCKED_IN only brings it up to date, and
\* anything else is an alert.
PhoneHandle(d, op, code, rs) ==
  CASE code = "ok" -> [Reload(d, rs) EXCEPT !.photo = IF op = "in" THEN 0 ELSE @]
    [] code = "ALREADY_CLOCKED_IN" -> Reload(d, rs)
    [] OTHER -> dev[d]

ConsoleHandle(d, code, rs) ==
  IF code \in {"ok", "ALREADY_CLOCKED_IN"} THEN Reload(d, rs) ELSE dev[d]

Handle(d, op, code, rs) == IF d \in agent.phones THEN PhoneHandle(d, op, code, rs)
                           ELSE ConsoleHandle(d, code, rs)

\* The answer is delivered, or lost.
Answer(d, op, code, rs) == \/ Show(d, Handle(d, op, code, rs))
                           \/ UNCHANGED dev

-----------------------------------------------------------------------------
(* Clock-in.                                                               *)

\* Bound: no more clock-ins than agent.room leaves room for.
Room == Today \in Days /\ Len(rows) + Cardinality({d \in Devices : Busy(d)}) < agent.room

\* What the phone's one button does: without a position, or seen outside the
\* site, it is disabled unless the agent works remotely; a day without a record
\* is taken for a day without a shift.
PhoneAction(d, gps, remote, seen) ==
  IF ~remote /\ (~gps \/ (seen /\ dev[d].open = 0)) THEN "none"
  ELSE IF dev[d].open # 0 THEN "out"
  ELSE IF Taken(Today) THEN "in" ELSE "proceed"

\* The console's: clock-in only on a day with a shift, clock-out only with an
\* activity.
ConsoleAction(d) ==
  IF dev[d].open # 0 THEN IF rows[dev[d].open].acts > 0 THEN "out" ELSE "none"
  ELSE IF Today \in agent.roster THEN "in" ELSE "none"

\* A picture taken ahead of the clock-in.
TakePhoto(d) ==
  /\ d \in agent.phones /\ ~Busy(d) /\ dev[d].open = 0
  /\ Room /\ dev[d].photo # Today
  /\ Show(d, [dev[d] EXCEPT !.photo = Today])
  /\ UNCHANGED <<now, agent, rows, req, desk, sweep>>

\* The photo to send: the one still held, or a new one.
Photo(d) == IF d \in agent.consoles THEN 0
            ELSE IF dev[d].photo # 0 THEN dev[d].photo ELSE Today

\* The screen while it waits: the photo it sent is kept for a retry.
Holding(d) == [dev[d] EXCEPT !.photo = Photo(d)]

\* The pool reads of the service.  Without a placement or a position, outside the site or
\* on leave, nothing follows but an alert; then the open record is looked up.
BeginClockIn(d, outside) ==
  /\ ~Busy(d) /\ Room /\ Capacity
  /\ \/ Show(d, Holding(d)) /\ UNCHANGED req
     \/ /\ OpenRecord # 0 /\ WithinWindow(rows[OpenRecord])
        /\ \E s \in {Holding(d), Reload(d, rows)} : Show(d, [s EXCEPT !.photo = Photo(d)])
        /\ UNCHANGED req
     \/ /\ ~(OpenRecord # 0 /\ WithinWindow(rows[OpenRecord]))
        /\ req' = [req EXCEPT ![d] = [Idle EXCEPT !.op = "in", !.id = OpenRecord,
                                        !.flagged = outside, !.photo = Photo(d)]]
        /\ Show(d, Holding(d))
  /\ UNCHANGED <<now, agent, rows, desk, sweep>>

\* On site the server measures again: a phone it finds outside is refused unless
\* it said "proceed".  Remotely it is not measured.
PhoneClockIn(d) ==
  /\ d \in agent.phones
  /\ \E remote, seen, outside \in BOOLEAN :
       /\ PhoneAction(d, TRUE, remote, seen) \in {"in", "proceed"}
       /\ outside => ~remote /\ PhoneAction(d, TRUE, remote, seen) = "proceed"
       /\ BeginClockIn(d, outside)

\* The console asks after the refusal and sends again with the agent's consent.
ConsoleClockIn(d) ==
  /\ d \in agent.consoles /\ ConsoleAction(d) = "in"
  /\ \E outside \in BOOLEAN : BeginClockIn(d, outside)

\* The stale record is closed in a transaction of its own.
CloseStale(d) ==
  LET i == req[d].id
  IN  /\ req[d].op = "in" /\ i # 0
      /\ rows' = IF StillOpen(i) THEN [rows EXCEPT ![i] = AutoClosed(@)] ELSE rows
      /\ req' = [req EXCEPT ![d].id = 0]
      /\ UNCHANGED <<now, agent, dev, desk, sweep>>

Finish(d, code) == /\ Answer(d, req[d].op, code, rows')
                   /\ req' = [req EXCEPT ![d] = Idle]
                   /\ UNCHANGED <<now, agent, desk, sweep>>

InsertClockIn(d) ==
  /\ req[d].op = "in" /\ req[d].id = 0
  /\ \/ /\ Today \in agent.roster /\ ~Taken(Today)
        /\ \E late \in BOOLEAN :
             rows' = Append(rows, NewRow(Today, TRUE, late \/ req[d].flagged,
                                         req[d].photo))
        /\ Finish(d, "ok")
     \/ /\ Today \in agent.roster /\ Taken(Today)
        /\ UNCHANGED rows /\ Finish(d, "ALREADY_CLOCKED_IN")
     \/ /\ Today \notin agent.roster /\ agent.internal
        /\ rows' = Append(rows, NewRow(Today, FALSE, TRUE, req[d].photo))
        /\ Finish(d, "ok")
     \/ /\ Today \notin agent.roster /\ ~agent.internal
        /\ UNCHANGED rows /\ Finish(d, "NO_SCHEDULED_SHIFT")

-----------------------------------------------------------------------------
(* Clock-out and activities.                                               *)

\* The service asks for an activity again, having read the record and its
\* activities through the pool...
ClockOut(d) ==
  /\ ~Busy(d) /\ Capacity
  /\ UNCHANGED <<now, agent, rows, desk, sweep>>
  /\ \/ /\ OpenRecord = 0
        /\ Answer(d, "out", "NOT_CLOCKED_IN", rows) /\ UNCHANGED req
     \/ /\ OpenRecord # 0 /\ rows[OpenRecord].acts = 0
        /\ Answer(d, "out", "ACTIVITY_REQUIRED", rows) /\ UNCHANGED req
     \/ /\ OpenRecord # 0 /\ rows[OpenRecord].acts # 0
        /\ \E flag \in {rows[OpenRecord].flagged, TRUE} :
             req' = [req EXCEPT ![d] = [Idle EXCEPT !.op = "out", !.id = OpenRecord,
                                          !.ver = rows[OpenRecord].ver,
                                          !.flagged = flag]]
        /\ UNCHANGED dev

\* The phone's button is never gated, its handler is.
PhoneClockOut(d) ==
  /\ d \in agent.phones /\ PhoneAction(d, TRUE, FALSE, FALSE) = "out"
  /\ rows[dev[d].open].acts > 0
  /\ ClockOut(d)

ConsoleClockOut(d) == d \in agent.consoles /\ ConsoleAction(d) = "out" /\ ClockOut(d)

\* ...and writes over it, with the verification worked out from what it read.
ClockedOut(r, q) ==
  LET ver == IF ~q.flagged THEN "VERIFIED" ELSE IF q.ver \in Open THEN q.ver ELSE "PENDING"
      again == ver \in Open /\ r.ver \notin Open
  IN  [r EXCEPT !.out = "agent", !.st = "PRESENT", !.ver = ver, !.flagged = q.flagged,
                !.due = @ + (IF again THEN 1 ELSE 0)]

WriteClockOut(d) == /\ req[d].op = "out"
                    /\ rows' = [rows EXCEPT ![req[d].id] = ClockedOut(@, req[d])]
                    /\ Finish(d, "ok")

SetActivities(d, k) ==
  LET i == dev[d].open
  IN  /\ i # 0 /\ ~Busy(d)
      /\ StillOpen(i) /\ rows[i].acts # k
      /\ rows' = [rows EXCEPT ![i].acts = k]
      /\ UNCHANGED <<now, agent, dev, req, desk, sweep>>

PhoneAddActivity(d) == d \in agent.phones /\ SetActivities(d, 1)
PhoneRemoveActivity(d) == d \in agent.phones /\ SetActivities(d, 0)
ConsoleAddActivity(d) == d \in agent.consoles /\ SetActivities(d, 1)
ConsoleDeleteActivity(d) == d \in agent.consoles /\ SetActivities(d, 0)

\* The record was closed behind the console, which reads its list again; the
\* phone only says that something failed.
ActivityRefused(d) ==
  /\ d \in agent.consoles /\ ~Busy(d) /\ dev[d].open # 0 /\ ~StillOpen(dev[d].open)
  /\ Show(d, Reload(d, rows))
  /\ UNCHANGED <<now, agent, rows, req, desk, sweep>>

-----------------------------------------------------------------------------
(* The verification queue.                                                 *)

Desk(l, s) == /\ desk' = [desk EXCEPT ![l] = s]
              /\ UNCHANGED <<now, agent, dev, req, sweep>>

\* A row is ticked while it is listed, and stays ticked on other pages and when
\* it has left the list since.
Tickable == {i \in DOMAIN rows : rows[i].ver # "AUTO_APPROVED"}

\* A confirmed dialog sends its decision on the records sel.
Confirm(l, sel, kind) == /\ desk[l] = Empty /\ Capacity
                         /\ UNCHANGED rows
                         /\ Desk(l, [todo |-> sel, kind |-> kind, day |-> 0])

ConfirmBulk(l) == \E sel \in (SUBSET Tickable) \ {{}}, kind \in {"VERIFIED", "REJECTED"} :
                    Confirm(l, sel, kind)
ConfirmRow(l) == \E i \in Tickable, kind \in {"VERIFIED", "REJECTED"} :
                   Confirm(l, {i}, kind)
PhoneConfirm(l) == \/ ConfirmRow(l)
                   \/ \E sel \in (SUBSET Tickable) \ {{}} : Confirm(l, sel, "VERIFIED")

\* The record's own page asks for the times an absent or incomplete record lacks
\* and sends them with the verification.
MayAct(i) == rows[i].ver \in Open
ConfirmVerify(l) == \E i \in DOMAIN rows :
  MayAct(i) /\ Confirm(l, {i}, IF rows[i].st = "PRESENT" THEN "VERIFIED" ELSE "TIMED")
ConfirmReject(l) == \E i \in DOMAIN rows : MayAct(i) /\ Confirm(l, {i}, "REJECTED")

Decided(r, kind) == [r EXCEPT !.ver = IF kind = "TIMED" THEN "VERIFIED" ELSE kind,
                              !.due = @ - 1]

\* Mutant: a decision that does not look at the verification status.
DecideAnyway(l) ==
  /\ desk[l].todo # {}
  /\ LET i == Min(desk[l].todo)
         rest == desk[l].todo \ {i}
     IN /\ Desk(l, IF rest = {} THEN Empty ELSE [desk[l] EXCEPT !.todo = rest])
        /\ rows' = [rows EXCEPT ![i] = Decided(@, desk[l].kind)]

\* One record of the request, in its own transaction under the row's lock.  A record
\* already settled fails its item only, and so does a verification while a correction
\* of the record is open: the server asks for a ruling that no screen sends.
DecideOne(l) ==
  /\ desk[l].todo # {}
  /\ LET i == Min(desk[l].todo)
         rest == desk[l].todo \ {i}
     IN /\ Desk(l, IF rest = {} THEN Empty ELSE [desk[l] EXCEPT !.todo = rest])
        /\ \/ /\ rows[i].ver \in Open /\ desk[l].kind # "TIMED"
              /\ rows' = [rows EXCEPT ![i] = Decided(@, desk[l].kind)]
           \/ /\ rows[i].ver \in Open /\ desk[l].kind = "TIMED"
              /\ \E out \in {rows[i].out, "manual"} :
                   rows' = [rows EXCEPT ![i] =
                              [Decided(@, "TIMED") EXCEPT
                                 !.in = TRUE, !.st = "PRESENT", !.out = out]]
           \/ /\ rows[i].ver \notin Open \/ desk[l].kind # "REJECTED"
              /\ UNCHANGED rows

-----------------------------------------------------------------------------
(* HR's form.                                                              *)

\* The records of a date, by their shift or by their check-in.
Autofill(day) == {i \in DOMAIN rows : \/ rows[i].sched /\ rows[i].day = day
                                      \/ rows[i].in /\ rows[i].date = day}

\* The form fetches what the date holds, and can be sent only if that is nothing.
OpenForm(l) == \E day \in Days : /\ desk[l] = Empty /\ Autofill(day) = {}
                                  /\ UNCHANGED rows
                                  /\ Desk(l, [Empty EXCEPT !.day = day])
LeaveForm(l) == desk[l].day # 0 /\ UNCHANGED rows /\ Desk(l, Empty)

\* The record the server files: of the shift of the day it is filed on, whatever its date.
Filed(l, out) ==
  LET sched == Today \in agent.roster
      day   == IF sched THEN Today ELSE desk[l].day
  IN  [NewRow(day, sched, TRUE, 0) EXCEPT !.date = desk[l].day, !.out = out]

\* Only the shift's unique index looks again; what it refuses stays in the form.  Bound:
\* HR files on the days modelled, and no more records than agent.room.
ManualCreate(l) ==
  /\ desk[l].day # 0 /\ Today \in Days /\ Len(rows) < agent.room
  /\ Today \in agent.roster => ~Taken(Today)
  /\ \E out \in {"none", "manual"} : rows' = Append(rows, Filed(l, out))
  /\ Desk(l, Empty)

-----------------------------------------------------------------------------
(* The sweeps: a list of candidates, then a transaction for each.          *)

\* Mutant: a sweep that only looks at the shifts that have just ended.
UnreportedNow == {d \in agent.roster : now = 2 * d + AbsenceLag /\ ~Taken(d)}
Unreported == {d \in agent.roster : now >= 2 * d + AbsenceLag /\ ~Taken(d)}
Stale == {i \in DOMAIN rows :
            rows[i].sched /\ StillOpen(i) /\ now >= 2 * rows[i].day + CloseLag}

Sweep(s) == /\ sweep' = s
            /\ UNCHANGED <<now, agent, dev, req, desk>>

StartAbsence == /\ sweep.job = "none" /\ Unreported # {} /\ Capacity /\ UNCHANGED rows
                /\ Sweep([job |-> "absence", todo |-> Unreported])

StartClose == /\ sweep.job = "none" /\ Stale # {} /\ Capacity /\ UNCHANGED rows
              /\ Sweep([job |-> "close", todo |-> Stale])

Without(x) == IF sweep.todo = {x} THEN NoJob
            ELSE [sweep EXCEPT !.todo = @ \ {x}]

MarkAbsent ==
  /\ sweep.job = "absence"
  /\ LET day == Min(sweep.todo)
     IN  /\ rows' = IF Taken(day) THEN rows ELSE Append(rows, AbsentRow(day))
         /\ Sweep(Without(day))

\* Mutant: the sweep trusts its list.
AutoCloseListed ==
  /\ sweep.job = "close"
  /\ LET i == Min(sweep.todo)
     IN  /\ rows' = [rows EXCEPT ![i] = AutoClosed(@)]
         /\ Sweep(Without(i))

AutoClose ==
  /\ sweep.job = "close"
  /\ LET i == Min(sweep.todo)
     IN  /\ rows' = IF StillOpen(i) THEN [rows EXCEPT ![i] = AutoClosed(@)]
                    ELSE rows
         /\ Sweep(Without(i))

\* A session lasts milliseconds, half a day does not pass within one.
Tick == /\ now < Horizon
        /\ \A d \in Devices : ~Busy(d)
        /\ sweep = NoJob
        /\ now' = now + 1
        /\ UNCHANGED <<agent, rows, dev, req, desk, sweep>>

-----------------------------------------------------------------------------
Server(d) == CloseStale(d) \/ InsertClockIn(d) \/ WriteClockOut(d)
ByPhone(d) == \/ TakePhoto(d) \/ PhoneClockIn(d) \/ PhoneClockOut(d)
              \/ PhoneAddActivity(d) \/ PhoneRemoveActivity(d)
ByConsole(d) == \/ ConsoleClockIn(d) \/ ConsoleClockOut(d) \/ ConsoleAddActivity(d)
                \/ ConsoleDeleteActivity(d) \/ ActivityRefused(d)
Leader(l) == \/ ConfirmBulk(l) \/ ConfirmRow(l) \/ PhoneConfirm(l)
             \/ ConfirmVerify(l) \/ ConfirmReject(l) \/ DecideOne(l)
             \/ OpenForm(l) \/ LeaveForm(l) \/ ManualCreate(l)
Cron == StartAbsence \/ StartClose \/ MarkAbsent \/ AutoClose

Next == \/ \E d \in agent.phones \cup agent.consoles :
              Refetch(d) \/ ByPhone(d) \/ ByConsole(d) \/ Server(d)
        \/ \E l \in Leaders : Leader(l)
        \/ Cron \/ Tick

\* Time passes, the maintenance jobs are run again and again, and a request
\* that reached the server is executed; nobody is forced to press anything.
Spec == /\ Init /\ [][Next]_vars
        /\ SF_vars(Tick) /\ WF_vars(Cron)
        /\ \A d \in Devices : WF_vars(Server(d))

-----------------------------------------------------------------------------
(* What must hold.                                                         *)

\* Every variable has its type.
TypeOK ==
  /\ now \in 1..Horizon /\ agent \in Agents
  /\ rows \in Seq(Rows)
  /\ \A d \in Devices : /\ dev[d].open \in 0..Len(rows)
                        /\ dev[d].photo \in 0..agent.last
                        /\ req[d].id \in 0..Len(rows)
                        /\ req[d].op \in {"none", "in", "out"}
  /\ \A l \in Leaders : /\ desk[l].todo \subseteq DOMAIN rows
                         /\ desk[l].kind \in {"none", "VERIFIED", "REJECTED", "TIMED"}
                         /\ desk[l].day \in 0..agent.last
  /\ sweep.job \in {"none", "absence", "close"}

\* A shift has one record, whoever wrote it first: two of the agent's screens,
\* HR's form and the absence sweep, each of which looked before another wrote
\* (clock.sql:69, absence.sql:65).
OneRecordPerShift ==
  \A i, j \in DOMAIN rows :
    rows[i].sched /\ rows[j].sched /\ rows[i].day = rows[j].day => i = j

\* A clock-out the agent made stays: neither sweep, working from a list made
\* before it, nor the close of a stale record on clock-in undoes it
\* (clock.sql:97).
ClockOutStays ==
  [][\A i \in DOMAIN rows : rows[i].out = "agent" => rows'[i].out # "auto"]_vars

\* However many leaders decide, from however old a list, the agent is told of
\* one decision for each time the record was put in the queue
\* (attendance_service.go:345).
OneDecisionPerQueueing == \A i \in DOMAIN rows : rows[i].due >= 0

\* No shift is forgotten: in the end it has a record that is closed, says the
\* agent was absent or was verified, even if nobody opens a screen again.
Accounted(d) == \E i \in DOMAIN rows : /\ rows[i].sched /\ rows[i].day = d
                                       /\ \/ rows[i].out # "none"
                                          \/ rows[i].st = "ABSENT"
                                          \/ rows[i].ver = "VERIFIED"
EveryShiftAccounted == <>(now = Horizon /\ \A d \in agent.roster : Accounted(d))

\* "consumed - next clock-in captures a fresh photo" (attendance.tsx:424): the photo
\* filed with a day's clock-in is not filed again with another day's, however the
\* answers to the two were delivered.
PhotoConsumed ==
  \A i, j \in DOMAIN rows :
    rows[i].photo # 0 /\ rows[i].day # rows[j].day => rows[i].photo # rows[j].photo

=============================================================================
