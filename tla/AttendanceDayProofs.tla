-------------------------- MODULE AttendanceDayProofs -------------------------
(***************************************************************************)
(* AttendanceDay for any agents, devices and leaders, any number of days   *)
(* and of records, and any lags of the sweeps: every variable keeps its    *)
(* type, a shift has one record, no leader's decision is announced twice   *)
(* for one queueing, and a clock-out the agent made is not undone.         *)
(***************************************************************************)
EXTENDS AttendanceDay, TLAPS, FiniteSetTheorems, SequenceTheorems

-----------------------------------------------------------------------------
(* The inductive invariant.                                                *)

Verifications == {"AUTO_APPROVED", "PENDING", "ESCALATED", "VERIFIED", "REJECTED"}
Kinds == {"VERIFIED", "REJECTED", "TIMED"}

\* What a screen shows, a request holds and a leader's queue lists, with n records.
Screens(n) == [open : 0..n, photo : 0..agent.last]
Requests(n) == [op : {"none", "in", "out"}, id : 0..n, ver : Verifications,
                flagged : BOOLEAN, photo : 0..agent.last]
Queues(n) == [todo : SUBSET (1..n), kind : Kinds \cup {"none"}, day : 0..agent.last]

ScreensTyped == /\ dev \in [Devices -> Screens(Len(rows))]
                /\ req \in [Devices -> Requests(Len(rows))]
                /\ desk \in [Leaders -> Queues(Len(rows))]

\* A request past its reads is about a day of a shift, and a clock-out about a record.
RequestsMeant == \A d \in Devices : /\ req[d].op = "in" => Today \in Days
                                    /\ req[d].op = "out" => req[d].id # 0

\* A queue with records left has a decision, a job has its candidates.
WorkLeft == /\ \A l \in Leaders : desk[l].todo # {} => desk[l].kind \in Kinds
            /\ \/ sweep = NoJob
               \/ /\ sweep.todo # {}
                  /\ \/ sweep \in [job : {"absence"}, todo : SUBSET agent.roster]
                     \/ sweep \in [job : {"close"}, todo : SUBSET (1..Len(rows))]

\* A record in the queue has a decision to come, and no other owes one.
Owed(r) == r.due >= 0 /\ (r.ver \in Open => r.due >= 1)
Settled(rs) == \A i \in 1..Len(rs) : Owed(rs[i])

OnePerShift(rs) == \A i, j \in 1..Len(rs) :
                     rs[i].sched /\ rs[j].sched /\ rs[i].day = rs[j].day => i = j

\* The records are typed and sound.
Sound(rs) == rs \in Seq(Rows) /\ Settled(rs) /\ OnePerShift(rs)

IInv == /\ now \in 1..Horizon /\ agent \in Agents
        /\ Sound(rows) /\ ScreensTyped /\ RequestsMeant /\ WorkLeft

-----------------------------------------------------------------------------
(* The operators.                                                          *)

\* A set of numbers up to n that is not empty has a least and a greatest member.
LEMMA Extremes ==
    ASSUME NEW n \in Nat, NEW S \in SUBSET (0..n), S # {}
    PROVE  Min(S) \in S /\ Max(S) \in S
<1> DEFINE R == OpToRel(<, Nat)
           T == {n - x : x \in S}
<1>1. \A x, y \in Nat : x < y => <<x, y>> \in R
    BY DEF OpToRel
<1>2. IsWellFoundedOn(R, Nat)
    BY NatLessThanWellFounded
<1>3. S \subseteq Nat
    OBVIOUS
<1>4. T \subseteq Nat /\ T # {}
    <2>1. \A x \in S : n - x \in Nat
        OBVIOUS
    <2> QED BY <2>1
<1> HIDE DEF R
<1>5. PICK x \in S : \A y \in S : ~(<<y, x>> \in R)
    <2> HIDE DEF T
    <2> QED BY <1>2, <1>3, WFMin
<1>6. \A y \in S : x =< y
    <2> SUFFICES ASSUME NEW y \in S PROVE x =< y
        OBVIOUS
    <2>1. x \in Nat /\ y \in Nat /\ ~(y < x)
        BY <1>1, <1>3, <1>5
    <2> QED BY <2>1
<1>10. PICK z \in T : \A y \in T : ~(<<y, z>> \in R)
    <2> HIDE DEF T
    <2> QED BY <1>2, <1>4, WFMin
<1>7. PICK m \in S : z = n - m
    OBVIOUS
<1>8. \A y \in S : m >= y
    <2> SUFFICES ASSUME NEW y \in S PROVE m >= y
        OBVIOUS
    <2>1. n - y \in T /\ n - y \in Nat /\ n - m \in Nat /\ y \in Nat /\ m \in Nat
        BY <1>3
    <2>2. ~(n - y < n - m)
        BY <2>1, <1>1, <1>10, <1>7
    <2> QED BY <2>1, <2>2
<1> QED BY <1>6, <1>8 DEF Min, Max

\* What follows from the assumption on the agents.
LEMMA AgentShape ==
    ASSUME agent \in Agents
    PROVE  /\ agent.last \in Nat /\ agent.roster \subseteq Days
           /\ agent.internal \in BOOLEAN
           /\ agent.phones \cup agent.consoles \subseteq Devices
BY DayAssumption DEF Days

\* The record a list shows as running is one of the list, or none.
LEMMA ShownListed ==
    ASSUME NEW rs \in Seq(Rows)
    PROVE  /\ PhoneOpen(rs) \in 0..Len(rs)
           /\ ConsoleOpen(rs) \in 0..Len(rs)
<1>1. Len(rs) \in Nat /\ DOMAIN rs = 1..Len(rs)
    OBVIOUS
<1>2. Running(rs) \cup {0} \in SUBSET (0..Len(rs))
    BY <1>1 DEF Running
<1>3. {i \in Running(rs) : WithinWindow(rs[i])} \cup {0} \in SUBSET (0..Len(rs))
    BY <1>2
<1> QED BY <1>1, <1>2, <1>3, Extremes DEF PhoneOpen, ConsoleOpen

\* The open record of the agent is one of the records, or none.
LEMMA OpenListed ==
    ASSUME rows \in Seq(Rows)
    PROVE  OpenRecord \in 0..Len(rows)
<1> DEFINE open == {i \in DOMAIN rows : StillOpen(i)}
           blank == {i \in open : ~rows[i].in}
<1>1. Len(rows) \in Nat /\ DOMAIN rows = 1..Len(rows)
    OBVIOUS
<1>2. open \cup {0} \in SUBSET (0..Len(rows)) /\ blank \in SUBSET (0..Len(rows))
    BY <1>1
<1>3. open \cup {0} # {}
    OBVIOUS
<1>4. OpenRecord = IF blank # {} THEN Max(blank) ELSE Max(open \cup {0})
    BY DEF OpenRecord
<1> HIDE DEF open, blank
<1> QED BY <1>1, <1>2, <1>3, <1>4, Extremes

\* A screen that handles an answer shows one of the records it read, or none.
LEMMA HandleTyped ==
    ASSUME IInv, NEW d \in Devices, NEW op, NEW code,
           NEW rs \in Seq(Rows), Len(rs) >= Len(rows)
    PROVE  Handle(d, op, code, rs) \in Screens(Len(rs))
<1>1. Len(rs) \in Nat /\ Len(rows) \in Nat /\ agent.last \in Nat
    BY AgentShape DEF IInv, Sound
<1>2. dev[d] \in Screens(Len(rows))
    BY DEF IInv, ScreensTyped
<1>3. dev[d] \in Screens(Len(rs))
    BY <1>1, <1>2 DEF Screens
<1>4. Reload(d, rs) \in Screens(Len(rs))
    BY <1>3, ShownListed DEF Reload, Screens
<1>5. [Reload(d, rs) EXCEPT !.photo = IF op = "in" THEN 0 ELSE @] \in Screens(Len(rs))
    BY <1>1, <1>4 DEF Screens
<1> QED BY <1>3, <1>4, <1>5 DEF Handle, PhoneHandle, ConsoleHandle

\* Closing a record automatically queues it again if nothing is owed for it.
LEMMA AutoClosedSound ==
    ASSUME NEW r \in Rows, Owed(r)
    PROVE  /\ AutoClosed(r) \in Rows /\ Owed(AutoClosed(r))
           /\ AutoClosed(r).day = r.day /\ AutoClosed(r).sched = r.sched
<1>1. Queue(r).due \in Int /\ Queue(r).due >= 1 /\ Queue(r).ver = "PENDING"
    BY DEF Queue, Rows, Owed, Open
<1>2. Queue(r) \in Rows /\ Queue(r).day = r.day /\ Queue(r).sched = r.sched
    <2> DEFINE n == r.due + (IF r.ver \in Open THEN 0 ELSE 1)
    <2>1. n \in Int
        BY DEF Rows
    <2>2. Queue(r) = [r EXCEPT !.ver = "PENDING", !.due = n]
        BY DEF Queue
    <2> HIDE DEF n
    <2> QED BY <2>1, <2>2 DEF Rows
<1> DEFINE c == AutoClosed(r)
<1>3. c \in Rows
    BY <1>2 DEF AutoClosed, Rows
<1>4. c.due = Queue(r).due /\ c.ver = "PENDING" /\ c.day = r.day /\ c.sched = r.sched
    BY <1>1, <1>2 DEF AutoClosed, Rows
<1> QED BY <1>1, <1>3, <1>4 DEF Owed

\* A decision is owed for a record in the queue, and it settles it.
LEMMA DecidedSound ==
    ASSUME NEW r \in Rows, Owed(r), r.ver \in Open, NEW kind \in Kinds
    PROVE  /\ Decided(r, kind) \in Rows /\ Owed(Decided(r, kind))
           /\ Decided(r, kind).day = r.day /\ Decided(r, kind).sched = r.sched
           /\ Decided(r, kind).out = r.out
<1> DEFINE c == Decided(r, kind)
<1>1. r.due \in Int /\ r.due >= 1
    BY DEF Rows, Owed
<1>2. /\ c.due = r.due - 1 /\ c.ver \in {"VERIFIED", "REJECTED"}
      /\ c.day = r.day /\ c.sched = r.sched /\ c.out = r.out
    BY DEF Decided, Rows, Kinds
<1>3. c \in Rows
    <2> DEFINE n == r.due - 1
               v == IF kind = "TIMED" THEN "VERIFIED" ELSE kind
    <2>1. n \in Int /\ v \in {"VERIFIED", "REJECTED"}
        BY <1>1 DEF Kinds
    <2>2. c = [r EXCEPT !.ver = v, !.due = n]
        BY DEF Decided
    <2> HIDE DEF n, v, c
    <2> QED BY <2>1, <2>2 DEF Rows
<1> QED BY <1>1, <1>2, <1>3 DEF Owed, Open

\* A new record owes a decision if it is in the queue.
LEMMA NewRowSound ==
    ASSUME agent \in Agents, NEW day \in Days, NEW sched \in BOOLEAN,
           NEW flag \in BOOLEAN, NEW photo \in 0..agent.last
    PROVE  /\ NewRow(day, sched, flag, photo) \in Rows
           /\ Owed(NewRow(day, sched, flag, photo))
           /\ NewRow(day, sched, flag, photo).day = day
           /\ NewRow(day, sched, flag, photo).sched = sched
BY AgentShape DEF NewRow, Rows, Owed, Open

\* The record of an absence owes one.
LEMMA AbsentRowSound ==
    ASSUME agent \in Agents, NEW day \in Days
    PROVE  /\ AbsentRow(day) \in Rows /\ Owed(AbsentRow(day))
           /\ AbsentRow(day).day = day /\ AbsentRow(day).sched
<1>1. 0 \in 0..agent.last
    BY AgentShape
<1> DEFINE r == NewRow(day, TRUE, FALSE, 0)
           b == [r EXCEPT !.in = FALSE, !.st = "ABSENT"]
<1>2. r \in Rows /\ r.day = day /\ r.sched
    BY <1>1, NewRowSound
<1>3. AbsentRow(day) = [b EXCEPT !.ver = "PENDING", !.due = 1]
    BY DEF AbsentRow
<1> HIDE DEF r
<1>4. b \in Rows /\ b.day = day /\ b.sched
    BY <1>2 DEF Rows
<1> HIDE DEF b
<1>5. \A n \in Int : [b EXCEPT !.ver = "PENDING", !.due = n] \in Rows
    BY <1>4 DEF Rows
<1>6. AbsentRow(day) \in Rows
    <2>1. 1 \in Int
        OBVIOUS
    <2> QED BY <1>3, <1>5, <2>1, Zenon
<1>7. AbsentRow(day).due = 1 /\ AbsentRow(day).day = day /\ AbsentRow(day).sched
    BY <1>3, <1>4 DEF Rows
<1> QED BY <1>6, <1>7 DEF Owed

\* The records stay sound when one is rewritten for the same shift...
LEMMA RowRewritten ==
    ASSUME Sound(rows), NEW i \in 1..Len(rows), NEW r \in Rows, Owed(r),
           r.day = rows[i].day, r.sched = rows[i].sched
    PROVE  /\ Sound([rows EXCEPT ![i] = r])
           /\ Len([rows EXCEPT ![i] = r]) = Len(rows)
<1> DEFINE rs == [rows EXCEPT ![i] = r]
<1>1. /\ rs \in Seq(Rows) /\ Len(rs) = Len(rows)
      /\ \A j \in 1..Len(rows) : rs[j] = IF j = i THEN r ELSE rows[j]
    BY ExceptSeq DEF Sound
<1>2. \A j \in 1..Len(rows) : rs[j].day = rows[j].day /\ rs[j].sched = rows[j].sched
    BY <1>1
<1>3. Settled(rs)
    BY <1>1 DEF Sound, Settled
<1>4. OnePerShift(rs)
    BY <1>1, <1>2 DEF Sound, OnePerShift
<1> QED BY <1>1, <1>3, <1>4 DEF Sound

\* ...and when one is added, for a shift that has none or for no shift.
LEMMA RowAdded ==
    ASSUME Sound(rows), NEW r \in Rows, Owed(r),
           r.sched => ~Taken(r.day)
    PROVE  /\ Sound(Append(rows, r))
           /\ Len(Append(rows, r)) = Len(rows) + 1
           /\ \A i \in 1..Len(rows) : Append(rows, r)[i] = rows[i]
<1> DEFINE rs == Append(rows, r)
<1>1. /\ rs \in Seq(Rows) /\ Len(rs) = Len(rows) + 1 /\ rs[Len(rows) + 1] = r
      /\ \A i \in 1..Len(rows) : rs[i] = rows[i]
    BY AppendProperties DEF Sound
<1>2. Len(rows) \in Nat /\ DOMAIN rows = 1..Len(rows)
    BY DEF Sound
<1>3. \A i \in 1..Len(rs) : i \in 1..Len(rows) \/ i = Len(rows) + 1
    BY <1>1, <1>2
<1>4. Settled(rs)
    BY <1>1, <1>3 DEF Sound, Settled
<1>5. \A i \in 1..Len(rows) : ~(rs[i].sched /\ r.sched /\ rs[i].day = r.day)
    BY <1>1, <1>2 DEF Taken
<1>6. OnePerShift(rs)
    BY <1>1, <1>3, <1>5 DEF Sound, OnePerShift
<1> QED BY <1>1, <1>4, <1>6 DEF Sound

\* With more records, what was a record still is one.
LEMMA Grown ==
    ASSUME NEW m \in Nat, NEW n \in Nat, m =< n
    PROVE  /\ Screens(m) \subseteq Screens(n)
           /\ Requests(m) \subseteq Requests(n)
           /\ Queues(m) \subseteq Queues(n)
<1>1. 0..m \subseteq 0..n /\ 1..m \subseteq 1..n
    OBVIOUS
<1> QED BY <1>1 DEF Screens, Requests, Queues

-----------------------------------------------------------------------------
(* What a step has to show.                                                *)

\* What no step needs to show anew of the variables it leaves alone.
LEMMA Kept ==
    ASSUME IInv, UNCHANGED <<now, agent>>, Len(rows') \in Nat, Len(rows) =< Len(rows')
    PROVE  /\ dev \in [Devices -> Screens(Len(rows'))]
           /\ req \in [Devices -> Requests(Len(rows'))]
           /\ desk \in [Leaders -> Queues(Len(rows'))]
           /\ UNCHANGED req => RequestsMeant'
           /\ UNCHANGED <<desk, sweep>> => WorkLeft'
<1>1. Len(rows) \in Nat
    BY DEF IInv, Sound
<1>2. /\ Screens(Len(rows)) \subseteq Screens(Len(rows'))
      /\ Requests(Len(rows)) \subseteq Requests(Len(rows'))
      /\ Queues(Len(rows)) \subseteq Queues(Len(rows'))
    BY <1>1, Grown
<1>3. /\ dev \in [Devices -> Screens(Len(rows))]
      /\ req \in [Devices -> Requests(Len(rows))]
      /\ desk \in [Leaders -> Queues(Len(rows))]
    BY DEF IInv, ScreensTyped
<1>4. UNCHANGED req => RequestsMeant'
    BY DEF IInv, RequestsMeant, Today, Days
<1>5. 1..Len(rows) \subseteq 1..Len(rows')
    BY <1>1
<1>6. UNCHANGED <<desk, sweep>> => WorkLeft'
    BY <1>5 DEF IInv, WorkLeft
<1> QED BY <1>2, <1>3, <1>4, <1>6

\* A step at one moment keeps the invariant if it keeps each of its parts.
LEMMA Step ==
    ASSUME IInv, UNCHANGED <<now, agent>>, Sound(rows'), RequestsMeant', WorkLeft',
           dev' \in [Devices -> Screens(Len(rows'))],
           req' \in [Devices -> Requests(Len(rows'))],
           desk' \in [Leaders -> Queues(Len(rows'))]
    PROVE  IInv'
<1>1. Sound(rows)'
    BY DEF Sound, Settled, OnePerShift, Rows, Days
<1>2. ScreensTyped'
    BY DEF ScreensTyped, Screens, Requests, Queues
<1>3. now' \in 1..Horizon' /\ agent' \in Agents
    BY DEF IInv, Horizon
<1> QED BY <1>1, <1>2, <1>3 DEF IInv

\* A step that leaves the records alone.
LEMMA SameRows ==
    ASSUME IInv, UNCHANGED <<now, agent, rows>>, RequestsMeant', WorkLeft',
           dev' \in [Devices -> Screens(Len(rows))],
           req' \in [Devices -> Requests(Len(rows))],
           desk' \in [Leaders -> Queues(Len(rows))]
    PROVE  IInv'
BY Step DEF IInv

\* A step of the agent or of the server for one of the agent's screens.
LEMMA AgentStep ==
    ASSUME IInv, UNCHANGED <<now, agent, desk, sweep>>, Sound(rows'),
           Len(rows) =< Len(rows'), NEW d \in Devices,
           \/ UNCHANGED dev
           \/ \E s \in Screens(Len(rows')) : dev' = [dev EXCEPT ![d] = s],
           \/ UNCHANGED req
           \/ \E q \in Requests(Len(rows')) :
                /\ req' = [req EXCEPT ![d] = q]
                /\ q.op = "in" => Today \in Days
                /\ q.op = "out" => q.id # 0
    PROVE  IInv'
<1>1. Len(rows') \in Nat
    BY DEF Sound
<1>2. /\ dev \in [Devices -> Screens(Len(rows'))]
      /\ req \in [Devices -> Requests(Len(rows'))]
      /\ desk \in [Leaders -> Queues(Len(rows'))]
      /\ UNCHANGED req => RequestsMeant' /\ WorkLeft'
    BY <1>1, Kept
<1>3. dev' \in [Devices -> Screens(Len(rows'))]
    BY <1>2
<1>4. req' \in [Devices -> Requests(Len(rows'))]
    BY <1>2
<1>5. RequestsMeant'
    <2>1. CASE UNCHANGED req
        BY <2>1, <1>2
    <2>2. ASSUME NEW q \in Requests(Len(rows')), req' = [req EXCEPT ![d] = q],
                 q.op = "in" => Today \in Days, q.op = "out" => q.id # 0
          PROVE  RequestsMeant'
        BY <2>2, <1>2 DEF IInv, RequestsMeant, Today, Days
    <2> QED BY <2>1, <2>2
<1>6. WorkLeft'
    BY <1>1, Kept
<1> QED BY <1>2, <1>3, <1>4, <1>5, <1>6, Step

-----------------------------------------------------------------------------
(* The agent's screens.                                                    *)

\* An answer that is delivered leaves the screen with a record it read, or none.
LEMMA AnswerTyped ==
    ASSUME IInv, NEW d \in Devices, NEW op, NEW code, NEW rs \in Seq(Rows),
           Len(rs) >= Len(rows), Answer(d, op, code, rs)
    PROVE  \/ UNCHANGED dev
           \/ \E s \in Screens(Len(rs)) : dev' = [dev EXCEPT ![d] = s]
BY HandleTyped DEF Answer, Show

\* The list is read again, when a screen asks for it and when an activity was refused.
LEMMA ReloadKeeps ==
    ASSUME IInv, NEW d \in Devices, Refetch(d) \/ ActivityRefused(d)
    PROVE  IInv'
<1>1. rows \in Seq(Rows) /\ Len(rows) \in Nat
    BY DEF IInv, Sound
<1>2. Reload(d, rows) \in Screens(Len(rows))
    BY <1>1, ShownListed DEF IInv, ScreensTyped, Screens, Reload
<1>3. /\ UNCHANGED <<now, agent, rows, req, desk, sweep>>
      /\ dev' = [dev EXCEPT ![d] = Reload(d, rows)]
    BY DEF Refetch, ActivityRefused, Show
<1>4. Sound(rows') /\ Len(rows) =< Len(rows')
    BY <1>1, <1>3 DEF IInv
<1> QED BY <1>2, <1>3, <1>4, AgentStep

\* A picture is of the day it is taken on.
LEMMA TakePhotoKeeps ==
    ASSUME IInv, NEW d \in Devices, TakePhoto(d)
    PROVE  IInv'
<1>1. rows \in Seq(Rows) /\ Len(rows) \in Nat
    BY DEF IInv, Sound
<1>2. Today \in 0..agent.last
    BY DEF TakePhoto, Room, Days
<1>3. /\ UNCHANGED <<now, agent, rows, req, desk, sweep>>
      /\ dev' = [dev EXCEPT ![d] = [dev[d] EXCEPT !.photo = Today]]
    BY DEF TakePhoto, Show
<1>4. [dev[d] EXCEPT !.photo = Today] \in Screens(Len(rows))
    BY <1>2 DEF IInv, ScreensTyped, Screens
<1>5. Sound(rows') /\ Len(rows) =< Len(rows')
    BY <1>1, <1>3 DEF IInv
<1> QED BY <1>3, <1>4, <1>5, AgentStep

\* A clock-in that passed its reads is about today.
LEMMA BeginClockInKeeps ==
    ASSUME IInv, NEW d \in Devices, NEW outside \in BOOLEAN, BeginClockIn(d, outside)
    PROVE  IInv'
<1>1. rows \in Seq(Rows) /\ Len(rows) \in Nat /\ OpenRecord \in 0..Len(rows)
    BY OpenListed DEF IInv, Sound
<1>2. Today \in Days /\ Today \in 0..agent.last /\ agent.last \in Nat
    BY AgentShape DEF BeginClockIn, Room, Days, IInv
<1>3. UNCHANGED <<now, agent, rows, desk, sweep>>
    BY DEF BeginClockIn
<1>4. Sound(rows') /\ Len(rows) =< Len(rows')
    BY <1>1, <1>3 DEF IInv
<1>5. Photo(d) \in 0..agent.last
    BY <1>2 DEF Photo, IInv, ScreensTyped, Screens
<1>6. Holding(d) \in Screens(Len(rows))
    BY <1>5 DEF Holding, IInv, ScreensTyped, Screens
<1>7. CASE Show(d, Holding(d)) /\ UNCHANGED req
    BY <1>3, <1>4, <1>6, <1>7, AgentStep DEF Show
<1>8. ASSUME NEW s0 \in {Holding(d), Reload(d, rows)}, Show(d, [s0 EXCEPT !.photo = Photo(d)]),
             UNCHANGED req
      PROVE  IInv'
    <2> DEFINE s == [s0 EXCEPT !.photo = Photo(d)]
    <2>1. Reload(d, rows) \in Screens(Len(rows))
        BY <1>1, ShownListed DEF IInv, ScreensTyped, Screens, Reload, Sound
    <2>2. s \in Screens(Len(rows))
        BY <1>5, <1>6, <1>8, <2>1 DEF Screens
    <2>3. dev' = [dev EXCEPT ![d] = s]
        BY <1>8 DEF Show
    <2> HIDE DEF s
    <2> QED BY <1>3, <1>4, <1>8, <2>2, <2>3, AgentStep
<1>9. ASSUME req' = [req EXCEPT ![d] = [Idle EXCEPT !.op = "in", !.id = OpenRecord,
                                          !.flagged = outside, !.photo = Photo(d)]],
             Show(d, Holding(d))
      PROVE  IInv'
    <2> DEFINE q == [Idle EXCEPT !.op = "in", !.id = OpenRecord, !.flagged = outside,
                                 !.photo = Photo(d)]
    <2>1. req' = [req EXCEPT ![d] = q] /\ dev' = [dev EXCEPT ![d] = Holding(d)]
        BY <1>9 DEF Show
    <2>2. q \in Requests(Len(rows)) /\ q.op = "in"
        BY <1>1, <1>5 DEF Requests, Idle, Verifications
    <2> HIDE DEF q
    <2>3. q.op # "out"
        BY <2>2
    <2> QED BY <1>2, <1>3, <1>4, <1>6, <2>1, <2>2, <2>3, AgentStep
<1> QED BY <1>7, <1>8, <1>9 DEF BeginClockIn

\* A clock-out that passed its reads is about a record.
LEMMA ClockOutKeeps ==
    ASSUME IInv, NEW d \in Devices, ClockOut(d)
    PROVE  IInv'
<1>1. rows \in Seq(Rows) /\ Len(rows) \in Nat /\ OpenRecord \in 0..Len(rows)
    BY OpenListed DEF IInv, Sound
<1>2. UNCHANGED <<now, agent, rows, desk, sweep>>
    BY DEF ClockOut
<1>3. Sound(rows') /\ Len(rows) =< Len(rows')
    BY <1>1, <1>2 DEF IInv
<1>4. \A code : Answer(d, "out", code, rows) /\ UNCHANGED req => IInv'
    BY <1>1, <1>2, <1>3, AnswerTyped, AgentStep
<1>5. ASSUME OpenRecord # 0, NEW flag \in {rows[OpenRecord].flagged, TRUE}, UNCHANGED dev,
             req' = [req EXCEPT ![d] = [Idle EXCEPT !.op = "out", !.id = OpenRecord,
                                          !.ver = rows[OpenRecord].ver, !.flagged = flag]]
      PROVE  IInv'
    <2> DEFINE q == [Idle EXCEPT !.op = "out", !.id = OpenRecord,
                                 !.ver = rows[OpenRecord].ver, !.flagged = flag]
    <2>1. rows[OpenRecord] \in Rows
        BY <1>1, <1>5
    <2>2. rows[OpenRecord].ver \in Verifications /\ flag \in BOOLEAN
        BY <2>1 DEF Rows, Verifications
    <2>3. 0 \in 0..agent.last
        BY AgentShape DEF IInv
    <2>4. q \in Requests(Len(rows)) /\ q.op = "out" /\ q.id # 0
        BY <1>1, <1>5, <2>2, <2>3 DEF Requests, Idle
    <2>5. req' = [req EXCEPT ![d] = q]
        BY <1>5
    <2> HIDE DEF q
    <2>6. q.op # "in"
        BY <2>4
    <2> QED BY <1>2, <1>3, <1>5, <2>4, <2>5, <2>6, AgentStep
<1> QED BY <1>4, <1>5 DEF ClockOut

\* Counting an activity leaves the record's shift and its verification alone.
LEMMA SetActivitiesKeeps ==
    ASSUME IInv, NEW d \in Devices, NEW k \in {0, 1}, SetActivities(d, k)
    PROVE  IInv'
<1> DEFINE i == dev[d].open
           r == [rows[i] EXCEPT !.acts = k]
<1>1. /\ UNCHANGED <<now, agent, dev, req, desk, sweep>>
      /\ rows' = [rows EXCEPT ![i] = r] /\ i # 0
    BY DEF SetActivities
<1>2. i \in 1..Len(rows) /\ rows \in Seq(Rows)
    BY <1>1 DEF IInv, Sound, ScreensTyped, Screens
<1>3. rows[i] \in Rows /\ Owed(rows[i])
    BY <1>2 DEF IInv, Sound, Settled
<1> HIDE DEF i
<1>4. r \in Rows /\ Owed(r) /\ r.day = rows[i].day /\ r.sched = rows[i].sched
    BY <1>3 DEF Rows, Owed
<1> HIDE DEF r
<1>5. Sound(rows') /\ Len(rows') = Len(rows) /\ Len(rows) \in Nat
    <2>1. Sound(rows) /\ Len(rows) \in Nat
        BY <1>2 DEF IInv
    <2> QED BY <1>1, <1>2, <1>4, <2>1, RowRewritten
<1> QED BY <1>1, <1>5, AgentStep

-----------------------------------------------------------------------------
(* The server's steps.                                                     *)

\* A record that is closed automatically, if it is still open.
LEMMA CloseSound ==
    ASSUME Sound(rows), NEW i \in 1..Len(rows),
           rows' = IF StillOpen(i) THEN [rows EXCEPT ![i] = AutoClosed(@)] ELSE rows
    PROVE  Sound(rows') /\ Len(rows') = Len(rows)
<1>1. rows[i] \in Rows /\ Owed(rows[i])
    BY DEF Sound, Settled
<1>2. /\ AutoClosed(rows[i]) \in Rows /\ Owed(AutoClosed(rows[i]))
      /\ AutoClosed(rows[i]).day = rows[i].day /\ AutoClosed(rows[i]).sched = rows[i].sched
    BY <1>1, AutoClosedSound
<1>3. CASE StillOpen(i)
    <2> DEFINE r == AutoClosed(rows[i])
    <2>1. rows' = [rows EXCEPT ![i] = r]
        BY <1>3
    <2>2. r \in Rows /\ Owed(r) /\ r.day = rows[i].day /\ r.sched = rows[i].sched
        BY <1>2
    <2> HIDE DEF r
    <2>3. Sound([rows EXCEPT ![i] = r]) /\ Len([rows EXCEPT ![i] = r]) = Len(rows)
        BY <2>2, RowRewritten
    <2> QED BY <2>1, <2>3
<1> QED BY <1>3

\* The stale record is closed before the clock-in goes on.
LEMMA CloseStaleKeeps ==
    ASSUME IInv, NEW d \in Devices, CloseStale(d)
    PROVE  IInv'
<1> DEFINE i == req[d].id
           q == [req[d] EXCEPT !.id = 0]
<1>1. /\ UNCHANGED <<now, agent, dev, desk, sweep>> /\ req' = [req EXCEPT ![d] = q]
      /\ rows' = IF StillOpen(i) THEN [rows EXCEPT ![i] = AutoClosed(@)] ELSE rows
      /\ req[d].op = "in" /\ i # 0
    BY DEF CloseStale
<1>2. req[d] \in Requests(Len(rows)) /\ Sound(rows) /\ Len(rows) \in Nat
    BY DEF IInv, ScreensTyped, Sound
<1>3. i \in 1..Len(rows) /\ Today \in Days
    BY <1>1, <1>2 DEF Requests, IInv, RequestsMeant
<1>4. q \in Requests(Len(rows)) /\ q.op = "in"
    BY <1>1, <1>2 DEF Requests
<1> HIDE DEF i, q
<1>5. Sound(rows') /\ Len(rows') = Len(rows)
    BY <1>1, <1>2, <1>3, CloseSound
<1>6. q \in Requests(Len(rows')) /\ q.op # "out"
    BY <1>4, <1>5
<1>7. Len(rows) =< Len(rows')
    BY <1>2, <1>5
<1> QED BY <1>1, <1>3, <1>5, <1>6, <1>7, AgentStep

\* A request that has been executed is answered, and its screen is idle again.
LEMMA FinishKeeps ==
    ASSUME IInv, NEW d \in Devices, NEW code, Finish(d, code), Sound(rows'),
           Len(rows) =< Len(rows')
    PROVE  IInv'
<1>1. /\ UNCHANGED <<now, agent, desk, sweep>> /\ req' = [req EXCEPT ![d] = Idle]
      /\ Answer(d, req[d].op, code, rows')
    BY DEF Finish
<1>2. rows' \in Seq(Rows) /\ Len(rows') \in Nat /\ Len(rows) \in Nat
    BY DEF Sound, IInv
<1>3. \/ UNCHANGED dev
      \/ \E s \in Screens(Len(rows')) : dev' = [dev EXCEPT ![d] = s]
    BY <1>1, <1>2, AnswerTyped
<1>4. 0 \in 0..agent.last
    BY AgentShape DEF IInv
<1>5. Idle \in Requests(Len(rows')) /\ Idle.op # "in" /\ Idle.op # "out"
    BY <1>2, <1>4 DEF Idle, Requests, Verifications
<1> QED BY <1>1, <1>3, <1>5, AgentStep

\* A clock-in is filed on a day whose shift has no record, or on a day without a shift.
LEMMA InsertClockInKeeps ==
    ASSUME IInv, NEW d \in Devices, InsertClockIn(d)
    PROVE  IInv'
<1>1. Today \in Days /\ req[d].flagged \in BOOLEAN /\ req[d].photo \in 0..agent.last
    BY DEF InsertClockIn, IInv, RequestsMeant, ScreensTyped, Requests
<1>2. Sound(rows) /\ Len(rows) \in Nat /\ agent \in Agents
    BY DEF IInv, Sound
<1>3. ASSUME NEW late \in BOOLEAN, ~Taken(Today),
             rows' = Append(rows, NewRow(Today, TRUE, late \/ req[d].flagged, req[d].photo))
      PROVE  Sound(rows') /\ Len(rows) =< Len(rows')
    <2> DEFINE r == NewRow(Today, TRUE, late \/ req[d].flagged, req[d].photo)
    <2>1. (late \/ req[d].flagged) \in BOOLEAN
        BY <1>1
    <2>2. r \in Rows /\ Owed(r) /\ r.day = Today
        BY <1>1, <1>2, <2>1, NewRowSound
    <2>3. rows' = Append(rows, r)
        BY <1>3
    <2> HIDE DEF r
    <2>4. r.sched => ~Taken(r.day)
        BY <1>3, <2>2
    <2>5. Sound(Append(rows, r)) /\ Len(Append(rows, r)) = Len(rows) + 1
        BY <1>2, <2>2, <2>4, RowAdded
    <2> QED BY <1>2, <2>3, <2>5
<1>4. ASSUME rows' = Append(rows, NewRow(Today, FALSE, TRUE, req[d].photo))
      PROVE  Sound(rows') /\ Len(rows) =< Len(rows')
    <2> DEFINE r == NewRow(Today, FALSE, TRUE, req[d].photo)
    <2>1. r \in Rows /\ Owed(r) /\ ~r.sched
        BY <1>1, <1>2, NewRowSound
    <2>2. rows' = Append(rows, r)
        BY <1>4
    <2> HIDE DEF r
    <2> QED BY <1>2, <2>1, <2>2, RowAdded
<1>5. UNCHANGED rows => Sound(rows') /\ Len(rows) =< Len(rows')
    BY <1>2
<1>6. Sound(rows') /\ Len(rows) =< Len(rows') /\ \E code : Finish(d, code)
    BY <1>3, <1>4, <1>5 DEF InsertClockIn
<1> QED BY <1>6, FinishKeeps

\* A clock-out written from an older copy leaves a record that owes what it should.
LEMMA ClockedOutSound ==
    ASSUME NEW r \in Rows, Owed(r), NEW q, q.ver \in Verifications, q.flagged \in BOOLEAN
    PROVE  /\ ClockedOut(r, q) \in Rows /\ Owed(ClockedOut(r, q))
           /\ ClockedOut(r, q).day = r.day /\ ClockedOut(r, q).sched = r.sched
<1> DEFINE ver == IF ~q.flagged THEN "VERIFIED"
                  ELSE IF q.ver \in Open THEN q.ver ELSE "PENDING"
           due == r.due + (IF ver \in Open /\ r.ver \notin Open THEN 1 ELSE 0)
           b == [r EXCEPT !.out = "agent", !.st = "PRESENT", !.ver = ver, !.flagged = q.flagged]
           w == [b EXCEPT !.due = due]
<1>1. ver \in Verifications
    BY DEF Verifications
<1>2. due \in Int /\ due >= 0 /\ (ver \in Open => due >= 1)
    <2> HIDE DEF ver
    <2> QED BY DEF Rows, Owed
<1>3. ClockedOut(r, q) = w
    BY DEF ClockedOut
<1> HIDE DEF due, ver
<1>4. b \in Rows /\ b.ver = ver /\ b.day = r.day /\ b.sched = r.sched
    BY <1>1 DEF Rows, Verifications
<1> HIDE DEF b
<1>5. w \in Rows /\ w.due = due /\ w.ver = ver /\ w.day = r.day /\ w.sched = r.sched
    BY <1>2, <1>4 DEF Rows
<1> HIDE DEF w
<1>6. Owed(w)
    BY <1>2, <1>5 DEF Owed
<1> QED BY <1>3, <1>5, <1>6

\* A clock-out is written over the record it was worked out from.
LEMMA WriteClockOutKeeps ==
    ASSUME IInv, NEW d \in Devices, WriteClockOut(d)
    PROVE  IInv'
<1> DEFINE i == req[d].id
           w == ClockedOut(rows[i], req[d])
<1>1. req[d].op = "out" /\ rows' = [rows EXCEPT ![i] = w] /\ Finish(d, "ok")
    BY DEF WriteClockOut
<1>2. req[d] \in Requests(Len(rows)) /\ Sound(rows) /\ Len(rows) \in Nat
    BY DEF IInv, ScreensTyped, Sound
<1>3. i \in 1..Len(rows)
    BY <1>1, <1>2 DEF Requests, IInv, RequestsMeant
<1>4. req[d].ver \in Verifications /\ req[d].flagged \in BOOLEAN
    BY <1>2 DEF Requests
<1>5. rows[i] \in Rows /\ Owed(rows[i])
    BY <1>2, <1>3 DEF Sound, Settled
<1>6. w \in Rows /\ Owed(w) /\ w.day = rows[i].day /\ w.sched = rows[i].sched
    BY <1>4, <1>5, ClockedOutSound
<1> HIDE DEF i, w
<1>7. Sound([rows EXCEPT ![i] = w]) /\ Len([rows EXCEPT ![i] = w]) = Len(rows)
    BY <1>2, <1>3, <1>6, RowRewritten
<1>8. Sound(rows') /\ Len(rows) =< Len(rows')
    BY <1>1, <1>2, <1>7
<1> QED BY <1>1, <1>8, FinishKeeps

-----------------------------------------------------------------------------
(* The leaders, HR and the sweeps.                                         *)

\* A step of a leader that leaves a queue with a decision to make, or none.
LEMMA DeskStep ==
    ASSUME IInv, UNCHANGED <<now, agent, dev, req, sweep>>, Sound(rows'),
           Len(rows) =< Len(rows'), NEW l \in Leaders, NEW s \in Queues(Len(rows)),
           s.todo # {} => s.kind \in Kinds, desk' = [desk EXCEPT ![l] = s]
    PROVE  IInv'
<1>1. Len(rows) \in Nat /\ Len(rows') \in Nat /\ s \in Queues(Len(rows'))
    BY DEF Sound, Queues, IInv
<1>2. /\ dev \in [Devices -> Screens(Len(rows'))]
      /\ req \in [Devices -> Requests(Len(rows'))]
      /\ desk \in [Leaders -> Queues(Len(rows'))]
      /\ RequestsMeant'
    BY <1>1, Kept
<1>3. desk' \in [Leaders -> Queues(Len(rows'))]
    BY <1>1, <1>2
<1>4. WorkLeft'
    <2>1. \A m \in Leaders : desk'[m].todo # {} => desk'[m].kind \in Kinds
        BY <1>2 DEF IInv, WorkLeft, ScreensTyped
    <2>2. SUBSET (1..Len(rows)) \subseteq SUBSET (1..Len(rows'))
        BY <1>1
    <2> QED BY <2>1, <2>2 DEF IInv, WorkLeft
<1> QED BY <1>2, <1>3, <1>4, Step

\* An empty screen and a form.
LEMMA EmptyTyped ==
    ASSUME IInv, NEW day \in 0..agent.last
    PROVE  Empty \in Queues(Len(rows)) /\ [Empty EXCEPT !.day = day] \in Queues(Len(rows))
BY AgentShape DEF IInv, Empty, Queues

\* A confirmed dialog lists records, at least one, and carries a decision.
LEMMA ConfirmKeeps ==
    ASSUME IInv, NEW l \in Leaders, NEW sel \in SUBSET (DOMAIN rows), sel # {},
           NEW kind \in Kinds, Confirm(l, sel, kind)
    PROVE  IInv'
<1> DEFINE s == [todo |-> sel, kind |-> kind, day |-> 0]
<1>1. /\ UNCHANGED <<now, agent, dev, req, sweep, rows>> /\ desk' = [desk EXCEPT ![l] = s]
    BY DEF Confirm, Desk
<1>2. Sound(rows) /\ DOMAIN rows = 1..Len(rows)
    BY DEF IInv, Sound
<1>3. s \in Queues(Len(rows)) /\ s.kind \in Kinds
    <2>1. 0 \in 0..agent.last /\ sel \in SUBSET (1..Len(rows))
        BY <1>2, AgentShape DEF IInv
    <2> QED BY <2>1 DEF Queues
<1>4. Len(rows) \in Nat /\ Sound(rows') /\ Len(rows) =< Len(rows')
    BY <1>1, <1>2 DEF Sound
<1> HIDE DEF s
<1> QED BY <1>1, <1>3, <1>4, DeskStep

\* A record is decided once, while it is in the queue.
LEMMA DecideOneKeeps ==
    ASSUME IInv, NEW l \in Leaders, DecideOne(l)
    PROVE  IInv'
<1> DEFINE i == Min(desk[l].todo)
           rest == desk[l].todo \ {i}
           kind == desk[l].kind
           s == IF rest = {} THEN Empty ELSE [desk[l] EXCEPT !.todo = rest]
<1>1. /\ desk[l].todo # {} /\ UNCHANGED <<now, agent, dev, req, sweep>>
      /\ desk' = [desk EXCEPT ![l] = s]
    BY DEF DecideOne, Desk
<1>2. Sound(rows) /\ Len(rows) \in Nat /\ desk[l] \in Queues(Len(rows))
    BY DEF IInv, Sound, ScreensTyped
<1>3. desk[l].todo \in SUBSET (1..Len(rows)) /\ desk[l].todo # {} /\ kind \in Kinds
    BY <1>1, <1>2 DEF Queues, IInv, WorkLeft
<1>4. desk[l].todo \in SUBSET (0..Len(rows))
    BY <1>2, <1>3
<1>5. i \in 1..Len(rows)
    BY <1>2, <1>3, <1>4, Extremes
<1>6. s \in Queues(Len(rows)) /\ (s.todo # {} => s.kind \in Kinds) /\ Len(rows) =< Len(rows)
    BY <1>2, <1>3, AgentShape DEF Queues, Empty, IInv
<1>7. rows[i] \in Rows /\ Owed(rows[i])
    BY <1>2, <1>5 DEF Sound, Settled
<1> HIDE DEF s
<1>8. CASE rows[i].ver \in Open /\ rows' = [rows EXCEPT ![i] = Decided(@, kind)]
    <2> DEFINE r == Decided(rows[i], kind)
    <2>1. r \in Rows /\ Owed(r) /\ r.day = rows[i].day /\ r.sched = rows[i].sched
        BY <1>3, <1>7, <1>8, DecidedSound
    <2>2. rows' = [rows EXCEPT ![i] = r]
        BY <1>8
    <2> HIDE DEF r, i
    <2>3. Sound([rows EXCEPT ![i] = r]) /\ Len([rows EXCEPT ![i] = r]) = Len(rows)
        BY <1>2, <1>5, <2>1, RowRewritten
    <2> QED BY <1>1, <1>6, <2>2, <2>3, DeskStep
<1>9. ASSUME rows[i].ver \in Open, NEW out \in {rows[i].out, "manual"},
             rows' = [rows EXCEPT ![i] = [Decided(@, "TIMED") EXCEPT
                                            !.in = TRUE, !.st = "PRESENT", !.out = out]]
      PROVE  IInv'
    <2> DEFINE b == Decided(rows[i], "TIMED")
               r == [b EXCEPT !.in = TRUE, !.st = "PRESENT", !.out = out]
    <2>1. b \in Rows /\ Owed(b) /\ b.day = rows[i].day /\ b.sched = rows[i].sched
        BY <1>7, <1>9, DecidedSound DEF Kinds
    <2>2. rows' = [rows EXCEPT ![i] = r] /\ out \in {"none", "agent", "auto", "manual"}
        BY <1>7, <1>9 DEF Rows
    <2> HIDE DEF b, i
    <2>3. r \in Rows /\ r.day = rows[i].day /\ r.sched = rows[i].sched
        BY <2>1, <2>2 DEF Rows
    <2>4. Owed(r)
        BY <2>1 DEF Owed, Rows
    <2> HIDE DEF r
    <2>5. Sound([rows EXCEPT ![i] = r]) /\ Len([rows EXCEPT ![i] = r]) = Len(rows)
        BY <1>2, <1>5, <2>3, <2>4, RowRewritten
    <2> QED BY <1>1, <1>6, <2>2, <2>5, DeskStep
<1>10. CASE UNCHANGED rows
    BY <1>1, <1>2, <1>6, <1>10, DeskStep
<1> HIDE DEF i, kind
<1>11. \/ rows[i].ver \in Open /\ rows' = [rows EXCEPT ![i] = Decided(@, kind)]
       \/ /\ rows[i].ver \in Open
          /\ \E out \in {rows[i].out, "manual"} :
               rows' = [rows EXCEPT ![i] = [Decided(@, "TIMED") EXCEPT
                                              !.in = TRUE, !.st = "PRESENT", !.out = out]]
       \/ UNCHANGED rows
    BY DEF DecideOne, i, kind
<1> QED BY <1>8, <1>9, <1>10, <1>11

\* HR opens the form and leaves it.
LEMMA FormKeeps ==
    ASSUME IInv, NEW l \in Leaders, OpenForm(l) \/ LeaveForm(l)
    PROVE  IInv'
<1>1. Sound(rows) /\ Len(rows) \in Nat /\ agent.last \in Nat
    BY AgentShape DEF IInv, Sound
<1>2. UNCHANGED <<now, agent, dev, req, sweep, rows>>
    BY DEF OpenForm, LeaveForm, Desk
<1>3. ASSUME NEW day \in 0..agent.last, desk' = [desk EXCEPT ![l] = [Empty EXCEPT !.day = day]]
      PROVE  IInv'
    <2> DEFINE s == [Empty EXCEPT !.day = day]
    <2>1. s \in Queues(Len(rows)) /\ s.todo = {} /\ desk' = [desk EXCEPT ![l] = s]
        BY <1>3, EmptyTyped DEF Empty
    <2>2. Sound(rows') /\ Len(rows) =< Len(rows')
        BY <1>1, <1>2
    <2> HIDE DEF s
    <2> QED BY <1>2, <2>1, <2>2, DeskStep
<1>4. [Empty EXCEPT !.day = 0] = Empty
    BY DEF Empty
<1> QED BY <1>1, <1>3, <1>4 DEF OpenForm, LeaveForm, Desk, Days

\* HR files a record of a shift that has none, or of no shift.
LEMMA ManualCreateKeeps ==
    ASSUME IInv, NEW l \in Leaders, ManualCreate(l)
    PROVE  IInv'
<1> DEFINE sched == Today \in agent.roster
           day == IF sched THEN Today ELSE desk[l].day
           b == NewRow(day, sched, TRUE, 0)
<1>1. /\ desk[l].day # 0 /\ Today \in Days /\ (sched => ~Taken(Today))
      /\ UNCHANGED <<now, agent, dev, req, sweep>> /\ desk' = [desk EXCEPT ![l] = Empty]
    BY DEF ManualCreate, Desk
<1>2. PICK out \in {"none", "manual"} :
          rows' = Append(rows, [b EXCEPT !.date = desk[l].day, !.out = out])
    BY DEF ManualCreate, Filed
<1>3. Sound(rows) /\ Len(rows) \in Nat /\ agent \in Agents /\ agent.last \in Nat
    BY AgentShape DEF IInv, Sound
<1>4. desk[l].day \in Days /\ day \in Days /\ sched \in BOOLEAN /\ 0 \in 0..agent.last
    BY <1>1, <1>3 DEF IInv, ScreensTyped, Queues, Days
<1> DEFINE r == [b EXCEPT !.date = desk[l].day, !.out = out]
<1>5. b \in Rows /\ Owed(b) /\ b.day = day /\ b.sched = sched
    <2>1. agent \in Agents /\ 0 \in 0..agent.last
        BY <1>3
    <2>2. \A x \in Days, y, f \in BOOLEAN :
             /\ NewRow(x, y, f, 0) \in Rows /\ Owed(NewRow(x, y, f, 0))
             /\ NewRow(x, y, f, 0).day = x /\ NewRow(x, y, f, 0).sched = y
        BY <2>1, NewRowSound
    <2>3. day \in Days /\ sched \in BOOLEAN /\ b = NewRow(day, sched, TRUE, 0)
        BY <1>4
    <2> HIDE DEF day, sched, b
    <2> QED BY <2>2, <2>3
<1>6. rows' = Append(rows, r) /\ (sched => day = Today)
    BY <1>2
<1> HIDE DEF b, day
<1>7. r \in Rows /\ Owed(r) /\ r.day = day /\ r.sched = sched
    BY <1>4, <1>5 DEF Rows, Owed
<1> HIDE DEF r
<1>8. r.sched => ~Taken(r.day)
    BY <1>1, <1>6, <1>7
<1>9. Sound(Append(rows, r)) /\ Len(Append(rows, r)) = Len(rows) + 1
    BY <1>3, <1>7, <1>8, RowAdded
<1>10. Sound(rows') /\ Len(rows) =< Len(rows')
    BY <1>3, <1>6, <1>9
<1>11. Empty \in Queues(Len(rows)) /\ Empty.todo = {}
    BY <1>4, EmptyTyped DEF Empty
<1> QED BY <1>1, <1>10, <1>11, DeskStep

\* Every step of a leader.
LEMMA LeaderKeeps ==
    ASSUME IInv, NEW l \in Leaders, Leader(l)
    PROVE  IInv'
<1>1. \A sel \in (SUBSET Tickable) \ {{}} : sel \in SUBSET (DOMAIN rows) /\ sel # {}
    <2> TAKE sel \in (SUBSET Tickable) \ {{}}
    <2>1. sel \subseteq Tickable /\ sel # {}
        BY Zenon
    <2>2. Tickable \subseteq DOMAIN rows
        BY DEF Tickable
    <2> QED BY <2>1, <2>2
<1>2. \A i \in Tickable : {i} \in SUBSET (DOMAIN rows) /\ {i} # {}
    BY DEF Tickable
<1>3. ConfirmBulk(l) => IInv'
    BY <1>1, ConfirmKeeps DEF ConfirmBulk, Kinds
<1>4. ConfirmRow(l) => IInv'
    BY <1>2, ConfirmKeeps DEF ConfirmRow, Kinds
<1>5. PhoneConfirm(l) => IInv'
    BY <1>1, <1>4, ConfirmKeeps DEF PhoneConfirm, Kinds
<1>6. ConfirmVerify(l) => IInv'
    BY ConfirmKeeps DEF ConfirmVerify, Kinds
<1>7. ConfirmReject(l) => IInv'
    BY ConfirmKeeps DEF ConfirmReject, Kinds
<1> QED BY <1>3, <1>4, <1>5, <1>6, <1>7, DecideOneKeeps, FormKeeps, ManualCreateKeeps DEF Leader

\* A step of a sweep that leaves candidates, or no job.
LEMMA SweepStep ==
    ASSUME IInv, UNCHANGED <<now, agent, dev, req, desk>>, Sound(rows'),
           Len(rows) =< Len(rows'),
           \/ sweep' = NoJob
           \/ /\ sweep'.todo # {}
              /\ \/ sweep' \in [job : {"absence"}, todo : SUBSET agent.roster]
                 \/ sweep' \in [job : {"close"}, todo : SUBSET (1..Len(rows'))]
    PROVE  IInv'
<1>1. Len(rows') \in Nat
    BY DEF Sound
<1>2. /\ dev' \in [Devices -> Screens(Len(rows'))]
      /\ req' \in [Devices -> Requests(Len(rows'))]
      /\ desk' \in [Leaders -> Queues(Len(rows'))]
      /\ RequestsMeant'
    BY <1>1, Kept
<1>3. WorkLeft'
    BY DEF IInv, WorkLeft
<1> QED BY <1>2, <1>3, Step

\* A sweep is started with the candidates it found.
LEMMA StartSweepKeeps ==
    ASSUME IInv, StartAbsence \/ StartClose
    PROVE  IInv'
<1>1. Sound(rows) /\ Len(rows) \in Nat /\ DOMAIN rows = 1..Len(rows)
    BY DEF IInv, Sound
<1>2. UNCHANGED <<now, agent, dev, req, desk, rows>>
    BY DEF StartAbsence, StartClose, Sweep
<1>3. Unreported \in SUBSET agent.roster /\ Stale \in SUBSET (1..Len(rows))
    BY <1>1 DEF Unreported, Stale
<1>4. /\ sweep'.todo # {}
      /\ \/ sweep' \in [job : {"absence"}, todo : SUBSET agent.roster]
         \/ sweep' \in [job : {"close"}, todo : SUBSET (1..Len(rows'))]
    <2>1. CASE StartAbsence
        <3>1. sweep' = [job |-> "absence", todo |-> Unreported] /\ Unreported # {}
            BY <2>1 DEF StartAbsence, Sweep
        <3> QED BY <1>3, <3>1
    <2>2. CASE StartClose
        <3>1. sweep' = [job |-> "close", todo |-> Stale] /\ Stale # {}
            BY <2>2 DEF StartClose, Sweep
        <3> QED BY <1>2, <1>3, <3>1
    <2> QED BY <2>1, <2>2
<1> QED BY <1>1, <1>2, <1>4, SweepStep

\* A shift without a record is given the record of an absence.
LEMMA MarkAbsentKeeps ==
    ASSUME IInv, MarkAbsent
    PROVE  IInv'
<1> DEFINE day == Min(sweep.todo)
<1>1. /\ UNCHANGED <<now, agent, dev, req, desk>> /\ sweep' = Without(day)
      /\ rows' = IF Taken(day) THEN rows ELSE Append(rows, AbsentRow(day))
      /\ sweep.job = "absence"
    BY DEF MarkAbsent, Sweep
<1>2. Sound(rows) /\ Len(rows) \in Nat /\ agent \in Agents
    BY DEF IInv, Sound
<1>3. /\ sweep \in [job : {"absence"}, todo : SUBSET agent.roster] /\ sweep.todo # {}
    BY <1>1 DEF IInv, WorkLeft, NoJob
<1>4. sweep.todo \in SUBSET (0..agent.last) /\ agent.last \in Nat
    BY <1>2, <1>3, AgentShape DEF Days
<1>5. day \in Days
    BY <1>2, <1>3, <1>4, Extremes, AgentShape
<1>6. \/ sweep' = NoJob
      \/ sweep'.todo # {} /\ sweep' \in [job : {"absence"}, todo : SUBSET agent.roster]
    BY <1>1, <1>3 DEF Without
<1> HIDE DEF day
<1>7. Sound(rows') /\ Len(rows) =< Len(rows')
    <2>1. CASE Taken(day)
        BY <1>1, <1>2, <2>1
    <2>2. CASE ~Taken(day)
        <3> DEFINE r == AbsentRow(day)
        <3>1. r \in Rows /\ Owed(r) /\ r.day = day /\ rows' = Append(rows, r)
            BY <1>1, <1>2, <1>5, <2>2, AbsentRowSound
        <3> HIDE DEF r
        <3>2. Sound(Append(rows, r)) /\ Len(Append(rows, r)) = Len(rows) + 1
            BY <1>2, <2>2, <3>1, RowAdded
        <3> QED BY <1>2, <3>1, <3>2
    <2> QED BY <2>1, <2>2
<1> QED BY <1>1, <1>6, <1>7, SweepStep

\* A record that is still open is closed.
LEMMA AutoCloseKeeps ==
    ASSUME IInv, AutoClose
    PROVE  IInv'
<1> DEFINE i == Min(sweep.todo)
<1>1. /\ UNCHANGED <<now, agent, dev, req, desk>> /\ sweep' = Without(i)
      /\ rows' = IF StillOpen(i) THEN [rows EXCEPT ![i] = AutoClosed(@)] ELSE rows
      /\ sweep.job = "close"
    BY DEF AutoClose, Sweep
<1>2. Sound(rows) /\ Len(rows) \in Nat
    BY DEF IInv, Sound
<1>3. /\ sweep \in [job : {"close"}, todo : SUBSET (1..Len(rows))] /\ sweep.todo # {}
    BY <1>1 DEF IInv, WorkLeft, NoJob
<1>4. sweep.todo \in SUBSET (0..Len(rows))
    BY <1>2, <1>3
<1>5. i \in 1..Len(rows)
    BY <1>2, <1>3, <1>4, Extremes
<1> HIDE DEF i
<1>6. Sound(rows') /\ Len(rows') = Len(rows)
    BY <1>1, <1>2, <1>5, CloseSound
<1>7. \/ sweep' = NoJob
      \/ sweep'.todo # {} /\ sweep' \in [job : {"close"}, todo : SUBSET (1..Len(rows'))]
    BY <1>1, <1>3, <1>6 DEF Without
<1>8. Len(rows) =< Len(rows')
    BY <1>2, <1>6
<1> QED BY <1>1, <1>6, <1>7, <1>8, SweepStep

\* Time passes only while no request is at work.
LEMMA TickKeeps ==
    ASSUME IInv, Tick
    PROVE  IInv'
<1>1. /\ UNCHANGED <<agent, rows, dev, req, desk, sweep>> /\ now' = now + 1 /\ now < Horizon
      /\ \A d \in Devices : req[d].op = "none"
    BY DEF Tick, Busy
<1>2. Sound(rows)' /\ ScreensTyped' /\ WorkLeft'
    BY <1>1 DEF IInv, Sound, Settled, OnePerShift, Rows, Days, ScreensTyped, Screens,
                Requests, Queues, WorkLeft
<1>3. RequestsMeant'
    BY <1>1 DEF RequestsMeant
<1>4. Horizon \in Int
    BY AgentShape, DayAssumption DEF IInv, Horizon
<1>5. now' \in 1..Horizon'
    BY <1>1, <1>4 DEF IInv, Horizon
<1> QED BY <1>1, <1>2, <1>3, <1>5 DEF IInv

-----------------------------------------------------------------------------
(* The theorems.                                                           *)

\* Nothing is filed, asked or swept at first.
LEMMA InitIInv == Init => IInv
<1> SUFFICES ASSUME Init PROVE IInv
    OBVIOUS
<1>1. agent \in Agents /\ rows = << >> /\ Len(rows) = 0
    BY DEF Init
<1>2. agent.last \in Nat \ {0} /\ 0 \in 0..agent.last /\ CloseLag \in Nat
    BY <1>1, AgentShape, DayAssumption
<1>3. Sound(rows)
    BY <1>1 DEF Sound, Settled, OnePerShift
<1>4. ScreensTyped
    BY <1>1, <1>2 DEF Init, ScreensTyped, Screens, Requests, Queues, Blank, Idle, Empty,
                      Verifications
<1>5. RequestsMeant /\ WorkLeft
    BY DEF Init, RequestsMeant, WorkLeft, Idle, Empty
<1>6. now \in 1..Horizon
    BY <1>1, <1>2 DEF Init, Horizon
<1> QED BY <1>1, <1>3, <1>4, <1>5, <1>6 DEF IInv

\* Every step keeps the invariant.
LEMMA NextIInv == IInv /\ [Next]_vars => IInv'
<1> SUFFICES ASSUME IInv, [Next]_vars PROVE IInv'
    OBVIOUS
<1>1. ASSUME NEW d \in agent.phones \cup agent.consoles,
             Refetch(d) \/ ByPhone(d) \/ ByConsole(d) \/ Server(d)
      PROVE  IInv'
    <2>1. d \in Devices
        BY AgentShape DEF IInv
    <2>2. CASE Refetch(d) \/ ActivityRefused(d)
        BY <2>1, <2>2, ReloadKeeps
    <2>3. CASE TakePhoto(d)
        BY <2>1, <2>3, TakePhotoKeeps
    <2>4. CASE PhoneClockIn(d) \/ ConsoleClockIn(d)
        BY <2>1, <2>4, BeginClockInKeeps DEF PhoneClockIn, ConsoleClockIn
    <2>5. CASE PhoneClockOut(d) \/ ConsoleClockOut(d)
        BY <2>1, <2>5, ClockOutKeeps DEF PhoneClockOut, ConsoleClockOut
    <2>6. CASE \/ PhoneAddActivity(d) \/ PhoneRemoveActivity(d)
               \/ ConsoleAddActivity(d) \/ ConsoleDeleteActivity(d)
        BY <2>1, <2>6, SetActivitiesKeeps
           DEF PhoneAddActivity, PhoneRemoveActivity, ConsoleAddActivity, ConsoleDeleteActivity
    <2>7. CASE Server(d)
        BY <2>1, <2>7, CloseStaleKeeps, InsertClockInKeeps, WriteClockOutKeeps DEF Server
    <2> QED BY <1>1, <2>2, <2>3, <2>4, <2>5, <2>6, <2>7 DEF ByPhone, ByConsole
<1>2. CASE Cron
    BY <1>2, StartSweepKeeps, MarkAbsentKeeps, AutoCloseKeeps DEF Cron
<1>3. CASE UNCHANGED vars
    <2>1. UNCHANGED <<now, agent, rows, dev, req, desk, sweep>>
        BY <1>3 DEF vars
    <2>2. Sound(rows') /\ Len(rows') \in Nat /\ Len(rows) =< Len(rows')
        BY <2>1 DEF IInv, Sound
    <2>3. /\ RequestsMeant' /\ WorkLeft'
          /\ dev' \in [Devices -> Screens(Len(rows'))]
          /\ req' \in [Devices -> Requests(Len(rows'))]
          /\ desk' \in [Leaders -> Queues(Len(rows'))]
        BY <2>1, <2>2, Kept
    <2> QED BY <2>1, <2>2, <2>3, Step
<1> QED BY <1>1, <1>2, <1>3, LeaderKeeps, TickKeeps DEF Next

\* The invariant holds in every reachable state.
THEOREM InductiveInvariant == Spec => []IInv
BY InitIInv, NextIInv, PTL DEF Spec

\* Every variable has its type, for any agent and any number of records.
THEOREM TypeCorrect == Spec => []TypeOK
<1>1. IInv => TypeOK
    <2> SUFFICES ASSUME IInv PROVE TypeOK
        OBVIOUS
    <2>1. DOMAIN rows = 1..Len(rows) /\ rows \in Seq(Rows)
        BY DEF IInv, Sound
    <2>2. \A d \in Devices : /\ dev[d].open \in 0..Len(rows)
                             /\ dev[d].photo \in 0..agent.last
                             /\ req[d].id \in 0..Len(rows)
                             /\ req[d].op \in {"none", "in", "out"}
        BY DEF IInv, ScreensTyped, Screens, Requests
    <2>3. \A l \in Leaders : /\ desk[l].todo \subseteq DOMAIN rows
                             /\ desk[l].kind \in {"none", "VERIFIED", "REJECTED", "TIMED"}
                             /\ desk[l].day \in 0..agent.last
        BY <2>1 DEF IInv, ScreensTyped, Queues, Kinds
    <2>4. sweep.job \in {"none", "absence", "close"}
        BY DEF IInv, WorkLeft, NoJob
    <2> QED BY <2>1, <2>2, <2>3, <2>4 DEF TypeOK, IInv
<1> QED BY <1>1, InductiveInvariant, PTL

\* A shift has one record, whoever among the agent's screens, HR and the absence
\* sweep wrote it first (clock.sql:69, absence.sql:65).
THEOREM ShiftsHaveOneRecord == Spec => []OneRecordPerShift
<1>1. IInv => OneRecordPerShift
    BY DEF IInv, Sound, OnePerShift, OneRecordPerShift
<1> QED BY <1>1, InductiveInvariant, PTL

\* The agent is told of one decision for each time the record was queued, however
\* many leaders decide from however old a list (attendance_service.go:345).
THEOREM DecisionsAnswerQueueings == Spec => []OneDecisionPerQueueing
<1>1. IInv => OneDecisionPerQueueing
    BY DEF IInv, Sound, Settled, Owed, OneDecisionPerQueueing
<1> QED BY <1>1, InductiveInvariant, PTL

\* No step closes automatically what the agent has clocked out (clock.sql:97).
LEMMA NoCloseAfterClockOut ==
    ASSUME IInv, Next, NEW i \in DOMAIN rows, rows[i].out = "agent"
    PROVE  rows'[i].out # "auto"
<1>1. rows \in Seq(Rows) /\ DOMAIN rows = 1..Len(rows) /\ Len(rows) \in Nat
    BY DEF IInv, Sound
<1>2. rows[i] \in Rows /\ rows[i].out # "auto"
    BY <1>1
<1>3. \A r : Append(rows, r)[i] = rows[i]
    BY <1>1
<1>4. \A r : rows' = Append(rows, r) => rows'[i].out # "auto"
    BY <1>2, <1>3
<1>5. \A k : rows' = (IF StillOpen(k) THEN [rows EXCEPT ![k] = AutoClosed(@)] ELSE rows)
             => rows'[i].out # "auto"
    BY <1>1, <1>2 DEF StillOpen
<1>6. \A k, r : rows' = [rows EXCEPT ![k] = r] /\ (r.out \in {rows[k].out, "agent", "manual"})
                => rows'[i].out # "auto"
    BY <1>1, <1>2
<1>7. ASSUME NEW d \in Devices, Server(d) PROVE rows'[i].out # "auto"
    <2>1. CASE CloseStale(d)
        BY <2>1, <1>5 DEF CloseStale
    <2>2. CASE InsertClockIn(d)
        BY <2>2, <1>2, <1>4 DEF InsertClockIn
    <2>3. CASE WriteClockOut(d)
        <3> DEFINE k == req[d].id
                   r == ClockedOut(rows[k], req[d])
        <3>1. rows' = [rows EXCEPT ![k] = r]
            BY <2>3 DEF WriteClockOut
        <3>2. CASE k = i
            <4>1. r.out = "agent"
                BY <1>2, <3>2 DEF ClockedOut, Rows
            <4> QED BY <1>6, <3>1, <4>1
        <3>3. CASE k # i
            BY <1>2, <3>1, <3>3
        <3> QED BY <3>2, <3>3
    <2> QED BY <1>7, <2>1, <2>2, <2>3 DEF Server
<1>8. ASSUME NEW d, SetActivities(d, 0) \/ SetActivities(d, 1) PROVE rows'[i].out # "auto"
    <2> DEFINE k == dev[d].open
    <2>1. PICK n \in {0, 1} : rows' = [rows EXCEPT ![k].acts = n]
        BY <1>8 DEF SetActivities
    <2>2. rows'[i].out = rows[i].out
        BY <1>1, <1>2, <2>1 DEF Rows
    <2> QED BY <1>2, <2>2
<1>9. ASSUME NEW l \in Leaders, Leader(l) PROVE rows'[i].out # "auto"
    <2>1. CASE DecideOne(l)
        <3> DEFINE k == Min(desk[l].todo)
                   kind == desk[l].kind
        <3>1. \/ rows' = [rows EXCEPT ![k] = Decided(@, kind)]
              \/ \E out \in {rows[k].out, "manual"} :
                   rows' = [rows EXCEPT ![k] = [Decided(@, "TIMED") EXCEPT
                                                  !.in = TRUE, !.st = "PRESENT", !.out = out]]
              \/ UNCHANGED rows
            BY <2>1 DEF DecideOne
        <3> HIDE DEF k, kind
        <3>2. CASE k # i
            BY <1>2, <3>1, <3>2
        <3>3. CASE k = i
            <4>1. \A x : Decided(rows[i], x).out = rows[i].out
                BY <1>2 DEF Decided, Rows
            <4>2. \A out : [Decided(rows[i], "TIMED") EXCEPT
                              !.in = TRUE, !.st = "PRESENT", !.out = out].out = out
                BY <1>2 DEF Decided, Rows
            <4> QED BY <1>1, <1>2, <3>1, <3>3, <4>1, <4>2
        <3> QED BY <3>2, <3>3
    <2>2. CASE ManualCreate(l)
        BY <1>4, <2>2 DEF ManualCreate
    <2>3. CASE ~DecideOne(l) /\ ~ManualCreate(l)
        <3>1. UNCHANGED rows
            BY <1>9, <2>3 DEF Leader, ConfirmBulk, ConfirmRow, PhoneConfirm, ConfirmVerify,
                              ConfirmReject, Confirm, OpenForm, LeaveForm
        <3> QED BY <1>2, <3>1
    <2> QED BY <2>1, <2>2, <2>3
<1>10. ASSUME Cron PROVE rows'[i].out # "auto"
    <2>1. CASE StartAbsence \/ StartClose
        BY <1>2, <2>1 DEF StartAbsence, StartClose
    <2>2. CASE MarkAbsent
        BY <1>2, <1>4, <2>2 DEF MarkAbsent
    <2>3. CASE AutoClose
        BY <1>5, <2>3 DEF AutoClose
    <2> QED BY <1>10, <2>1, <2>2, <2>3 DEF Cron
<1>12. CASE Tick
    BY <1>2, <1>12 DEF Tick
<1>13. ASSUME NEW d \in agent.phones \cup agent.consoles,
              Refetch(d) \/ ByPhone(d) \/ ByConsole(d)
       PROVE  rows'[i].out # "auto"
    <2>1. CASE \/ PhoneAddActivity(d) \/ PhoneRemoveActivity(d)
               \/ ConsoleAddActivity(d) \/ ConsoleDeleteActivity(d)
        BY <1>8, <2>1 DEF PhoneAddActivity, PhoneRemoveActivity, ConsoleAddActivity,
                          ConsoleDeleteActivity
    <2>2. CASE ~(\/ PhoneAddActivity(d) \/ PhoneRemoveActivity(d)
                 \/ ConsoleAddActivity(d) \/ ConsoleDeleteActivity(d))
        <3>1. UNCHANGED rows
            BY <1>13, <2>2 DEF Refetch, ByPhone, ByConsole, TakePhoto, PhoneClockIn,
               ConsoleClockIn, BeginClockIn, PhoneClockOut, ConsoleClockOut, ClockOut,
               ActivityRefused
        <3> QED BY <1>2, <3>1
    <2> QED BY <2>1, <2>2
<1>14. agent.phones \cup agent.consoles \subseteq Devices
    BY AgentShape DEF IInv
<1> QED BY <1>7, <1>9, <1>10, <1>12, <1>13, <1>14 DEF Next

\* A clock-out the agent made stays: neither sweep, whatever list it works from, nor
\* the close of a stale record on clock-in undoes it.
THEOREM ClockOutsStay == Spec => ClockOutStays
<1>1. IInv /\ [Next]_vars
      => [\A i \in DOMAIN rows : rows[i].out = "agent" => rows'[i].out # "auto"]_vars
    BY NoCloseAfterClockOut
<1> QED BY <1>1, InductiveInvariant, PTL DEF Spec, ClockOutStays
=============================================================================
