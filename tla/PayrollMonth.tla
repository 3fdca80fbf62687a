----------------------------- MODULE PayrollMonth -----------------------------
(***************************************************************************)
(* The close of one payroll month for one field employee: the period that  *)
(* is locked and reopened (payroll/period_service.go), the changes that    *)
(* arrive before, while and after it is locked (attendance corrections,    *)
(* the verification and the reconciliation of attendance without a shift), *)
(* and the runs and payments that follow (run_service.go,                  *)
(* payment_service.go).  A request for overtime blocks a lock and is       *)
(* decided like attendance to be verified; leave never blocks, the query   *)
(* looks for statuses no leave has any more.                               *)
(*                                                                         *)
(* As in ApprovalEngine the rows are the COMMITTED rows, a session is one  *)
(* HTTP request being served, and a transaction's writes are applied by    *)
(* the action that commits it.  Amounts, notes, audit and clarifications   *)
(* are left out; the summary of a locked month is the set of the changes   *)
(* its figures include.                                                    *)
(***************************************************************************)
EXTENDS Integers, FiniteSets, Functions

CONSTANTS
    Corrections,    \* corrections of the month's attendance
    Unscheduled,    \* attendance without a shift, to be verified or reconciled
    Runs,           \* payroll runs, one a month: this month's and later ones
    Sessions,       \* requests being served concurrently
    MaxReopens,     \* bound: times the month is reopened
    MaxPayments     \* bound: payments asked for

ASSUME PayrollAssumption ==
    /\ MaxReopens \in Nat /\ MaxPayments \in Nat
    /\ Corrections \cap Unscheduled = {}
    /\ "period" \notin Corrections \cup Unscheduled
    /\ {"none", "pending"} \cap Runs = {}

VARIABLES
    period,         \* the payroll_periods row: its status, how often it was reopened
    summaries,      \* period_employee_summaries: none or one
    change,         \* the status of each change
    adjustment,     \* payroll_adjustments: of each correction, the run it is applied to
    run,            \* payroll_runs
    slip,           \* payslips of each run, their payments and voids
    shown,          \* the adjustments on the lines HR reviews for each run
    pc,             \* where the request of each session stands
    call,           \* what it serves
    copy,           \* what it has read
    held,           \* the rows it has locked
    overlapped      \* history: corrections served at the same time as a lock or reopening

db == <<period, summaries, change, adjustment, run, slip, shown>>
vars == <<period, summaries, change, adjustment, run, slip, shown,
          pc, call, copy, held, overlapped>>

Changes == Corrections \cup Unscheduled
NoCall == [verb |-> "NONE", on |-> "none"]
NoCopy == [month |-> "NONE", done |-> {}]
NoSlip == [count |-> 0, paid |-> FALSE, payments |-> 0, voided |-> 0]

Init ==
    /\ period = [status |-> "NONE", reopened |-> 0]
    /\ summaries = {}
    /\ change = [c \in Changes |-> "none"]
    /\ adjustment = [c \in Corrections |-> "none"]
    /\ run = [r \in Runs |-> "none"]
    /\ slip = [r \in Runs |-> NoSlip]
    /\ shown = [r \in Runs |-> {}]
    /\ pc = [s \in Sessions |-> "idle"]
    /\ call = [s \in Sessions |-> NoCall]
    /\ copy = [s \in Sessions |-> NoCopy]
    /\ held = [s \in Sessions |-> {}]
    /\ overlapped = {}

-----------------------------------------------------------------------------
(* Requests and locks.                                                     *)

Serving(verbs) == {s \in Sessions : call[s].verb \in verbs}

Begin(s, verb, on, label) ==
    /\ pc[s] = "idle"
    /\ pc' = [pc EXCEPT ![s] = label]
    /\ call' = [call EXCEPT ![s] = [verb |-> verb, on |-> on]]
    /\ overlapped' = overlapped \cup
           IF verb \in {"LOCK", "REOPEN"} THEN {call[t].on : t \in Serving({"CORRECT"})}
           ELSE IF verb = "CORRECT" /\ Serving({"LOCK", "REOPEN"}) # {} THEN {on}
           ELSE {}

Goto(s, label) ==
    /\ pc' = [pc EXCEPT ![s] = label]
    /\ UNCHANGED <<call, overlapped>>

End(s) ==
    /\ pc' = [pc EXCEPT ![s] = "idle"]
    /\ call' = [call EXCEPT ![s] = NoCall]
    /\ copy' = [copy EXCEPT ![s] = NoCopy]
    /\ held' = [held EXCEPT ![s] = {}]
    /\ UNCHANGED overlapped

Refuse(s) == End(s) /\ UNCHANGED db

PeriodFree(s) == \A t \in Sessions \ {s} : "period" \notin held[t]
ChangeFree(c) == \A t \in Sessions : c \notin held[t]

-----------------------------------------------------------------------------
(* Lock and reopen.                                                        *)

CanLock == period.status \in {"OPEN", "REOPENED"}
CanReopen == period.status = "LOCKED"

\* Reading a month creates it.
GetOrCreatePeriod ==
    /\ period.status = "NONE"
    /\ period' = [period EXCEPT !.status = "OPEN"]
    /\ UNCHANGED <<summaries, change, adjustment, run, slip, shown, pc, call, copy, held, overlapped>>

BeginPeriod(s, verb) ==
    /\ verb = "REOPEN" => period.reopened + Cardinality(Serving({"REOPEN"})) < MaxReopens
    /\ Begin(s, verb, "none", "fetching")
    /\ UNCHANGED <<db, copy, held>>

\* SELECT ... FOR UPDATE: a month nobody has looked at has no row to lock.
GetPeriodForUpdate(s) ==
    /\ pc[s] = "fetching"
    /\ PeriodFree(s)
    /\ \/ /\ period.status = "NONE"
          /\ IF call[s].verb = "REOPEN" THEN Refuse(s)
             ELSE Goto(s, "creating") /\ UNCHANGED <<db, copy, held>>
       \/ /\ period.status # "NONE"
          /\ IF (IF call[s].verb = "REOPEN" THEN CanReopen ELSE CanLock)
             THEN /\ Goto(s, IF call[s].verb = "REOPEN" THEN "reopening" ELSE "counting")
                  /\ held' = [held EXCEPT ![s] = {"period"}]
                  /\ UNCHANGED <<db, copy>>
             ELSE Refuse(s)

\* The row is created, or found, through the pool: this transaction holds no lock on it.
CreatePeriod(s) ==
    /\ pc[s] = "creating"
    /\ IF period.status \in {"NONE", "OPEN", "REOPENED"}
       THEN /\ period' = [period EXCEPT !.status = IF @ = "NONE" THEN "OPEN" ELSE @]
            /\ Goto(s, "counting")
            /\ UNCHANGED <<summaries, change, adjustment, run, slip, shown, copy, held>>
       ELSE Refuse(s)

\* What is in the way of a lock, unless it is overridden.
Blockers == {c \in Unscheduled : change[c] \in {"pending", "late"}}

\* Counted through the pool.
CountFieldBlockers(s) ==
    /\ pc[s] = "counting"
    /\ \E override \in BOOLEAN :
          IF Blockers = {} \/ override THEN Goto(s, "locking") /\ UNCHANGED <<db, copy, held>>
          ELSE Refuse(s)

\* The guarded UPDATE, and the statement that reads what is approved.
Snapshot(s) ==
    /\ pc[s] = "locking"
    /\ PeriodFree(s)
    /\ IF CanLock
       THEN /\ copy' = [copy EXCEPT ![s].done = {c \in Changes : change[c] = "done"}]
            /\ held' = [held EXCEPT ![s] = {"period"}]
            /\ Goto(s, "committing")
            /\ UNCHANGED db
       ELSE Refuse(s)

\* ON CONFLICT DO NOTHING.
CommitLock(s) ==
    /\ pc[s] = "committing"
    /\ period' = [period EXCEPT !.status = "LOCKED"]
    /\ summaries' = IF summaries = {} THEN {copy[s].done} ELSE summaries
    /\ End(s)
    /\ UNCHANGED <<change, adjustment, run, slip, shown>>

\* hasPostedRun always answers no; adjustments of the month stay.
CommitReopen(s) ==
    /\ pc[s] = "reopening"
    /\ period' = [status |-> "REOPENED", reopened |-> period.reopened + 1]
    /\ summaries' = {}
    /\ End(s)
    /\ UNCHANGED <<change, adjustment, run, slip, shown>>

-----------------------------------------------------------------------------
(* Changes to the month.                                                   *)

\* A request is filed, an employee clocks in.
File(c) ==
    /\ change[c] = "none"
    /\ change' = [change EXCEPT ![c] = "pending"]
    /\ UNCHANGED <<period, summaries, adjustment, run, slip, shown, pc, call, copy, held, overlapped>>

\* Verification, which does not ask whether the month is locked, and the rejection of a
\* correction.
Decide(c) ==
    /\ change[c] \in {"pending", "late"} /\ ChangeFree(c)
    /\ \E decision \in {"done", "refused"} :
          /\ decision = "done" => c \notin Corrections
          /\ change' = [change EXCEPT ![c] = decision]
    /\ UNCHANGED <<period, summaries, adjustment, run, slip, shown, pc, call, copy, held, overlapped>>

\* OnApproved of a correction: under the row lock, whether the month is locked is asked
\* through the pool, before the commit.
IsMonthLocked(s, c) ==
    /\ change[c] = "pending" /\ ChangeFree(c)
    /\ Begin(s, "CORRECT", c, "applying")
    /\ copy' = [copy EXCEPT ![s].month = period.status]
    /\ held' = [held EXCEPT ![s] = {c}]
    /\ UNCHANGED db

\* Mutant: the adjustment is forgotten.
CommitCorrectionSilent(s) ==
    /\ pc[s] = "applying"
    /\ change' = [change EXCEPT ![call[s].on] = "done"]
    /\ End(s)
    /\ UNCHANGED <<period, summaries, adjustment, run, slip, shown>>

CommitCorrection(s) ==
    /\ pc[s] = "applying"
    /\ change' = [change EXCEPT ![call[s].on] = "done"]
    /\ adjustment' = IF copy[s].month = "LOCKED" THEN [adjustment EXCEPT ![call[s].on] = "pending"]
                                       ELSE adjustment
    /\ End(s)
    /\ UNCHANGED <<period, summaries, run, slip, shown>>

\* A shift is scheduled over attendance that had none.  In a locked month only the
\* shift is inserted.
BeginReconcile(s, c) ==
    /\ change[c] = "pending" /\ period.status # "LOCKED"
    /\ Begin(s, "RECONCILE", c, "reconciling")
    /\ UNCHANGED <<db, copy, held>>

\* On time it needs no leader, late it waits for one, as attendance with a shift.  What
\* a leader has decided on meanwhile is only linked to the shift.
CommitReconcile(s) ==
    /\ pc[s] = "reconciling" /\ ChangeFree(call[s].on)
    /\ \E verification \in {"done", "late"} :
          change' = [change EXCEPT ![call[s].on] = IF @ = "pending" THEN verification ELSE @]
    /\ End(s)
    /\ UNCHANGED <<period, summaries, adjustment, run, slip, shown>>

-----------------------------------------------------------------------------
(* Runs and payments.                                                      *)

\* Whether the month is locked is not asked.  One run a month: a unique index.
OpenRun(r) ==
    /\ run[r] = "none"
    /\ run' = [run EXCEPT ![r] = "DRAFT"]
    /\ UNCHANGED <<period, summaries, change, adjustment, slip, shown, pc, call, copy, held, overlapped>>

\* The lines go to HR's browser and come back with the request to post.
Assemble(r) ==
    /\ run[r] = "DRAFT"
    /\ shown' = [shown EXCEPT ![r] = {c \in Corrections : adjustment[c] = "pending"}]
    /\ UNCHANGED <<period, summaries, change, adjustment, run, slip, pc, call, copy, held, overlapped>>

BeginPost(s, r) ==
    /\ run[r] = "DRAFT"
    /\ Begin(s, "POST", r, "posting")
    /\ copy' = [copy EXCEPT ![s].done = shown[r]]
    /\ UNCHANGED <<db, held>>

\* Mutant: adjustments of other runs are taken over.
AppliedAnyway(lines, r) == [c \in Corrections |-> IF c \in lines THEN r ELSE adjustment[c]]
MarkAdjustmentsApplied(lines, r) ==
    [c \in Corrections |-> IF c \in lines /\ adjustment[c] = "pending" THEN r ELSE adjustment[c]]

\* Mutant: the run is not asked again.
DraftStill(r) == TRUE
IsDraft(r) == run[r] = "DRAFT"

\* The guarded UPDATE, the payslip, the adjustments.
CommitPost(s) ==
    /\ pc[s] = "posting"
    /\ LET r == call[s].on IN
       IF IsDraft(r)
       THEN /\ run' = [run EXCEPT ![r] = "POSTED"]
            /\ slip' = [slip EXCEPT ![r].count = @ + 1]
            /\ adjustment' = MarkAdjustmentsApplied(copy[s].done, r)
            /\ shown' = [shown EXCEPT ![r] = {}]
            /\ End(s)
            /\ UNCHANGED <<period, summaries, change>>
       ELSE Refuse(s)

Payments == SumFunction([r \in Runs |-> slip[r].payments]) + Cardinality(Serving({"PAY"}))

\* The payslip is read without a lock; a batch is one such transaction after the other.
BeginPay(s, r) ==
    /\ slip[r].count > 0 /\ ~slip[r].paid
    /\ Payments < MaxPayments
    /\ Begin(s, "PAY", r, "paying")
    /\ UNCHANGED <<db, copy, held>>

RecordPayment(s) ==
    /\ pc[s] = "paying"
    /\ slip' = [slip EXCEPT ![call[s].on].paid = TRUE, ![call[s].on].payments = @ + 1]
    /\ End(s)
    /\ UNCHANGED <<period, summaries, change, adjustment, run, shown>>

\* Mutant: a payment is voided again.
VoidableAgain(r) == slip[r].payments > 0 /\ slip[r].voided <= slip[r].payments
Voidable(r) == slip[r].voided < slip[r].payments
\* A void flags the payment and leaves the payslip paid.
VoidPayment(r) ==
    /\ Voidable(r)
    /\ slip' = [slip EXCEPT ![r].voided = @ + 1]
    /\ UNCHANGED <<period, summaries, change, adjustment, run, shown, pc, call, copy, held, overlapped>>

-----------------------------------------------------------------------------
(* The specification.                                                      *)

\* A failed query or connection, or the end of the process.
Rollback(s) == pc[s] # "idle" /\ Refuse(s)

Serve(s) ==
    \/ \E verb \in {"LOCK", "REOPEN"} : BeginPeriod(s, verb)
    \/ \E c \in Corrections : IsMonthLocked(s, c)
    \/ \E c \in Unscheduled : BeginReconcile(s, c)
    \/ \E r \in Runs : BeginPost(s, r) \/ BeginPay(s, r)

Step(s) ==
    \/ GetPeriodForUpdate(s) \/ CreatePeriod(s) \/ CountFieldBlockers(s) \/ Snapshot(s)
    \/ CommitLock(s) \/ CommitReopen(s)
    \/ CommitCorrection(s) \/ CommitReconcile(s)
    \/ CommitPost(s) \/ RecordPayment(s)

Next ==
    \/ GetOrCreatePeriod
    \/ \E s \in Sessions : Serve(s) \/ Step(s) \/ Rollback(s)
    \/ \E c \in Changes : File(c) \/ Decide(c)
    \/ \E r \in Runs : OpenRun(r) \/ Assemble(r) \/ VoidPayment(r)

Spec == Init /\ [][Next]_vars

-----------------------------------------------------------------------------
(* Properties.                                                             *)

Applied == {"none", "pending"} \cup Runs
Months == {"NONE", "OPEN", "LOCKED", "REOPENED"}
Periods == [status : Months, reopened : Nat]
Slips == {p \in [count : Nat, paid : BOOLEAN, payments : Nat, voided : Nat] : p.voided <= p.payments}
Copies == [month : Months, done : SUBSET Changes]
Verbs == {"NONE", "LOCK", "REOPEN", "CORRECT", "RECONCILE", "POST", "PAY"}
Labels == {"idle", "fetching", "creating", "counting", "locking", "committing", "reopening",
           "applying", "reconciling", "posting", "paying"}

\* Every row, copy and label has its type; no more payments are voided than were made.
TypeOK ==
    /\ period \in Periods
    /\ summaries \in SUBSET SUBSET Changes
    /\ change \in [Changes -> {"none", "pending", "late", "done", "refused"}]
    /\ adjustment \in [Corrections -> Applied]
    /\ run \in [Runs -> {"none", "DRAFT", "POSTED"}]
    /\ slip \in [Runs -> Slips]
    /\ shown \in [Runs -> SUBSET Corrections]
    /\ pc \in [Sessions -> Labels]
    /\ call \in [Sessions -> [verb : Verbs, on : {"none"} \cup Changes \cup Runs]]
    /\ copy \in [Sessions -> Copies]
    /\ held \in [Sessions -> SUBSET ({"period"} \cup Changes)]
    /\ overlapped \subseteq Corrections

Counted(c) == \E summary \in summaries : c \in summary

\* PC-8, PC-9: in a locked month every applied correction is in the summary or has an
\* adjustment, and not both unless the month was reopened, however often it was locked
\* and reopened.  A correction served at the same time as a lock or a reopening is apart:
\* it asks whether the month is locked before that commits.
CorrectionAccounted ==
    period.status = "LOCKED" =>
        \A c \in Corrections \ overlapped :
            change[c] = "done" =>
                /\ Counted(c) \/ adjustment[c] # "none"
                /\ period.reopened = 0 => ~(Counted(c) /\ adjustment[c] # "none")

\* PR-12: a run is posted once: two requests to post it, or one repeated, make one
\* payslip.
PostedOnce == \A r \in Runs : slip[r].count = IF run[r] = "POSTED" THEN 1 ELSE 0

\* C-PC-7: an adjustment is applied to one run, also when two runs were assembled before
\* either was posted.
AppliedOnce ==
    [][\A c \in Corrections : adjustment[c] \in Runs => adjustment'[c] = adjustment[c]]_vars

-----------------------------------------------------------------------------
(* What the documents say and the code does not do.                        *)

\* PY-5: a payslip that is paid is not paid again.
PaidOnce == \A r \in Runs : slip[r].payments <= 1
=============================================================================
