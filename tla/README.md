# Verification of HRIS-outsource

TLA+ models of the HR system of an outsourcing company: its backend
(`src/backend`, Go over PostgreSQL) and its two clients, the web console
(`src/frontend/apps/web`) and the phone (`src/frontend/apps/mobile`). They cover
what depends on order: concurrent requests that read, lock and write rows, and
screens that show, send and repeat while others write. Models are checked with
TLC on small instances; what matters most is proved with TLAPS for every size.

The backend follows one pattern, and the modules about it follow it too. A
service method opens a transaction (`platform/db/tx.go`, READ COMMITTED), locks
some rows with `SELECT ... FOR UPDATE`, makes its checks and writes, and commits
or rolls back as one. Some reads inside a transaction go through the connection
POOL instead and see only what is committed: the code's most frequent source of
stale decisions. These models keep

- the committed rows as their main variables;
- per session (one HTTP request being served) a program counter `pc`, the request
  `call`, private copies of what it has read, and the rows it has locked (`held`);
- one action per step at which another transaction could come in between: the
  first pool read, each lock wait, each later pool read, and the commit, which
  applies all the writes of the transaction at once;
- `Rollback`, possible at any point: a failed query, hook or connection, or the
  death of the process. Nothing outlives it except committed rows.

The clients follow a pattern as well: a list screen with filters and cursors, and
a button or form that calls one operation on one record. Each of the two is one
machine (`ListScreens`, `RecordActions`) that runs over a catalogue of data, one
entry per screen or offer, translated from its code; the server operation an offer
calls is an entry of `ServerRecords`, translated from the Go service and its route.

## Inventory

| part | state | operations | hard behaviour |
|---|---|---|---|
| Approval engine (E11) `service/approval` | template with 2-3 ordered lines of members, versioned; instances (status, line, line count, version); append-only trail | CreateInstance, Approve, Reject, Bypass, CancelInstance, UpsertTemplate, DeleteTemplate | concurrent decisions on one line; template edits that restart pending chains; pool reads under a row lock; domain hooks inside the decision's transaction |
| Leave (E6) `service/leave` | requests, quota windows (entitled, used, pending), entitlements, approved leave days | Create, Submit, Cancel, CancelApproved, Shorten, hooks, AdjustTypeQuota | reserve / commit / release under races, window opened by two at once, order of locks instance, request, window |
| Attendance (E5) `service/attendance` | attendance rows, verification, flags | clock in and out, auto-close, absence sweep, verify, manual entry, reconcile | unguarded updates of rows read earlier; two cron sweeps against users |
| Corrections (E5) | correction requests | submit, cancel, hooks | correction and instance locked in both orders; month locked in between |
| Overtime (E7) | overtime requests, holidays | create, withdraw, hooks | one per day checked outside the transaction |
| Payroll (E8) `service/payroll` | periods, snapshot items, adjustments, runs, payments, clarifications | lock, reopen, open / post / void run, pay, void payment | blockers counted outside the locking transaction; late changes must become adjustments |
| Identity `service/identity` | users, refresh tokens in families, reset tokens | login, refresh, logout, reset, change password | one-time tokens used twice at once; revocation against a refresh in flight |
| Idempotency, cron, jobs `internal/platform` | stored responses, job rows | replay, tick, deliver | lookup, execution and store are three steps; at-least-once delivery |
| Placement, scheduling (E3, E4) | placements, schedule entries | transfer, end, propagate, create entry | lifecycle written without a guard; conflict check before the insert |
| People, organisation, foundations, calendar, reporting | records, read models | create, read, update, delete | a status checked on a copy and written later |
| Web console and phone `frontend/apps` | filters, cursors, page stacks, selections, open dialogs, photos, cached reads | filter, page, select, open, submit, retry, act in bulk, clock in and out | answers lost or late, a record another user has moved, cursors and search boxes that outlive a change of filter |
| Handlers, generated queries | none of their own | decode, call, encode | a handler that forgets to carry a field forward |

How they interact: a domain module (leave, overtime, correction) calls
`CreateInstance` in the transaction of its own submission; the engine calls the
domain's `OnApproved` / `OnRejected` in the transaction of the last decision, so
decision and effect commit or fail together; the domain may call
`CancelInstance`. Leave marks schedule entries and leave days that the attendance
sweeps read. Payroll snapshots what attendance, overtime and leave have approved
and turns later changes into adjustments. The cron loop runs one job at a time.
A client calls one operation per intention, with a new idempotency key each time
(`mutator.ts`), and invalidates all its queries after a success and none after a
failure (`query-client.ts`).

What makes each part correct: a decision happens once and its hook once (engine);
days are charged once and given back once (leave); a shift has one record that is
accounted for, and what an agent or a leader did to it stays (attendance); a
month's snapshot plus its adjustments is everything approved, and a run, an
adjustment and a payment happen once (payroll); a page is asked for with the
cursor of its own filters and the way back is the way that was taken (lists); what
the screen lets through the server accepts, once per intention, on the record as it
was shown, and nothing typed is lost (records); a token is
consumed once (identity).
`PROJECT.json` lists each hazard with its line and the properties that cover it,
or why none does yet.

## Modules

| module | what it is |
|---|---|
| `ApprovalContract` | abstract specification: each operation is one atomic step on `chain[i]` and `effect[i]`, no locks, no copies |
| `ApprovalEngine` | the engine of one client company, transaction step by transaction step; implements `ApprovalContract` |
| `ApprovalEngineProofs` | the inductive invariant and the theorems about `ApprovalEngine` |
| `LeaveLedger` | leave requests of one employee, their quota window and leave days, composed with `ApprovalContract` |
| `LeaveLedgerProofs` | the inductive invariant and the theorems about `LeaveLedger` |
| `AttendanceDay` | clock-in and clock-out of one agent: two screens, the clock service, both sweeps, HR's form, the leaders' queue |
| `AttendanceDayProofs` | the inductive invariant and the theorems about `AttendanceDay` |
| `PayrollMonth` | the close of one payroll month of one employee: lock, reopen, late changes, runs, payments |
| `PayrollMonthProofs` | the inductive invariant and the theorems about `PayrollMonth` |
| `ListScreens`, `ListCatalog` | the machine of a list screen; every list screen as data |
| `ListScreensProofs` | the inductive invariant and the theorems about the machine, for any screens |
| `ListCatalogProofs` | the screens of the catalogue obey what those theorems assume, and what follows for the clients |
| `RecordActions`, `ActionCatalog`, `RequestCatalog`, `ServerRecords` | the machine of a user acting on one record; the buttons and forms of the clients; the operations of the server |
| `RecordActionsProofs` | the inductive invariant and the theorems about the machine, for any offers |
| `ActionCatalogProofs` | the offers of the catalogues obey what those theorems assume, and what follows for the clients |
| `MC...` | small instances for TLC |

### ApprovalEngine

Variables: `template`, `instance`, `trail` and `effects` are the tables (and the
hooks run); `notified` is who the last notification batch went to; `active` is
the employment data the validation reads. `version = 0` stands for NULL.

| code | actions |
|---|---|
| `CreateInstance` | `BeginSubmit` (template row, pool), `ReadLines` (lines, later pool queries), `Insert`, `InsertFails` (foreign key: the template is gone) |
| `Approve` | `BeginDecision`, `LockInstance` or `LockDecided` (409), `CheckMembers` or `Forbidden` (403; members read through the pool), then `Advance` or `FinishApproved` |
| `Reject`, `Bypass`, `CancelInstance` | the same, ending in `FinishRejected`, `FinishApproved`, `FinishCancelled` |
| `UpsertTemplate` | `BeginUpsert` (lookup, pool), `Bump` or `BumpFails`, `Validate` or `LineInvalid` (422, pool), `ResetRow` for each row of the reset's UPDATE, `CommitUpsert` |
| `DeleteTemplate` | `BeginDelete`, `Delete` or `DeleteFails` (foreign key), `ResetRow`, `CommitDelete` |
| employment starting or ending (people service) | `EmploymentChange` |

An UPDATE of several rows is modelled as PostgreSQL executes it: it picks rows by
its snapshot (`todo`), waits for each row lock and looks at the row again
before writing, so a row decided meanwhile is left alone. The wait of an INSERT
or DELETE for a foreign key is a guard on the sessions that are in that state.

Abstracted: names and texts, audit rows, ids (an instance stands for its domain
request), the detail of notifications beyond their recipients, and the inbox and
detail queries, which write nothing.

### LeaveLedger

Variables: `request`, `window`, `leaveDays` are the tables; `chain` and `effect`
are those of `ApprovalContract`, instantiated with the requests as instances. The
engine's decision and the hook are one transaction in the code, and one action
here (`Engine!Approve`, `Engine!Reject` inside `CommitApprove`, `CommitReject`).
Only the deciding line of a chain is kept: lines cleared before it are the
engine's own transactions and touch nothing of leave.

| code | actions |
|---|---|
| `Create` (draft, or draft and submit at once) | `BeginCreate` (overlap and duration, pool), then `CommitDraft`, or the meter's actions and `CommitSubmit` |
| `Submit`, `Cancel`, `CancelApproved`, `Shorten` | `BeginRequest`, `LockRequest` or `LockRefused`, the meter's actions, the commit of the same name |
| `OnApproved`, `OnRejected` | `BeginHook` (the engine holds the instance), `LockRequest` or `LockRefused`, the meter's, `CommitApprove` or `ApproveOverCap`, `CommitReject` |
| `AdjustTypeQuota` | `BeginAdjust`, the meter's, `CommitAdjust` or `AdjustRefused` |
| meter: `resolveOrOpen`, `adjust` | `ResolveWindow` (FOR UPDATE), or `ReadEntitlement` and `OpenWindow` (INSERT ... ON CONFLICT DO UPDATE), or `NothingHeld` |

A quota window is charged by relative UPDATEs with `GREATEST(..., 0)`, and so is
the model (`Reserved`, `Committed`, `Released`, `Reversed`). The entitlement is
not a variable: HR may reassign it at any time, so `ReadEntitlement` takes any
value of `Entitlements`. `Duration` is the hybrid rule of `CountLeaveDuration`.

Not modelled of leave: types without a standing window and `openFromBase`,
per-occurrence charges, several windows at once, `SetLeaveDayPayable`, and the
checks that refuse a request by its input alone.

### AttendanceDay

Variables: `rows` are the agent's attendance rows in the order of insertion; `dev`
is what each of the agent's screens shows and holds (the running record, a photo),
`req` the request it has in flight, `desk` the dialogs of the leaders, `sweep` the
list a maintenance job works off. `now` counts half days.

| code | actions |
|---|---|
| phone tab `attendance.tsx`, console `me-kehadiran-screen.tsx` | `TakePhoto`, `PhoneClockIn`, `PhoneClockOut`, `PhoneAddActivity`, ..., the `Console...` actions, `ActivityRefused`, `Refetch` |
| `ClockIn` | `BeginClockIn` (pool reads and refusals), `CloseStale` (a transaction of its own), `InsertClockIn` (unique index) |
| `ClockOut` | `ClockOut` (pool reads, refusals), `WriteClockOut` (an UPDATE that does not ask whether the row is still open) |
| verification: record page, queue, bulk, phone | `ConfirmVerify`, `ConfirmReject`, `ConfirmRow`, `ConfirmBulk`, `PhoneConfirm`, then `DecideOne` per record |
| HR's form | `OpenForm` (the date is asked for records), `LeaveForm`, `ManualCreate` (the POST) |
| sweeps | `StartAbsence`, `MarkAbsent`; `StartClose`, `AutoClose` |

An answer is delivered or lost (`Answer`): what the screen does with it is
`PhoneHandle`, `ConsoleHandle`. The geofence, lateness and positions are choices of
their outcome, and so are the refusals of a clock-in that depend on neither the rows nor
the roster (no placement, no position, on leave): an alert, and nothing else changes. HR's
form asks the chosen date for records when it is opened and files later; the server then
takes the shift of the day on which it is filed (`attendance_service.go:602`), whatever the
date of the form. A verification of a record with an open correction is refused without a
ruling on it (`attendance_service.go:289`), and no client sends one: such a decision changes
nothing. What the properties do not catch: a clock-out, or a close by the sweep, that
overwrites a leader's decision queues the record again, which `OneDecisionPerQueueing`
counts as one more queueing; a clock-out judged against an absence row leaves the shift
accounted for. `PROJECT.json` says so at those hazards.

### PayrollMonth

Variables: `period`, `summaries`, `change` (each correction and each attendance
without a shift of the month), `adjustment`, `run`, `slip` are the tables; `shown` is
what HR's browser holds of a run's lines between assembly and posting; `overlapped`
is a history variable.

| code | actions |
|---|---|
| `GetOrCreatePeriod` | `GetOrCreatePeriod` |
| `Lock` | `BeginPeriod`, `GetPeriodForUpdate` (FOR UPDATE), `CreatePeriod` (pool, when there is no row), `CountFieldBlockers` (pool), `Snapshot`, `CommitLock` |
| `Reopen` | `BeginPeriod`, `GetPeriodForUpdate`, `CommitReopen` |
| corrections: submit, reject, the approval hook | `File`, `Decide`, `IsMonthLocked` (pool), `CommitCorrection` |
| verification, `ReconcileForEntry` | `Decide`, `BeginReconcile`, `CommitReconcile` |
| runs | `OpenRun`, `Assemble`, `BeginPost`, `CommitPost` |
| payments | `BeginPay` (unlocked read), `RecordPayment`, `VoidPayment` |

What the code does and the model therefore does too: leave never blocks a lock, for the
query looks for `PENDING_L1` and `PENDING_HR`, statuses no leave has any more;
`hasPostedRun` always answers no; a run is opened and posted whether or not the month is
locked; only corrections make adjustments, verification of attendance does not; a void
leaves the payslip paid; a batch is one transaction per payment. `overlapped` names the
corrections that are being applied while a lock or a reopening is being served: such a
correction asks whether the month is locked before the other commits, and may be lost from
both summary and adjustments. The properties speak of all others.

### ListScreens and ListCatalog

One behaviour is one of the 41 list screens, with two of its filters. `at` is the URL's
(or the component's) search: filters and cursor; `typed` the text of the search boxes that
keep their own; `stack` the cursors Prev pops; `answer` what the server said; `timer` a
search that waits for the typing to pause; `past` the browser's history; `ticked` the
selection. The actions are the handlers of the screens: `Choose`, `Type`, `Fire`,
`ResetFilters`, `Next`, `Prev`, `Tick`, `Bulk`, `OpenRow`, `Return`, `Reload`, `Back`, and
the reads `Load`, `Retry`, `Reread`. `ListCatalog` has up to three definitions per screen:
`...Search` (where the filters live, what a new filter drops, what is sent), `...Controls`
(what can be set, what goes with it, which box keeps its own text, whether there is a reset
button), `...Table` (which filters make an empty list a filtered one, the pager, what opens
with a row, whether rows can be ticked). A filter is on or off; pages are numbered, and a
cursor remembers the filters it was handed out for.

The search field of most screens (`search-field.tsx`) is an input with a default value: it
tells what is typed and is told nothing, so its text stays when the filters are reset or the
browser's Back moves the URL, and follows the filter again only when it is mounted anew.
`own` names those boxes, `Displayed` is what a control shows, and `FilterShown` compares
that with what is sent. After Back the two may differ for a box that keeps its own text, on
every such screen, and the property excuses that and no other control.

What opens with a row is the record in place of the list (`"record"`, the list is mounted
anew on return), a sheet above it (`"above"`, it is not), nothing, or, for the leave quotas,
the first page: opening a row navigates there, and the record is looked up among its rows
(`leave-quotas-screen.tsx:722`).

`detached` says that the state a component keeps beside the URL no longer belongs to it:
lost when the screen was mounted anew, or left behind when the browser's Back moved the
URL alone. After Back, Prev can pop a cursor that was pushed under other filters, on every
screen with a stack, for the stack is not in the history: so `CursorOfFilter`,
`StackLeadsBack` and `TicksOfFilter` speak of the screen before that.

`ScreensReset` states what the properties need of a screen's data: a new filter drops the
cursor, its stack and the selection, and Next pushes, named exceptions apart. TLC evaluates
it on the whole catalogue in every run, the theorems hold for any screens that meet it, and
`ListCatalogProofs` proves that those of the catalogue do.

### RecordActions and its catalogues

One behaviour is one offer: a button, dialog or form (103 of them, in `ActionCatalog` and
`RequestCatalog`) that calls one operation of the server (`ServerRecords`). `rec` is the
status of the server's record, `view` the page's last reading of it, `filled` the fields
this user fills in, `form` the dialog, `sent` the requests under way, `said` what the user
was told, `effects` how often the present intention took effect. The offers are those of
people and agreements, companies and master data, users, placements, shifts and schedules,
approvals, leave, attendance decisions (record page, queue and phone), activities,
overtime and holidays (the import too), an employee's own requests, the month-end, and the
phone.

| code | actions |
|---|---|
| page and query cache | `Reread`, `Revisit` |
| dialog | `OpenDialog`, `Cancel`, `Submit` |
| route, handler and service | `Check` (role, fields, status), `Commit` (the write, which asks for the status again only where the code does: `writes`) |
| answer | `Succeed`, `Fail` (a refusal, or no answer) |
| another user | `OtherWrite` |

In `ServerRecords` an operation says from which statuses it starts, which status the write
asks for, where it leads, which roles its route admits, which fields it needs, takes only
together (`pairs`) or takes and does not store (`ignores`), and whether each call adds
something. A form says which fields it has, insists on, sends (`sends`) and sends only in the
company of another (`pairs`); `Went` is what of the filled-in fields goes. Optional fields
that are treated alike are one field, and clearing a field of an existing record is a field
of its own, "an emptied one". A condition that is not a status is folded into one
("occupied": a company with placements; "disputed": an attendance with an open correction).

`OfferRules` is what the properties need of an offer's data: it is shown where its
operation starts, and either the write or the check can tell a second request of one
intention from the first (`WriteTells`, `CheckTells`). TLC evaluates it on the whole
catalogue, the theorems hold for any offers that meet it, and `ActionCatalogProofs` proves
that those of the catalogues do.

Several properties hold with named exceptions: screens and offers whose code does
break them. They are part of what the run shows, one set each, and every other entry
of the catalogues is held to the property. That each set is exact, no smaller and no
larger than the entries that break its rule, is a theorem (`ExceptionsAreExact`, one of
the screens and one of the offers).

Screens:

| exception | who | what the code does |
|---|---|---|
| `KeepStack` | attendance dashboard, attendance verification | a new filter drops the cursor and keeps the stack of Prev (`attendance-dashboard-screen.tsx:215`, `attendance-verification-screen.tsx:160`) |
| `KeepTicks` | verification on the phone | a chip takes rows off the screen that stay selected |
| `OneWayPager` | client companies, company roster, completeness | Next drops the cursor it was given (`client-companies-screen.tsx:100`, `period-close-screen.tsx:730`) or leaves for another page (`company-roster-screen.tsx:521`) |
| `SilentKeys`, 10 screens | corrections, overtime approvals, overtime records, approval inbox | the search box is shown and its text not sent |
| | placements | with `expiring_soon` another list is read, and the other filters stay shown |
| | correction picker on the phone | a date that is not complete counts as a filter and is not sent |
| | attendance dashboard, leave approvals, payslip archive | the reset clears the filter and leaves the text in its box |
| | employees | the timer of the search keeps the filters of the moment it was started, and undoes one chosen since |
| `TabNotCounted` | employees, agreements, attendance dashboard, placements, completeness, correction tracker and verification on the phone | a tab or chip narrows the list and does not count as a filter: an empty list is called fresh |

`EmptyIsHonest` is about what an empty list is called. Whether it also offers the reset is
another matter, which no property states: users and audit log, for two, announce a filtered
list and have no such button (`users-screen.tsx:284`, `audit-log-screen.tsx:308`).

Offers:

| exception | who | what the code does |
|---|---|---|
| `NotServed`, 17 | approve, reject (detail page and overtime page); the shift masters' four buttons; add agreement | shown to whoever may read the page, the route or the line admits fewer |
| | verify and reject attendance, in the queue and on the phone | shown to a leader for a record of the leader's own, which the service refuses |
| | confirm overtime (three places), delete leave type | no route serves the call |
| `Unasked`, 7 | correct a status on the phone, edit user | the form does not ask for what the handler needs (the code; the e-mail) |
| | reject attendance on the phone | three letters are enough for the form, the server wants five |
| | edit own profile (console, phone), new shift, edit shift | what may be left empty is refused: an emptied phone number, a break without its other end |
| `OfferedAnyway`, 10 | deactivate company, delete holiday, delete template | offered in a state the server always refuses |
| | verify attendance (four places) | offered while a correction is open, which needs a ruling no client sends |
| | withdraw overtime (three places) | offered while it waits for the agent's confirmation |
| `Dropped`, 14 | close agreement, assign leader, replace leader, renew agreement, edit user | the server takes a field and does not store it (the dates, the reason, the note, the phone number) |
| | the edit forms of employee, company, site, leave type, attendance code, shift | an emptied field is not sent |
| | new employee, new agreement, new site | a field is sent only if another is filled in (account holder, effective date, one coordinate) |
| `Repeats`, 7 | adjust quota, audit note, export, activity (console, phone), clarification, password reset | a second press after a lost answer adds again: its idempotency key is new |
| `CheckedEarly`, 14 | agreements, companies, transfer, entitlement, assigned shift, force lock, verify attendance (four places), drop activity (console, phone) | the status is checked on a copy, or at which the page does not offer it, and written whatever came between |
| `LeftStale`, 7 | verify and reject attendance, in every place | a refusal leaves the page as it was: nothing reads the record again |

## Runs

| run | question | bounds |
|---|---|---|
| `approval_engine` (pass) | do two transactions at a time keep chain, trail, hooks and template consistent, implement the contract, and always finish? | 1 instance, 2 sessions, 2 users of whom one is super admin and requester, edits up to version 2 |
| `approval_second_approver` (violation) | is a second approval of a cleared line refused? | two members on line 1 |
| `approval_added_line` (violation) | does a pending request run through a line added meanwhile? | one session, one edit |
| `leave_ledger` (pass) | do two transactions at a time keep requests, window, instances and leave days consistent, and always finish? | 2 requests, 2 sessions, two overlapping date ranges, entitlements 1 and 2, adjustment -1 |
| `leave_shorten` (violation) | does remaining stay at least 0? | 1 request, 1 session |
| `leave_withdrawal` (violation) | does withdrawing close the approval instance? | 1 request, 1 session |
| `attendance_day` (pass) | with lost answers, two screens, leaders and sweeps, does each shift end with one record that is accounted for, and does what was done stay? | three agents: two shifts, a console and one clock-in; one shift, phone and console, two clock-ins at once; back office, no shift and a phone. One leader, two requests or jobs at once |
| `attendance_photo` (violation) | is a photo used up by the clock-in it was filed with? The server files a clock-in whose answer is lost, the phone keeps the picture, and the next day's clock-in files it again | two shifts, one phone, two clock-ins |
| `list_screens` (pass) | do cursors, the way back, selections and empty states stay those of the filters in force? | all 41 screens, every two of their filters, three pages, two history entries |
| `record_actions` (pass) | do screen and server agree on roles, fields, statuses and retries? | all 103 offers, one write of another user, two requests at once, two counted effects |
| `payroll_month` (pass) | do lock, reopen, late corrections, runs and payments lose or repeat anything? | 1 correction, 1 unscheduled attendance, 2 runs, 2 sessions, 2 reopenings, 1 payment |
| `payroll_paid_twice` (violation) | is a payslip paid once? | 1 run, 2 sessions, 2 payments |

Why the bounds are enough. Every conflict in the services is between a transaction and one
other that commits in one of its gaps; two sessions show each such pair, and a third only
repeats one. One instance is enough for the engine because decisions of different instances
meet only in a template change's reset, which treats each row by itself; the theorems cover
any number. Version 2 gives a request a chain before and after a reset, twice in a row when
a delete and a new template follow. Two leave requests are needed because they share the
window: one's release can take the other's reservation. The date ranges overlap so that both
pass the overlap check only by racing, and the first is charged fewer days than it spans,
which is what `Shorten` gets wrong. Attendance needs a second shift for what a stale record
or a kept photo does to the next day, and two screens with room for two records for one
agent's race with itself; they are split over the agents. A month is locked,
reopened and locked again, and reopened and locked a third time; two runs can be assembled with the same adjustment before either is
posted. A list's third page is the first with a stack of two, which a wrong Prev tells
apart; two entries of history are one to go back to and one behind it (a third takes TLC
past five minutes, and the theorems cover any number). Two requests on a record are a press
and its retry, and one write of another user falls before, between or after check and write.

The bounds that are not sizes of a set are named constants: `MaxVersion`, `Leavers`,
`LineLists`; `ShortenTo`, `Deltas`, `MaxEntitled`; an agent's `room` and `last`,
`MaxAtOnce`; `MaxReopens`, `MaxPayments`; `LastPage`, `MaxPast`; `MaxOthers`, `MaxSent`,
`MaxEffects`. Three runs say `CHECK_DEADLOCK FALSE`: the days of
`AttendanceDay` end at the horizon, and in the two client models a user may have
nothing left to press. Sessions and runs are symmetric in `PayrollMonth`, where no run
checks liveness.

What the passing runs check:

- `TypeOK` in each, with the column CHECKs: counters of a window stay natural, no more
  payments are voided than were made.
- Engine: `HookMatchesStatus` (E11 INV-8), `ChainInForce` (INV-2, INV-6),
  `DecidedOnCurrentRow` (INV-9), and `ImplementsContract`: the refinement to
  `ApprovalContract`, with the committed rows as mapping.
- Leave: `UsedMatchesApproved` (E6 LQ-2, LQ-3), `NoLeakedHold` (LQ-12),
  `MeterRespectsCap` (LQ-5), `StatusFollowsInstance` (E6 INV-2), `LeaveDaysMarked` (INV-3),
  and `KeepsContract`: what leave does to instances and hooks is what `ApprovalContract`
  allows, so that the engine below it and the domain above it meet in one specification.
- `EveryCallAnswered` in both: no lock leaks and no cycle of waits (the theorems on waits
  say so for any number of sessions).
- Attendance: `OneRecordPerShift`, `ClockOutStays` (no sweep undoes a clock-out),
  `OneDecisionPerQueueing` (a record is decided once each time it is queued),
  `EveryShiftAccounted` (in the end no shift is without a record that is closed, absent
  or verified).
- Lists: `CursorOfFilter`, `StackLeadsBack`, `FilterShown`, `EmptyIsHonest`,
  `TicksOfFilter`, and `NextTurnsThePage` of each step.
- Records: `OfferedToServed`, `AskedIsEnough`, `RefusedOnlyIfOvertaken`,
  `KeepsWhatWasTyped`, `OneEffectPerIntention`; of each step `WrittenFromAllowed`; and
  `RefusalHeals`: a decision that is refused because the item moved on leaves the page up to
  date in the end (approvals, leave and overtime; attendance decisions are in `LeftStale`).
- Payroll: `CorrectionAccounted` (PC-8, PC-9), `PostedOnce` (PR-12), `AppliedOnce`
  (C-PC-7).

Every one of them has a mutant in `PROJECT.json`: a plausible bug (a lock not
taken, a counter not floored, a sweep that trusts its list, a search that keeps its
cursor, an adjustment taken twice) that breaks it.

What the violations show is in `PROJECT.json` under `findings`, each with the
sentence of the documents that the code contradicts.

Met while modelling, the same on every run and so stated by none: a company's first
template is always refused (TM-3: its lines are validated through the pool before they are
committed); the members of the next line are not notified (EX-3: the pool still sees the
line that was just cleared); an absence row is taken for the newest open record, since a
null check-in sorts first (`clock.sql:15-17` says it never masks it); a payment batch is not
one transaction (`payment_service.go:141` says it is rolled back as a whole).

## Fairness

`EveryCallAnswered` assumes strong fairness of the steps of each session. A
transaction that waits for a row lock is disabled and enabled again as others take
and release it; PostgreSQL queues the waiters of a row in order, so a waiter is
not passed over for ever, and a running transaction is not suspended for ever.
`AttendanceDay` assumes that time passes (strong, since a request in flight holds it
up for a moment), that the cron loop runs its jobs again and again, and that a request that
reached the server is executed; nobody is forced to press anything. `RecordActions`
assumes only that a reading of the record that was begun ends. `ListScreens` and
`PayrollMonth` assume nothing. Nowhere is anything assumed of `Rollback`, of new requests, of other
users, or of an answer arriving. The connection pool is not modelled: a session
always gets a connection (a hazard listed in `PROJECT.json`, since code inside a
transaction takes a second one).

## Theorems

Eight modules: one per model, with an inductive invariant `IInv` that TLC checked on the
instance of the run before it was proved, one lemma per action, and the theorems; and one
per catalogue of the clients. All are about every reachable state or step, for any finite or
infinite constants that meet the named assumptions of the model, which TLC evaluates on the
instances.

`ApprovalEngineProofs` proves, for any finite or infinite sets of users,
instances, sessions and line lists that meet `EngineAssumption`:

- `Inductive`: `Spec => []IInv`;
- `TypeCorrect`, `HookOnce`, `ChainCorrect`, `TrailAppendOnly`: the properties
  `TypeOK`, `HookMatchesStatus`, `ChainInForce`, `DecidedOnCurrentRow`;
- `Refinement`: `ImplementsContract`;
- `ClosedForGood` (INV-4): a request that is rejected, approved or cancelled keeps its row and
  its hooks; proved of the contract (`ContractFinal`) and carried over by the refinement;
- `NoCircleOfWaits`, `NobodyStuck`: see "Waits" below.

`EngineAssumption` says only that the constants have their kinds and that saved
lines have the shape the service lets through (two or three lines, none empty).

The argument. None of the properties is inductive: that an approval is appended
to the line the row is on needs to know that the session's copy still is the row.
`IInv` adds that. `DecideOK`: a session past the row lock holds exactly that row,
the row is pending and its copy equals it. `Exclusive`: no two sessions hold the
same row, or the template, or submit the same request, so nobody else changes
it. `SubmitOK` and `ChangeOK` say the same of a submission and of a template
change: what they are about to write is at most one version ahead, and only
pending rows are locked for a reset. Per instance, `RowOK` bounds line and
version, `TrailOK` says that entries of the version in force are approvals of
lines behind the current one (so a new approval of the current line is the only
one), `HookOK` and `ChainOK` are the two invariants themselves. Actions that leave
the tables alone are dealt with by `SessionStep` and `EndStep`; each commit has
a lemma of its own (`AdvanceStep`, `FinishApprovedStep`, ... `CommitDeleteStep`), and
`StepInv`, `ServeInv`, `NextInv` put them together. The refinement needs no more
than `IInv`: the commits map to the contract's operations, every other step to a
stutter.

`PayrollMonthProofs` proves, for any corrections, attendance, runs and sessions and any
bounds that meet `PayrollAssumption` (corrections and attendance are different changes,
neither is the month's row, no run is named "none" or "pending"):

- `Invariance`: `Spec => []IInv`;
- `TypeCorrect`, `RunPostedOnce`, `CorrectionsAccounted`, `AdjustmentAppliedOnce`: the
  properties `TypeOK`, `PostedOnce`, `CorrectionAccounted`, `AppliedOnce`: everything
  `payroll_month` checks;
- `NoCircleOfWaits`, `NobodyStuck`: see "Waits" below.

The argument. That a locked month's figures contain every correction depends on what
requests have read. `IInv` adds `RequestShape` and `LocksExclude`: where a request
stands says what it serves and which rows it has locked, so a correction being applied
stays pending, and between `Snapshot` and `CommitLock` nobody else locks or reopens the
month. `OverlapsKnown` says that a correction served while a lock or a reopening is served
is in `overlapped`; hence `CopiesFresh`: outside the overlaps, what a correction has read
of the month and what a lock has read of the corrections is still so. `SummaryTrue` and
`AdjustmentTrue` say what a summary and an adjustment mean: only corrections that were
applied are in either, and one with an adjustment was applied to a locked month, unless the
month was reopened since. Each action has a lemma that it keeps the nine parts,
`SessionKeeps` and `StepKeeps` put them together; `AdjustmentStep` is the one step
property.

`LeaveLedgerProofs` proves, for any requests and sessions, any spans of dates, roster,
entitlements and adjustments that meet `LedgerAssumption` (there is a request, dates and
entitlements are natural, spans are not empty):

- `Invariance`: `Spec => []IInv`;
- `TypeCorrect`, `InstanceFollowed`, `ApprovedDaysMarked`, `CapKept`: the properties
  `TypeOK`, `StatusFollowsInstance`, `LeaveDaysMarked`, `MeterRespectsCap`;
- `MeterInvariance`: `Spec => []Metered`, and from it `UsedIsApproved`, `HoldsArePending`:
  the properties `UsedMatchesApproved`, `NoLeakedHold`;
- `ContractKept`: `KeepsContract`, the refinement of the engine's contract by its client;
- `NoCircleOfWaits`, `NobodyStuck`: see "Waits" below.

The argument. `SessionsTyped` and `RowsTyped` are the types; that the counters stay natural
needs no lock but the `GREATEST(..., 0)` of the meter and the check of an adjustment against
counters that are still the window's. `CallShape` and `LocksExclude` say which rows a session
has locked where it stands, and that no two have the same one or create the same request.
`CopiesFresh` says what that is for: the copy of a locked request is the row, in a status
the operation goes on with, the instance of a hook is pending, the counters read with the
window are its counters, and what is being created does not exist yet. `WindowOpened` keeps
a release or a reversal from finding no window (only the cancellation of a draft may),
and `DatesKnown` says that an approved leave is within the dates that can be marked.
`EndReleases` and `EndKeepsFresh` are the two facts every commit rests on: whatever a
transaction writes under its locks, it ends with none, and no other session has read it.
The cap is a step property: only a submission and an approval change a status to pending
or approved (`Charges`), and both take days that the window they have locked has
(`CapRespected`).

The sums. Used and pending days are compared with the sum of the days of the approved and
of the pending requests. `Charged` names each charged day by its request and its number, so
that the sum is the size of a set and no fold is needed: `DaysSplit` divides it into the
days of one request and those of the others, and `DaysMoved` says what writing one row does
to it. Nothing is assumed of the number of requests: that the set is finite is part of
`Metered`, for each commit charges one request. `NothingToRelease` is the strengthening: a
cancellation that finds no window keeps its request locked, and the request was not pending
then, so there are no days it would have to give back. A reversal never meets the floor of
`GREATEST(..., 0)`, since the used days include those of the request (`UsedSuffices`); a
release can, because the cancellation of a draft releases days it never held, and that is
why `NoLeakedHold` is an inequality.

The contract. Every commit but three leaves the instances alone (`StepKeepsContract`); the
hooks decide an instance they have locked while it was pending, and a submission enters one
that is absent (`SubmitsOnce`), which is `StatusFollowsInstance` of a locked draft.

`AttendanceDayProofs` proves, for any agents, screens, leaders, lags and horizon that meet
`DayAssumption` (lags are natural, the roster is within the agent's last day, phones and
consoles are different screens):

- `InductiveInvariant`: `Spec => []IInv`;
- `TypeCorrect`, `ShiftsHaveOneRecord`, `DecisionsAnswerQueueings`, `ClockOutsStay`: the
  properties `TypeOK`, `OneRecordPerShift`, `OneDecisionPerQueueing`, `ClockOutStays`.

The argument. `Sound` holds of the list of records alone, and there are three ways to
change it: a record is added (`RowAdded`), rewritten (`RowRewritten`) or left. A shift gets
a second record from no writer, since each insert meets the unique index on the table as it
is then, not as it was read. `Settled` balances queueings and decisions: a record in the
queue owes one and no other record does. The rest says what is
in the air: `ScreensTyped` and `RequestsMeant` that a screen, a request and a queue name
records that exist, `WorkLeft` that a queue or a job at work has something left to do. That
no sweep undoes a clock-out is a step property (`NoCloseAfterClockOut`): the sweep works
off a list that may be stale, and its write asks again whether the record is open.

`ListScreensProofs` proves, for any screens that meet `ListAssumption` and `ScreensReset`:

- `InductiveInvariant`, `TypeCorrect`, `CursorsOfTheirFilters`, `StacksLeadBack`,
  `SelectionsAreListed`, `NextTurns`: the properties `TypeOK`, `CursorOfFilter`,
  `StackLeadsBack`, `TicksOfFilter`, `NextTurnsThePage`.

The argument. That the cursor in force is of the filters in force is not inductive, for
Prev takes one from the stack: `CursorsMeant` says it of every cursor kept, with the
screens on which it holds (`InStep`), those that go home instead of back, and those whose
Next never moves, for which the history has to be as honest. `MoreAhead` bounds Next by the
answer. `ControlsShowTheSearch` and `EmptyListsAreHonest` are `FilterShown` and `EmptyIsHonest`
for screens that meet a condition on their data; the first needs `BoxesFollow`: where no
pause and no reset comes between a box and its filter (`Following`), the box shows the filter
in force until Back moves it.
A handler that sets the search is `Refiltered` or `Turned`; the others are `Still`.

`RecordActionsProofs` proves, for any offers that meet `ActionAssumption` and `OfferRules`:

- `InductiveInvariant`, `TypeCorrect`, `ConfirmedOnce`, `RefusedWhenOvertaken`: the
  properties `TypeOK`, `OneEffectPerIntention`, `RefusedOnlyIfOvertaken`;
- `ShownToServed`, `FormsComplete`, `EntriesKept`, `ChangedFromAllowed`: the properties
  `OfferedToServed`, `AskedIsEnough`, `KeepsWhatWasTyped`, `WrittenFromAllowed`, each from one
  condition on the offers that is a hypothesis of the theorem and that
  `ActionCatalogProofs` discharges;
- `SuccessWasAdmitted`, without any: who is told of success was admitted, and the request
  had what the operation needs.

The argument. That an intention takes effect once rests on what its first effect leaves
behind. `Effective` and `Spent`: after an effect, either the write would find the status
already changed, or no request of the same intention is past its check and none can pass it
any more; a guarded button has one such request under way at a time (`OneMine`). `Reasons`
ties what the user is told to the cause, `Offered` what was sent to what was shown. A form
keeps what was entered for one of two reasons (`EntriesKept`): all of it went and is stored,
whatever combination of fields was filled in, or the request lacks something the server
insists on, so that nobody is told of success, which needs `Admitted` in `Reasons`.

`ActionCatalogProofs` and `ListCatalogProofs` prove, with no other hypothesis than that the
offers or screens are taken from the catalogues (`Offers \subseteq AllOffers`,
`Screens \subseteq AllScreens`):

- `ClientsKeepOfferRules`, `ClientsResetTheirScreens`: the assumptions `OfferRules` and
  `ScreensReset` hold of the clients;
- `ExceptionsAreExact`, in both: an entry is named in an exception (seven sets of offers,
  five of screens) if and only if it breaks the rule, so that no entry is excused without need;
- `ClientsShowToServed`, `ClientsAskEnough`, `ClientsKeepEntries`, `ClientsChangeFromAllowed`,
  `ClientsShowTheirFilters`, `ClientsEmptyHonestly`: the properties `OfferedToServed`,
  `AskedIsEnough`, `KeepsWhatWasTyped`, `WrittenFromAllowed`, `FilterShown`, `EmptyIsHonest`
  of the clients as they are, for any number of requests, of other users' writes, of filters
  set together and of pages.

The argument is one step per entry. `Obeys` is what one offer, or one screen, owes: `Fits`
compares what is shown, asked and sent with what the operation starts from, admits, needs
and ignores; `Tells` looks for what tells a repeated or overtaken request; `Drops` and
`Narrows` do the same for a screen. Each of the 103 offers and 41 screens is a step of the
lemma of its section, and every property follows from the general theorem of the machine.

Waits. `EveryCallAnswered` is a liveness property, out of the prover's reach; what can
break it in this code is not. In the three models with row locks, `Waits(s, t)` says that s
stands before a row that t has locked, and `Ready(s)` that the guard of one of the steps of
s holds. Two theorems hold for any number of sessions:

- `NoCircleOfWaits`: waits go up a fixed order, so that no transactions wait for each other
  in a circle. In the engine only a template change locks more than one row, after the
  template's, and whoever holds an instance beside it asks for nothing more; in the leave
  ledger request comes before window, in the hooks too; in the payroll month whoever is
  waited for waits for nobody.
- `NobodyStuck`: at every moment a busy session is ready, or waits for one that is (engine
  and leave: at most for one that waits for one). Rollback is not counted as a step here,
  although it would always be possible, and that is why TLC's own check of deadlock could not
  show this.

They rest on where holders stand (`HoldersStand`): in the engine and the ledger that
follows from `IInv`, in the payroll month it is an invariant of its own
(`HoldersKnown`). `Ready` repeats the guards of the actions, since the prover does not know
ENABLED; `OnlyReadyStep` proves that it asks for no more than they do, and that it asks for no less
TLC found on the instances of the runs, where `Ready(s)` and `ENABLED Step(s)` were the same
in every reachable state (not a run of its own). With the strong fairness above, this is the argument for
`EveryCallAnswered` at any size, short of the temporal step.

Only model-checked, and why:

- liveness, which is out of the prover's reach: `EveryCallAnswered` (engine and leave),
  `EveryShiftAccounted`, `RefusalHeals`;
- the violations, which are counterexamples.

Every other property that a passing run checks is the statement of a theorem.

## Plan

Done, in this order: the engine with its contract and proofs; the leave ledger; the
clients' machines and catalogues; attendance; the payroll month and its proofs; the leave
ledger's proofs; the proofs of its sums, of attendance and of the two client machines; the
proofs about the two catalogues and about waits. Next:

1. Corrections and overtime composed with `ApprovalContract`, for the order of locks (an
   instance and a correction are locked in both orders; PostgreSQL aborts one) and for
   withdrawal.
2. Tokens: families with rotation, reuse detection, logout, reset and the failed-login
   counter, with two devices. Abstract specification: a set of live sessions.
3. The idempotency middleware: lookup, execution and store against repeats below the
   clients, and crashes.
4. The successor of a transfer and the propagation of schedules, if the state they add is
   worth its run.

## Not modelled

Tokens, passwords and the failed-login counter; the idempotency middleware; read models,
exports, payslip rendering, storage and encryption, decoding and encoding (no state that
interleaves); generated query code (the SQL it is generated from is modelled instead);
River's delivery (outside the repository); layout, texts, navigation between pages, mocks.
Of the modelled parts: amounts and figures, several employees of one month, leave types
without a standing window, what a correction changes in the attendance it corrects, the
conflict engine of the schedule beyond one cell. `PROJECT.json` says so at each component.
