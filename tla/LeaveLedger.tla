----------------------------- MODULE LeaveLedger -----------------------------
(***************************************************************************)
(* The leave requests of one employee for one leave type that is charged   *)
(* in days, the quota window they are metered against, and the approval    *)
(* engine they are routed through (backend/internal/service/leave).        *)
(*                                                                         *)
(* The engine is ApprovalContract, which ApprovalEngine implements; its    *)
(* decision and the hook it runs in this domain are one transaction.  As   *)
(* in ApprovalEngine the rows are the COMMITTED rows, a session is one     *)
(* HTTP request being served, row locks are kept to the transaction's end  *)
(* and its writes are applied by the action that commits it.  Locks are    *)
(* taken in the order instance, request, window.                           *)
(*                                                                         *)
(* Input checks that depend on nothing here (dates in order, document,     *)
(* backdating, placement, who may cancel) only refuse, and are left out.   *)
(***************************************************************************)
EXTENDS Integers, Sequences, FiniteSets

CONSTANTS
    Requests,       \* leave requests
    Sessions,       \* requests being served concurrently
    Spans,          \* the date ranges <<first, last>> asked for
    ShortenTo,      \* the new end dates asked for
    Roster,         \* dates the employee is rostered on
    WorkingDays,    \* weekdays that are no holiday
    Entitlements,   \* what entitlementFor may answer: HR's assignment, or the fallback
    Deltas,         \* HR's adjustments
    MaxEntitled     \* bound: no adjustment above it is asked for

ASSUME LedgerAssumption ==
    /\ Requests # {} /\ Spans \subseteq Nat \X Nat
    /\ \A span \in Spans : span[1] <= span[2]
    /\ ShortenTo \subseteq Nat
    /\ Entitlements \subseteq Nat /\ Entitlements # {}
    /\ Deltas \subseteq Int /\ MaxEntitled \in Nat

VARIABLES
    request,        \* leave_requests rows
    window,         \* the leave_quotas row of the type's window
    leaveDays,      \* approved_leave_days: the request that marks each date
    chain,          \* approval instances ...
    effect,         \* ... and the hooks run for them
    pc,             \* where the transaction of each session stands
    call,           \* the request the session serves
    row,            \* the session's copy of its leave request
    win,            \* the window the session has resolved or opened
    held            \* the rows it has locked

db == <<request, window, leaveDays, chain, effect>>
vars == <<request, window, leaveDays, chain, effect,
          pc, call, row, win, held>>

Engine == INSTANCE ApprovalContract WITH Instances <- Requests

NoRequest == [status |-> "NONE", first |-> 0, last |-> 0, days |-> 0]
NoWindow == [open |-> FALSE, entitled |-> 0, used |-> 0, pending |-> 0]
NoCall == [verb |-> "NONE", req |-> CHOOSE r \in Requests : TRUE, arg |-> 0]

\* An instance at the line that decides it: clearing the lines before is the engine's
\* own transaction and changes nothing here.
NewChain == [status |-> "PENDING", line |-> 1, count |-> 1, templated |-> TRUE, version |-> 1]

Dates == UNION {span[1]..span[2] : span \in Spans}
NoDay == [d \in Dates |-> {}]

Init ==
    /\ request = [r \in Requests |-> NoRequest]
    /\ window = NoWindow
    /\ leaveDays = NoDay
    /\ Engine!Init
    /\ pc = [s \in Sessions |-> "idle"]
    /\ call = [s \in Sessions |-> NoCall]
    /\ row = [s \in Sessions |-> NoRequest]
    /\ win = [s \in Sessions |-> NoWindow]
    /\ held = [s \in Sessions |-> {}]

-----------------------------------------------------------------------------
(* Transactions and locks.                                                 *)

Begin(s, verb, r, arg, label) ==
    /\ pc[s] = "idle"
    /\ pc' = [pc EXCEPT ![s] = label]
    /\ call' = [call EXCEPT ![s] = [verb |-> verb, req |-> r, arg |-> arg]]

Goto(s, label) ==
    /\ pc' = [pc EXCEPT ![s] = label]
    /\ UNCHANGED call

\* The transaction ends, by commit or rollback: its locks and copies go with it.
End(s) ==
    /\ pc' = [pc EXCEPT ![s] = "idle"]
    /\ call' = [call EXCEPT ![s] = NoCall]
    /\ row' = [row EXCEPT ![s] = NoRequest]
    /\ win' = [win EXCEPT ![s] = NoWindow]
    /\ held' = [held EXCEPT ![s] = {}]

InstanceFree(r) == \A t \in Sessions : ~ (call[t].req = r /\ "instance" \in held[t])

RequestFree(s) ==
    \A t \in Sessions \ {s} : ~ (call[t].req = call[s].req /\ "request" \in held[t])

\* A window being opened counts as locked: the unique index makes a second INSERT wait.
WindowFree(s) == \A t \in Sessions \ {s} : "window" \notin held[t]

-----------------------------------------------------------------------------
(* The operations up to the meter.                                         *)

\* Every rostered day that is not already leave; with no such day, the working days.
Duration(first, last) ==
    LET rostered == {d \in first..last : d \in Roster /\ leaveDays[d] = {}} IN
    IF rostered # {} THEN Cardinality(rostered) ELSE Cardinality((first..last) \cap WorkingDays)

Overlaps(first, last) ==
    \E r \in Requests : /\ request[r].status \notin {"NONE", "REJECTED", "CANCELLED"}
                        /\ request[r].first <= last
                        /\ request[r].last >= first

\* Create: the overlap check and the duration are pool reads made before the insert;
\* FILE goes on to submit the new draft in the same transaction, DRAFT does not.
BeginCreate(s, r, span, verb) ==
    /\ request[r].status = "NONE"
    /\ \A t \in Sessions : ~ (call[t].verb \in {"DRAFT", "FILE"} /\ call[t].req = r)
    /\ ~ Overlaps(span[1], span[2])
    /\ Begin(s, verb, r, 0, IF verb = "FILE" THEN "metering" ELSE "writing")
    /\ row' = [row EXCEPT ![s] = [status |-> "DRAFT", first |-> span[1], last |-> span[2],
                                  days |-> Duration(span[1], span[2])]]
    /\ UNCHANGED <<db, win, held>>

\* Submit, Cancel, CancelApproved, Shorten (arg is the new end date).
BeginRequest(s, r, verb, arg) ==
    /\ request[r].status # "NONE"
    /\ Begin(s, verb, r, arg, "locking")
    /\ UNCHANGED <<db, row, win, held>>

\* The engine has locked a pending instance, found the decision to be its last and
\* calls this domain's hook.
BeginHook(s, r, verb) ==
    /\ chain[r].status = "PENDING"
    /\ InstanceFree(r)
    /\ Begin(s, verb, r, 0, "locking")
    /\ held' = [held EXCEPT ![s] = {"instance"}]
    /\ UNCHANGED <<db, row, win>>

\* AdjustTypeQuota (arg is the delta).
BeginAdjust(s, delta) ==
    /\ window.entitled + delta <= MaxEntitled
    /\ Begin(s, "ADJUST", NoCall.req, delta, "metering")
    /\ UNCHANGED <<db, row, win, held>>

\* Statuses each operation goes on with.  (A hook called again on a request that is
\* already in its status would return early; StatusFollowsInstance excludes it.)
Accepts(verb, status) ==
    CASE verb = "SUBMIT" -> status = "DRAFT"
      [] verb = "CANCEL" -> status \in {"DRAFT", "PENDING"}
      [] verb \in {"CANCEL_APPROVED", "SHORTEN"} -> status = "APPROVED"
      [] OTHER -> status = "PENDING"

\* Shorten keeps the first day and drops at least one.
GoodEnd(s) ==
    call[s].verb = "SHORTEN" =>
        /\ request[call[s].req].first <= call[s].arg
        /\ call[s].arg < request[call[s].req].last

Proceeds(s) == Accepts(call[s].verb, request[call[s].req].status) /\ GoodEnd(s)

\* Mutant: the request is read without FOR UPDATE.
LockRequestUnlocked(s) ==
    /\ pc[s] = "locking"
    /\ Proceeds(s)
    /\ row' = [row EXCEPT ![s] = request[call[s].req]]
    /\ Goto(s, "metering")
    /\ UNCHANGED <<db, win, held>>

\* SELECT ... FOR UPDATE waits for the row, then reads its committed state.
LockRequest(s) ==
    /\ pc[s] = "locking"
    /\ RequestFree(s)
    /\ Proceeds(s)
    /\ row' = [row EXCEPT ![s] = request[call[s].req]]
    /\ held' = [held EXCEPT ![s] = @ \cup {"request"}]
    /\ Goto(s, "metering")
    /\ UNCHANGED <<db, win>>

\* Mutant: the refused transaction keeps its row lock.
LockRefusedLeaky(s) ==
    /\ pc[s] = "locking"
    /\ RequestFree(s)
    /\ ~ Proceeds(s)
    /\ pc' = [pc EXCEPT ![s] = "idle"]
    /\ held' = [held EXCEPT ![s] = @ \cup {"request"}]
    /\ UNCHANGED <<db, call, row, win>>

\* 409 CONFLICT (422 for a bad end date); in a hook it undoes the engine's decision.
LockRefused(s) ==
    /\ pc[s] = "locking"
    /\ RequestFree(s)
    /\ ~ Proceeds(s)
    /\ End(s)
    /\ UNCHANGED db

-----------------------------------------------------------------------------
(* The meter: resolve the window with a row lock, or open it.              *)

Opens(verb) == verb \in {"SUBMIT", "FILE", "ADJUST"}

\* Mutant: the window is read without FOR UPDATE.
ResolveWindowUnlocked(s) ==
    /\ pc[s] = "metering"
    /\ window.open
    /\ win' = [win EXCEPT ![s] = window]
    /\ Goto(s, "writing")
    /\ UNCHANGED <<db, row, held>>

ResolveWindow(s) ==
    /\ pc[s] = "metering"
    /\ window.open
    /\ WindowFree(s)
    /\ win' = [win EXCEPT ![s] = window]
    /\ held' = [held EXCEPT ![s] = @ \cup {"window"}]
    /\ Goto(s, "writing")
    /\ UNCHANGED <<db, row>>

\* No committed row: a reservation or an adjustment reads the entitlement to open one
\* at, which HR may have reassigned at any moment before ...
ReadEntitlement(s) ==
    /\ pc[s] = "metering"
    /\ ~ window.open
    /\ Opens(call[s].verb)
    /\ \E days \in Entitlements : win' = [win EXCEPT ![s].entitled = days]
    /\ Goto(s, "opening")
    /\ UNCHANGED <<db, row, held>>

\* ... and a release or a reversal has nothing to do.
NothingHeld(s) ==
    /\ pc[s] = "metering"
    /\ ~ window.open
    /\ ~ Opens(call[s].verb)
    /\ Goto(s, "writing")
    /\ UNCHANGED <<db, row, win, held>>

\* INSERT ... ON CONFLICT DO UPDATE: waits for a transaction that is opening or using
\* the window, and overwrites the entitled days of the row it finds then.
OpenWindow(s) ==
    /\ pc[s] = "opening"
    /\ WindowFree(s)
    /\ win' = [win EXCEPT ![s] = [window EXCEPT !.open = TRUE, !.entitled = win[s].entitled]]
    /\ held' = [held EXCEPT ![s] = @ \cup {"window"}]
    /\ Goto(s, "writing")
    /\ UNCHANGED <<db, row>>

Remaining(w) == w.entitled - w.used - w.pending

\* GREATEST(a - b, 0)
Less(a, b) == IF a > b THEN a - b ELSE 0

\* Mutant: a release that trusts that the days were reserved.
ReleasedBelowZero(w, d) == [w EXCEPT !.pending = @ - d]

\* The meter's UPDATEs: relative to the row, which the session has locked.
Reserved(w, d) == [w EXCEPT !.pending = @ + d]
Committed(w, d) == [w EXCEPT !.pending = Less(@, d), !.used = @ + d]
Released(w, d) == [w EXCEPT !.pending = Less(@, d)]
Reversed(w, d) == [w EXCEPT !.used = Less(@, d)]

\* The row as the session's transaction has it.
Mine(s) == [window EXCEPT !.open = win[s].open, !.entitled = win[s].entitled]

-----------------------------------------------------------------------------
(* The commits.                                                            *)

Writing(s, verbs) == pc[s] = "writing" /\ call[s].verb \in verbs

CommitDraft(s) ==
    /\ Writing(s, {"DRAFT"})
    /\ request' = [request EXCEPT ![call[s].req] = row[s]]
    /\ End(s)
    /\ UNCHANGED <<window, leaveDays, chain, effect>>

\* submitTx: reserve, PENDING, and a new approval instance.
CommitSubmit(s) ==
    LET r == call[s].req IN
    /\ Writing(s, {"SUBMIT", "FILE"})
    /\ Remaining(win[s]) >= row[s].days
    /\ window' = Reserved(Mine(s), row[s].days)
    /\ request' = [request EXCEPT ![r] = [row[s] EXCEPT !.status = "PENDING"]]
    /\ chain' = [chain EXCEPT ![r] = NewChain]
    /\ End(s)
    /\ UNCHANGED <<leaveDays, effect>>

\* 422 QUOTA_EXCEEDED.
QuotaExceeded(s) ==
    /\ Writing(s, {"SUBMIT", "FILE"})
    /\ Remaining(win[s]) < row[s].days
    /\ End(s)
    /\ UNCHANGED db

\* The days that were not reserved (or no longer are) must still fit.
OverCap(s) ==
    /\ win[s].pending < row[s].days
    /\ Remaining(win[s]) < row[s].days - win[s].pending

Marked(s) ==
    [d \in Dates |-> IF d \in row[s].first..row[s].last THEN {call[s].req} ELSE leaveDays[d]]

\* OnApproved, in the engine's transaction.
CommitApprove(s) ==
    LET r == call[s].req IN
    /\ Writing(s, {"APPROVE"})
    /\ ~ OverCap(s)
    /\ window' = Committed(Mine(s), row[s].days)
    /\ leaveDays' = Marked(s)
    /\ request' = [request EXCEPT ![r].status = "APPROVED"]
    /\ Engine!Approve(r)
    /\ End(s)

\* 422: the engine's decision is undone with it.
ApproveOverCap(s) ==
    /\ Writing(s, {"APPROVE"})
    /\ OverCap(s)
    /\ End(s)
    /\ UNCHANGED db

\* Mutant: the rejected request's reservation is kept.
CommitRejectKept(s) ==
    LET r == call[s].req IN
    /\ Writing(s, {"REJECT"})
    /\ window' = Mine(s)
    /\ request' = [request EXCEPT ![r].status = "REJECTED"]
    /\ Engine!Reject(r)
    /\ End(s)
    /\ UNCHANGED leaveDays

\* OnRejected, in the engine's transaction.
CommitReject(s) ==
    LET r == call[s].req IN
    /\ Writing(s, {"REJECT"})
    /\ window' = Released(Mine(s), row[s].days)
    /\ request' = [request EXCEPT ![r].status = "REJECTED"]
    /\ Engine!Reject(r)
    /\ End(s)
    /\ UNCHANGED leaveDays

\* Cancel releases whatever the status, and leaves the approval instance as it is.
CommitCancel(s) ==
    /\ Writing(s, {"CANCEL"})
    /\ window' = IF win[s].open THEN Released(Mine(s), row[s].days) ELSE window
    /\ request' = [request EXCEPT ![call[s].req].status = "CANCELLED"]
    /\ End(s)
    /\ UNCHANGED <<leaveDays, chain, effect>>

\* Mutant: the days go back to pending's side of the ledger, used keeps them.
CommitCancelApprovedReleasing(s) ==
    /\ Writing(s, {"CANCEL_APPROVED"})
    /\ window' = Released(Mine(s), row[s].days)
    /\ request' = [request EXCEPT ![call[s].req].status = "CANCELLED"]
    /\ End(s)
    /\ UNCHANGED <<leaveDays, chain, effect>>

\* Mutant: the leave days are restored by date, whichever request they belong to.
CommitCancelApprovedRestoring(s) ==
    /\ Writing(s, {"CANCEL_APPROVED"})
    /\ window' = Reversed(Mine(s), row[s].days)
    /\ request' = [request EXCEPT ![call[s].req].status = "CANCELLED"]
    /\ leaveDays' = [d \in Dates |-> IF d \in row[s].first..row[s].last THEN {} ELSE leaveDays[d]]
    /\ End(s)
    /\ UNCHANGED <<chain, effect>>

\* CancelApproved gives the used days back; the leave days stay marked.
CommitCancelApproved(s) ==
    /\ Writing(s, {"CANCEL_APPROVED"})
    /\ window' = Reversed(Mine(s), row[s].days)
    /\ request' = [request EXCEPT ![call[s].req].status = "CANCELLED"]
    /\ End(s)
    /\ UNCHANGED <<leaveDays, chain, effect>>

\* Shorten: the whole charge is reversed and the new one committed without a check;
\* the new length counts calendar days.
CommitShorten(s) ==
    LET r == call[s].req
        newDays == call[s].arg - row[s].first + 1 IN
    /\ Writing(s, {"SHORTEN"})
    /\ window' = Committed(Reversed(Mine(s), row[s].days), newDays)
    /\ request' = [request EXCEPT ![r].last = call[s].arg, ![r].days = newDays]
    /\ End(s)
    /\ UNCHANGED <<leaveDays, chain, effect>>

\* LQ-6: not below what is used and pending.
CommitAdjust(s) ==
    /\ Writing(s, {"ADJUST"})
    /\ Remaining(win[s]) + call[s].arg >= 0
    /\ window' = [Mine(s) EXCEPT !.entitled = @ + call[s].arg]
    /\ End(s)
    /\ UNCHANGED <<request, leaveDays, chain, effect>>

AdjustRefused(s) ==
    /\ Writing(s, {"ADJUST"})
    /\ Remaining(win[s]) + call[s].arg < 0
    /\ End(s)
    /\ UNCHANGED db

-----------------------------------------------------------------------------
(* The environment.                                                        *)

\* A query or the connection fails, or the process dies.
Rollback(s) ==
    /\ pc[s] # "idle"
    /\ End(s)
    /\ UNCHANGED db

Serve(s) ==
    \/ \E r \in Requests, span \in Spans, verb \in {"DRAFT", "FILE"} :
          BeginCreate(s, r, span, verb)
    \/ \E r \in Requests :
          \/ \E verb \in {"SUBMIT", "CANCEL", "CANCEL_APPROVED"} : BeginRequest(s, r, verb, 0)
          \/ \E date \in ShortenTo : BeginRequest(s, r, "SHORTEN", date)
          \/ \E verb \in {"APPROVE", "REJECT"} : BeginHook(s, r, verb)
    \/ \E delta \in Deltas : BeginAdjust(s, delta)

Step(s) ==
    \/ LockRequest(s) \/ LockRefused(s)
    \/ ResolveWindow(s) \/ ReadEntitlement(s) \/ NothingHeld(s) \/ OpenWindow(s)
    \/ CommitDraft(s) \/ CommitSubmit(s) \/ QuotaExceeded(s)
    \/ CommitApprove(s) \/ ApproveOverCap(s) \/ CommitReject(s)
    \/ CommitCancel(s) \/ CommitCancelApproved(s) \/ CommitShorten(s)
    \/ CommitAdjust(s) \/ AdjustRefused(s)

Next == \E s \in Sessions : Serve(s) \/ Step(s) \/ Rollback(s)

\* PostgreSQL grants a row lock in the order of the waiters: strong fairness.
Fairness == \A s \in Sessions : SF_vars(Step(s))

Spec == Init /\ [][Next]_vars /\ Fairness

-----------------------------------------------------------------------------
(* Properties.                                                             *)

Statuses == {"NONE", "DRAFT", "PENDING", "APPROVED", "REJECTED", "CANCELLED"}
RequestRows == [status : Statuses, first : Nat, last : Nat, days : Nat]
WindowRows == [open : BOOLEAN, entitled : Nat, used : Nat, pending : Nat]

\* Every row, copy and label has its type: the window's counters stay natural, as
\* the table's CHECKs demand.
TypeOK ==
    /\ request \in [Requests -> RequestRows]
    /\ window \in WindowRows
    /\ leaveDays \in [Dates -> SUBSET Requests]
    /\ pc \in [Sessions -> {"idle", "locking", "metering", "opening", "writing"}]
    /\ row \in [Sessions -> RequestRows]
    /\ win \in [Sessions -> WindowRows]
    /\ held \in [Sessions -> SUBSET {"instance", "request", "window"}]

\* The days of the requests with a status, each named by its request and its number.
Charged(status) ==
    UNION {{r} \X (1..request[r].days) : r \in {q \in Requests : request[q].status = status}}

DaysOf(status) == Cardinality(Charged(status))

\* LQ-2, LQ-3: the used days are those of the approved requests, whatever approvals,
\* cancellations and shortenings ran at the same time.
UsedMatchesApproved == window.used = DaysOf("APPROVED")

\* LQ-12: no reservation outlives its request: what is held is held for requests that
\* are still pending.
NoLeakedHold == window.pending <= DaysOf("PENDING")

\* LQ-5: a submission or an approval never takes days the window does not have, even
\* when several are served at once or the window is opened meanwhile.
MeterRespectsCap ==
    [][\A r \in Requests :
          /\ request'[r].status # request[r].status
          /\ request'[r].status \in {"PENDING", "APPROVED"}
          => \/ window'.used + window'.pending <= window.used + window.pending
             \/ window'.used + window'.pending <= window'.entitled]_vars

\* INV-2: a request and its approval instance agree: a pending one has a live chain,
\* an approved or rejected one had exactly that decision, with its hook, and only
\* an approved one can be cancelled after its chain has ended.
StatusFollowsInstance ==
    \A r \in Requests :
        /\ request[r].status \in {"NONE", "DRAFT"} => chain[r] = Engine!Absent
        /\ request[r].status = "PENDING" => chain[r].status = "PENDING"
        /\ request[r].status = "APPROVED" => chain[r].status = "APPROVED"
        /\ chain[r].status = "APPROVED" => request[r].status \in {"APPROVED", "CANCELLED"}
        /\ chain[r].status = "REJECTED" <=> request[r].status = "REJECTED"
        /\ effect[r] = CASE chain[r].status = "APPROVED" -> <<"OnApproved">>
                         [] chain[r].status = "REJECTED" -> <<"OnRejected">>
                         [] OTHER                        -> <<>>

\* Leave keeps its side of the engine's contract: a request enters the engine once, and
\* its hooks run with the decision of an instance that is pending, whatever was submitted,
\* withdrawn or decided at the same time.
KeepsContract == Engine!Spec

\* INV-3: every day of an approved leave is marked, so that no absence is recorded,
\* also when an overlapping leave slipped past the check of LR-5 and was cancelled.
LeaveDaysMarked ==
    \A r \in Requests :
        request[r].status = "APPROVED" =>
            \A d \in request[r].first..request[r].last : leaveDays[d] # {}

\* Every request is answered: no lock is leaked and the locks are taken in one order.
EveryCallAnswered == \A s \in Sessions : pc[s] # "idle" ~> pc[s] = "idle"

-----------------------------------------------------------------------------
(* What the documents say and the code does not do.                        *)

\* FEATURE.md INV-6, prds/leave-quota-balances.md LQ-5: the remaining days of an open
\* window are never negative.
NeverNegative == window.used + window.pending <= window.entitled

\* prds/approval-execution.md C-1 (E11): when the requester withdraws a pending leave
\* its approval instance is closed.
WithdrawalClosesChain ==
    \A r \in Requests : request[r].status = "CANCELLED" => chain[r].status # "PENDING"
=============================================================================
