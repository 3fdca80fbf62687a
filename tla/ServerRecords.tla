----------------------------- MODULE ServerRecords -----------------------------
(***************************************************************************)
(* The operations of the server on one record, as data for RecordActions:  *)
(* the statuses an operation starts from and ends in, the roles its route  *)
(* admits, the fields it needs, takes only together, or takes and does not *)
(* store, whether the status is checked on the row that is locked for the  *)
(* write or on a copy read before, and whether each call adds something.   *)
(* A condition beside the status is folded into it: an "occupied" company  *)
(* has active placements.                                                  *)
(***************************************************************************)
EXTENDS Integers

HR       == {"super_admin", "hr_admin"}
Leaders  == HR \cup {"shift_leader", "lead"}
Clerks   == HR \cup {"shift_leader", "agent"}
Everyone == Leaders \cup {"agent"}

\* A record still to be made, and made.
New == {"absent", "present"}

\* Checked on a copy; the write goes through from any of the statuses in writes.
Op(from, writes, to, roles) == [from |-> from, writes |-> writes, to |-> to, roles |-> roles,
                                needs |-> {}, pairs |-> {}, ignores |-> {}, adds |-> FALSE]
\* The console calls it, no route serves it.
Unrouted(kind) == Op(kind, kind, {}, {})
\* Checked and written under one row lock, or by a statement that asks for the status.
LockedOp(from, to, roles) == Op(from, from, to, roles)
Needing(op, needs) == [op EXCEPT !.needs = needs]
\* Taken and not stored.
Ignoring(op, fields) == [op EXCEPT !.ignores = fields]
\* Two fields that are taken only together, each with the other.
Together(f, g) == {<<f, g>>, <<g, f>>}
\* What is created is unique and checked as it is written.
Make(roles, needs) == Needing(LockedOp({"absent"}, {"present"}, roles), needs)
\* Looked up on a copy: two calls at once may each add one.
MakeOnCopy(roles, needs) == [Needing(Op({"absent"}, New, {"present"}, roles), needs) EXCEPT !.adds = TRUE]
\* Overwrites fields, or adds something each time, and leaves the status alone.
Set(from, roles) == Op(from, from, {}, roles)
Add(from, roles) == [Set(from, roles) EXCEPT !.adds = TRUE]

-----------------------------------------------------------------------------
(* People *)

Employee == {"active", "inactive"}
DeactivateEmployee == Needing(Op({"active"}, Employee, {"inactive"}, HR), {"reason"})
ReactivateEmployee == Op({"inactive"}, Employee, {"active"}, HR)
UpdateEmployee     == Set(Employee, HR)

\* The NIK, phone and e-mail are unique.
CreateEmployee == Make(HR, {"full_name", "nik", "join_at", "position", "phone"})

Agreement == {"active", "expiring", "closed", "superseded"}
Running == {"active", "expiring"}
\* An index allows an employee one active agreement: it stops a second renewal, not the
\* renewal of one that was closed meanwhile.
RenewAgreement ==
    Ignoring(Needing(Op(Running, Running \cup {"closed"}, {"superseded"}, HR),
                     {"type", "start_date", "end_date"}), {"note"})
\* The agreement is closed as of now, whatever date is given.
CloseAgreement ==
    Ignoring(Needing(Op(Running, Agreement, {"closed"}, HR), {"reason", "effective_date"}),
             {"effective_date"})
CreateAgreement == Make(HR, {"employee", "type", "start_date", "end_date"})

-----------------------------------------------------------------------------
(* The organisation and its master data *)

\* "occupied": active, with placements that run.
Company == {"active", "occupied", "inactive"}
CreateCompany     == Make(HR, {"name", "address"})
UpdateCompany     == Set(Company, HR)
DeactivateCompany == Op({"active"}, Company, {"inactive"}, HR)
ReactivateCompany == Op({"inactive"}, Company, {"active"}, HR)

\* The name of a site is unique in its company; a code is unique among the master data.
CreateSite == Make(HR, {"name", "address"})
Enabled == {"active", "inactive"}
UpdateSite == Set(Enabled, HR)

CreateLeaveType      == Make(HR, {"name", "code"})
UpdateLeaveType      == Set(Enabled, HR)
CreateAttendanceCode == Make(HR, {"code", "label"})
UpdateAttendanceCode == Set(Enabled, HR)
\* The row is hidden, whatever its status.
DeleteAttendanceCode == LockedOp(Enabled, {"inactive"}, HR)

-----------------------------------------------------------------------------
(* Users *)

User == {"enabled", "disabled"}
ChangeUserRole == Needing(Set(User, HR), {"new_role"})
\* The route takes an e-mail and nothing else.
UpdateUser     == Ignoring(Needing(Set(User, HR), {"email"}), {"phone"})
SendUserPasswordReset == Add(User, HR)
DeactivateUser == Op({"enabled"}, User, {"disabled"}, HR)
ReactivateUser == Op({"disabled"}, User, {"enabled"}, HR)

-----------------------------------------------------------------------------
(* Placements and shift leaders *)

Placers == HR \cup {"lead"}
\* "awaiting": it runs without an agreement.
Placement == {"pending", "active", "awaiting", "ended"}
Lasting   == Placement \ {"ended"}
\* The start is today.
CreatePlacement == Make(Placers, {"employee", "company", "site"})
TransferPlacement == Needing(Op(Lasting, Placement, {"ended"}, Placers), {"company", "transfer_reason"})
\* An ended placement stays ended when the agreement is written to it.
SetAgreement == [Needing(Set(Lasting, HR), {"agreement"}) EXCEPT !.writes = Placement]

Seat == {"vacant", "led"}
Leadership == {"leading", "over"}
\* One leader to a company, one company to a leader: under the locks of both.  A start
\* date is asked for, and the leadership begins now.
AssignLeader  == Ignoring(Needing(LockedOp({"vacant"}, {"led"}, HR), {"employee", "start_date"}),
                          {"start_date"})
ReplaceLeader ==
    Ignoring(Needing(Op({"leading"}, Leadership, {"over"}, HR), {"employee", "start_date"}),
             {"start_date", "replace_reason"})
EndLeader     == Op({"leading"}, Leadership, {"over"}, HR)

-----------------------------------------------------------------------------
(* Shifts and schedules *)

\* A break has a beginning and an end, or neither.
Break == Together("break_start", "break_end")
CreateShiftMaster == [Make(HR, {"name", "start_time", "end_time"}) EXCEPT !.pairs = Break]
UpdateShiftMaster == [Set(Enabled, HR) EXCEPT !.pairs = Break]
DeactivateShiftMaster == LockedOp({"active"}, {"inactive"}, HR)
ReactivateShiftMaster == LockedOp({"inactive"}, {"active"}, HR)

\* One day of one employee.
Day == {"empty", "shift", "off"}
Entry == {"shift", "off"}
\* Over whatever is there (force_replace, override_existing); or only on a day that is free.
ReplaceDay  == Op(Day, Day, {"shift"}, Leaders)
UpdateEntry(to) == Op(Entry, Entry, {to}, Leaders)
TakeDayOff  == LockedOp({"empty"}, {"off"}, Leaders)
DeleteEntry == LockedOp(Entry, {"empty"}, Leaders)
BulkApply   == Needing(ReplaceDay, {"shift", "start_date", "end_date"})

-----------------------------------------------------------------------------
(* Leave, quotas and entitlements *)

\* A decision is for the members of the line that is due and for super admins.
Deciders == {"approver", "bystander"}
Item == {"pending", "decided"}
ApproveLine == LockedOp({"pending"}, Item, {"approver"})
RejectLine  == Needing(LockedOp({"pending"}, {"decided"}, {"approver"}), {"reason"})
Bypass      == Needing(LockedOp({"pending"}, {"decided"}, {"super_admin"}), {"reason"})
\* "used": an instance refers to it; such a template stays.
Template == {"none", "unused", "used"}
\* Makes the company's template or replaces its lines.
PutTemplate    == Op(New, New, {"present"}, HR)
DeleteTemplate == LockedOp({"unused"}, {"none"}, HR)

Requests == {"pending", "approved", "over"}
\* The overlap is looked up before the transaction.
CreateLeave == MakeOnCopy(HR \cup {"agent"}, {"type", "start_date", "end_date", "reason"})
CancelLeaveOnCopy == Op({"pending"}, Requests, {"over"}, HR \cup {"agent"})
CancelLeave == LockedOp({"pending"}, {"over"}, HR \cup {"agent"})
\* The approval is checked on a copy.
SetDayPayable == Op({"approved"}, Requests, {}, HR \cup {"shift_leader"})
AdjustQuota   == Needing(Add({"present"}, HR), {"reason"})
AssignEntitlement == [Needing(Set(Enabled, HR), {"type"}) EXCEPT !.to = {"active"}]
\* Editing a removed entitlement brings it back.
UpdateEntitlement == [Set(Enabled, HR) EXCEPT !.to = {"active"}]
RemoveEntitlement == LockedOp({"active"}, {"inactive"}, HR)

-----------------------------------------------------------------------------
(* Attendance *)

\* "disputed": a correction of it is open, which a verification has to rule on, and no
\* client sends a ruling; the open correction is looked up outside the transaction.  The
\* owner of a record, a leader too, does not decide on it.
Record == {"pending", "disputed", "decided"}
VerifyAttendance == Op({"pending"}, {"pending", "disputed"}, {"decided"}, Leaders)
RejectAttendance == Needing(LockedOp({"pending", "disputed"}, {"decided"}, Leaders),
                            {"reason", "five letters of it"})
\* The agent's own record is open until it is clocked out; looked up on a copy.
Presence == {"open", "closed"}
LogActivity == [Needing(Add({"open"}, Everyone), {"note"}) EXCEPT !.writes = Presence]
\* An activity of an open record, of one that is closed, and a deleted one.
Activity == {"there", "closed", "gone"}
DropActivity == Op({"there"}, {"there", "closed"}, {"gone"}, Everyone)

-----------------------------------------------------------------------------
(* Overtime, holidays and corrections *)

\* "confirming": seeded, for the agent to confirm; no operation makes one.
Overtime == {"confirming", "pending", "over"}
CreateOvertime   == MakeOnCopy(Clerks, {"date", "start", "end", "reason"})
WithdrawOvertime == LockedOp({"pending"}, {"over"}, Clerks)
CreateHoliday == Make(HR, {"name", "date", "category"})
UpdateHoliday == Set(Enabled, HR)
\* "inactive": overtime on it counts; looked up before the deletion.
DeleteHoliday == Op({"active"}, Enabled, {"inactive"}, HR)

\* The open correction of a record, or the record of a day, is looked up on a copy.
CreateCorrection(needs) == MakeOnCopy(Clerks, {"reason"} \cup needs)
CancelCorrection == LockedOp({"pending"}, {"over"}, Clerks)

-----------------------------------------------------------------------------
(* Payroll, profile, notifications, exports *)

Period == {"open", "blocked", "locked"}
LockPeriod      == LockedOp({"open"}, {"locked"}, HR)
ForceLockPeriod == Needing(LockedOp({"open", "blocked"}, {"locked"}, {"super_admin"}), {"reason"})
ReopenPeriod    == Needing(LockedOp({"locked"}, {"open"}, {"super_admin"}), {"reason"})
Clarification == {"open", "answered", "closed"}
RaiseClarification   == Needing(Add({"present"}, HR), {"question"})
AnswerClarification  == Needing(LockedOp({"open"}, {"answered"}, Everyone), {"answer"})
CloseClarification   == LockedOp({"open", "answered"}, {"closed"}, HR)
CreateAuditNote == Needing(Add({"present"}, HR), {"text"})

\* An emptied phone number is refused.
UpdateMyProfile == Needing(Set({"present"}, Everyone), {"phone"})
ChangeOwnPassword == Needing(Set({"present"}, Everyone), {"new_password"})
Notification == {"unread", "read"}
MarkRead     == Op(Notification, Notification, {"read"}, Everyone)
CreateExport == Add({"present"}, Leaders)
=============================================================================
