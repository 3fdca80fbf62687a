----------------------------- MODULE RequestCatalog -----------------------------
(***************************************************************************)
(* The offers around requests and payroll, in the form of ActionCatalog:   *)
(* decisions on approvals, leave, attendance, overtime, corrections, the   *)
(* month-end, an employee's own pages, and the phone.                      *)
(***************************************************************************)
EXTENDS ActionCatalog

-----------------------------------------------------------------------------
(* Approvals *)

\* The detail page shows the buttons to whoever may open it; the inbox and the phone list
\* only what waits for the user.
Viewers == For({"pending"}, Deciders)
\* A refusal for a state that has moved on reads the instance again.
ApproveButton == [Press EXCEPT !.heals = TRUE]
ApproveItem == Offer("approve", Item, ApproveLine, Viewers, ApproveButton)
RejectModal == [Form({"reason"}, {"reason"}) EXCEPT !.heals = TRUE]
RejectItem == Offer("reject", Item, RejectLine, Viewers, RejectModal)
InboxRow == For({"pending"}, {"approver"})
InboxReject == [RejectModal EXCEPT !.stays = FALSE]
ApproveInboxItem == Offer("approve in the inbox", Item, ApproveLine, InboxRow, ApproveButton)
RejectInboxItem == Offer("reject in the inbox", Item, RejectLine, InboxRow, InboxReject)
BypassShownHR == For({"pending"}, HR)
BypassShown == For({"pending"}, {"super_admin"})
BypassModalStale == Form({"reason"}, {"reason"})
BypassModal == [Form({"reason"}, {"reason"}) EXCEPT !.heals = TRUE]
BypassItem == Offer("bypass", Item, Bypass, BypassShown, BypassModal)
\* The editor saves all lines, whether the company has a template yet or not; its dialogs
\* close on any answer.
TemplateEditor == [Confirm EXCEPT !.stays = FALSE]
SaveTemplate == Offer("save template", New, PutTemplate, For(New, HR), TemplateEditor)
TemplateCard == For({"unused", "used"}, HR)
DeleteTemplateDialog == [Confirm EXCEPT !.stays = FALSE]
DropTemplate == Offer("delete template", Template, DeleteTemplate, TemplateCard, DeleteTemplateDialog)

-----------------------------------------------------------------------------
(* Leave *)

\* Only a member of the line that is due, or a super admin, may act here.
CanActOnLine == For({"pending"}, {"approver"})
LeaveActions == [Press EXCEPT !.heals = TRUE]
ApproveLeave == Offer("approve leave", Item, ApproveLine, CanActOnLine, LeaveActions)
RejectLeaveModal == [Form({"reason"}, {"reason"}) EXCEPT !.heals = TRUE, !.stays = FALSE]
RejectLeave == Offer("reject leave", Item, RejectLine, CanActOnLine, RejectLeaveModal)
PayableDays == For({"approved"}, HR \cup {"shift_leader"})
PayableSwitch == Press
FlagDay == Offer("flag day payable", Requests, SetDayPayable, PayableDays, PayableSwitch)
QuotaAsks  == {"employee", "type", "delta", "reason"}
QuotaModal == Form(QuotaAsks, QuotaAsks)
QuotaRow   == For({"present"}, HR)
Adjust == Offer("adjust quota", {"present"}, AdjustQuota, QuotaRow, QuotaModal)
EntitlementList == For({"active"}, HR)
AddEntitlementModal == Form({"type", "entitled_days", "note"}, {"type"})
AddEntitlement == Offer("add entitlement", Enabled, AssignEntitlement, For({"inactive"}, HR),
                        AddEntitlementModal)
\* The Enter key saves whether a save is pending or not.
EntitlementEdit == [Form({"entitled_days"}, {}) EXCEPT !.guard = FALSE]
EditEntitlement == Offer("edit entitlement", Enabled, UpdateEntitlement, EntitlementList, EntitlementEdit)
EntitlementRemove == Confirm
DropEntitlement == Offer("remove entitlement", Enabled, RemoveEntitlement, EntitlementList, EntitlementRemove)

-----------------------------------------------------------------------------
(* Attendance *)

\* The page hides the buttons from the leader whose own record it is; the queue and the
\* phone do not.
ToVerify  == For({"pending", "disputed"}, Leaders)
QueueRow  == For({"pending", "disputed"}, Leaders \cup {"owner"})
PhoneItem == For({"pending", "disputed"}, {"shift_leader", "owner"})
VerifyDialog == Confirm
Verify == Offer("verify attendance", Record, VerifyAttendance, ToVerify, VerifyDialog)
\* A record without its times is given them.
TimesDialog == Form({"check_in", "check_out"}, {"check_in"})
VerifyTimes == Offer("verify attendance with times", Record, VerifyAttendance, ToVerify, TimesDialog)
RejectAsks == {"reason", "five letters of it"}
RejectDialog == Form(RejectAsks, RejectAsks)
Reject == Offer("reject attendance", Record, RejectAttendance, ToVerify, RejectDialog)
QueueVerifyDialog == Confirm
QueueVerify == Offer("verify attendance in the queue", Record, VerifyAttendance, QueueRow, QueueVerifyDialog)
QueueRejectDialog == Form(RejectAsks, RejectAsks)
QueueReject == Offer("reject attendance in the queue", Record, RejectAttendance, QueueRow, QueueRejectDialog)
\* The button of the phone's sheet is never disabled; three letters are enough for it.
DetailSheet == [Confirm EXCEPT !.guard = FALSE]
PhoneVerify == Offer("verify attendance on the phone", Record, VerifyAttendance, PhoneItem, DetailSheet)
RejectSheet == Form(RejectAsks, {"reason"})
PhoneRefuse == Offer("reject attendance on the phone", Record, RejectAttendance, PhoneItem, RejectSheet)
\* The note is emptied as it is sent, and the record read again when it is closed.
ActivityPanel == [Form({"note"}, {"note"}) EXCEPT !.stays = FALSE, !.heals = TRUE]
Log == Offer("log activity", Presence, LogActivity, For({"open"}, {"agent"}), ActivityPanel)
PhoneActivityRow == Form({"note"}, {"note"})
PhoneLog == Offer("log activity on the phone", Presence, LogActivity,
                  For({"open"}, {"agent", "shift_leader"}), PhoneActivityRow)
ActivityList == Press
DropLogged == Offer("drop activity", Activity, DropActivity, For({"there"}, {"agent"}), ActivityList)
PhoneActivityList == Press
PhoneDropLogged == Offer("drop activity on the phone", Activity, DropActivity,
                         For({"there"}, {"agent", "shift_leader"}), PhoneActivityList)

-----------------------------------------------------------------------------
(* Overtime and holidays *)

OvertimeHead == For({"pending"}, Deciders)
OvertimeActions == [Press EXCEPT !.heals = TRUE]
ApproveOvertime == Offer("approve overtime", Item, ApproveLine, OvertimeHead, OvertimeActions)
RejectOvertimeModal == [Form({"reason"}, {"reason"}) EXCEPT !.heals = TRUE, !.stays = FALSE]
RejectOvertime == Offer("reject overtime", Item, RejectLine, OvertimeHead, RejectOvertimeModal)
\* An agent may take back what still waits for the agent's own confirmation, too.
CanWithdraw == For({"confirming", "pending"}, {"agent"})
WithdrawModal == Confirm
Withdraw == Offer("withdraw overtime", Overtime, WithdrawOvertime, CanWithdraw, WithdrawModal)
CanConfirm == For({"confirming"}, {"agent"})
ConfirmModal == Confirm
ConfirmOvertime == Offer("confirm overtime", Overtime, Unrouted(Overtime), CanConfirm, ConfirmModal)
HolidayAsks   == {"name", "date", "category"}
HolidayFields == HolidayAsks \cup {"recurring"}
HolidayTable  == For(Enabled, HR)
HolidayModal  == Form(HolidayFields, HolidayAsks)
NewHoliday == Offer("new holiday", New, CreateHoliday, For({"absent"}, HR), HolidayModal)
EditHoliday == Offer("edit holiday", Enabled, UpdateHoliday, HolidayTable, HolidayModal)
\* A ticked day of the calendar; the dialog goes over to its result, whatever it is.
ImportModal == [Form(HolidayFields, HolidayFields) EXCEPT !.stays = FALSE, !.heals = TRUE]
ImportHoliday == Offer("import holidays", New, CreateHoliday, For({"absent"}, HR), ImportModal)
DeleteHolidayConfirm == Confirm
DropHoliday == Offer("delete holiday", Enabled, DeleteHoliday, HolidayTable, DeleteHolidayConfirm)

-----------------------------------------------------------------------------
(* An employee's own requests *)

Self == For({"absent"}, {"agent"})
LeaveAsks == {"type", "start_date", "end_date", "reason"}
LeaveModal == Form(LeaveAsks, LeaveAsks)
NewLeave == Offer("request leave", New, CreateLeave, Self, LeaveModal)
OvertimeAsks == {"date", "start", "end", "reason"}
OvertimeModal == Form(OvertimeAsks, OvertimeAsks)
NewOvertime == Offer("request overtime", New, CreateOvertime, Self, OvertimeModal)
TimeAsks == {"time", "reason"}
CorrectionModal == Form(TimeAsks, TimeAsks)
NewCorrection == Offer("correct a time", New, CreateCorrection({"time"}), Self, CorrectionModal)
EntryAsks == {"work_date", "check_in", "reason"}
NewEntryModal == Form(EntryAsks \cup {"check_out"}, EntryAsks)
NewEntry == Offer("correct a missing day", New, CreateCorrection({"work_date", "check_in"}), Self, NewEntryModal)
LeaveStatusModal == For({"pending"}, {"agent"})
WithdrawLeaveButton == Press
WithdrawLeave == Offer("withdraw leave", Requests, CancelLeave, LeaveStatusModal, WithdrawLeaveButton)
CorrectionStatusModal == For({"pending"}, {"agent"})
WithdrawCorrectionButton == Press
WithdrawCorrection == Offer("withdraw correction", Requests, CancelCorrection, CorrectionStatusModal,
                            WithdrawCorrectionButton)
OvertimeList == For({"confirming", "pending"}, {"agent"})
OvertimeListButtons == Press
WithdrawFromList == Offer("withdraw overtime from the list", Overtime, WithdrawOvertime, OvertimeList,
                          OvertimeListButtons)
ConfirmFromList == Offer("confirm overtime from the list", Overtime, Unrouted(Overtime), CanConfirm,
                         OvertimeListButtons)
PhoneProfileFields == {"phone", "address", "language", "emergency", "bank"}
ProfileFields == PhoneProfileFields \cup {"photo"}
\* Only what was changed is sent, pairs of fields together, an emptied field like any other.
ProfileModal == Form(ProfileFields, {})
ProfileHead  == For({"present"}, {"agent"})
EditProfile == Offer("edit own profile", {"present"}, UpdateMyProfile, ProfileHead, ProfileModal)
PasswordForm == Form({"new_password"}, {"new_password"})
ChangePassword == Offer("change password", {"present"}, ChangeOwnPassword,
                        For({"present"}, Everyone), PasswordForm)

-----------------------------------------------------------------------------
(* The month-end, notifications, exports *)

PeriodHead == For({"open"}, HR)
LockDialog == Confirm
Lock == Offer("lock period", Period, LockPeriod, PeriodHead, LockDialog)
ForceLock == Offer("force lock period", Period, ForceLockPeriod, For({"blocked"}, {"super_admin"}),
                   Form({"reason"}, {"reason"}))
ReopenDialogFree == Form({"reason"}, {})
ReopenDialog == Form({"reason"}, {"reason"})
Reopen == Offer("reopen period", Period, ReopenPeriod, For({"locked"}, {"super_admin"}), ReopenDialog)
BlockedRow == For({"present"}, HR)
ClarificationDialog == Form({"question"}, {"question"})
Clarify == Offer("raise clarification", {"present"}, RaiseClarification, BlockedRow, ClarificationDialog)
ManageClarification == Confirm
Resolve == Offer("resolve clarification", Clarification, CloseClarification,
                 For({"open", "answered"}, HR), ManageClarification)
AppendNoteForm == Form({"text"}, {"text"})
AuditNoteDrawer == For({"present"}, HR)
AppendNote == Offer("append audit note", {"present"}, CreateAuditNote, AuditNoteDrawer, AppendNoteForm)
UnreadCard == For({"unread"}, Leaders)
\* A card that is being marked counts as read.
MarkReadCard == Press
ReadOne == Offer("mark read", Notification, MarkRead, UnreadCard, MarkReadCard)
ExportButton == Press
Export == Offer("export report", {"present"}, CreateExport, For({"present"}, Leaders), ExportButton)

-----------------------------------------------------------------------------
(* The phone *)

\* The tab for the status asks for no status; the server wants the code it is to be.
StatusForm == Form({"reason"}, {"reason"})
PhoneStatus == Offer("correct a status on the phone", New, CreateCorrection({"attendance_code_id"}),
                     Self, StatusForm)
PhoneTimeForm == Form(TimeAsks, TimeAsks)
PhoneCorrection == Offer("correct a time on the phone", New, CreateCorrection({"time"}), Self, PhoneTimeForm)
PhoneEntryForm == Form(EntryAsks \cup {"check_out"}, EntryAsks)
PhoneEntry == Offer("correct a missing day on the phone", New,
                    CreateCorrection({"work_date", "check_in"}), Self, PhoneEntryForm)
PhoneLeaveForm == Form(LeaveAsks, LeaveAsks)
PhoneLeave == Offer("request leave on the phone", New, CreateLeave, Self, PhoneLeaveForm)
PhoneOvertimeForm == Form(OvertimeAsks, OvertimeAsks)
PhoneOvertime == Offer("request overtime on the phone", New, CreateOvertime, Self, PhoneOvertimeForm)
PhoneWithdrawButton == Press
PhoneWithdraw == Offer("withdraw correction on the phone", Requests, CancelCorrection,
                       For({"pending"}, {"agent"}), PhoneWithdrawButton)
\* The buttons of the phone's list are never disabled.
PhoneOvertimeRow == For({"confirming", "pending"}, {"agent", "shift_leader"})
PhoneOvertimeButton == [Press EXCEPT !.guard = FALSE]
PhoneWithdrawOvertime == Offer("withdraw overtime on the phone", Overtime, WithdrawOvertime,
                               PhoneOvertimeRow, PhoneOvertimeButton)
PhoneConfirmOvertime == Offer("confirm overtime on the phone", Overtime, Unrouted(Overtime),
                              For({"confirming"}, {"agent", "shift_leader"}), PhoneOvertimeButton)
CanAnswer == For({"open"}, {"agent", "shift_leader"})
AnswerForm == Form({"answer"}, {"answer"})
Answer == Offer("answer clarification", Clarification, AnswerClarification, CanAnswer, AnswerForm)
PhoneProfileForm == Form(PhoneProfileFields, {})
PhoneProfile == Offer("edit own profile on the phone", {"present"}, UpdateMyProfile,
                      For({"present"}, {"agent", "shift_leader"}), PhoneProfileForm)
\* The sheet closes on any answer, after the list is read again.
DecisionSheet == [Form({"reason"}, {"reason"}) EXCEPT !.heals = TRUE, !.stays = FALSE]
ApprovalSheet == [Form({"note"}, {}) EXCEPT !.heals = TRUE, !.stays = FALSE]
PhoneApprove == Offer("approve on the phone", Item, ApproveLine, InboxRow, ApprovalSheet)
PhoneReject == Offer("reject on the phone", Item, RejectLine, InboxRow, DecisionSheet)

RequestOffers == {
    ApproveItem, RejectItem, ApproveInboxItem, RejectInboxItem,
    BypassItem, SaveTemplate, DropTemplate,
    ApproveLeave, RejectLeave, FlagDay, Adjust, AddEntitlement, EditEntitlement, DropEntitlement,
    Verify, VerifyTimes, Reject, QueueVerify, QueueReject, PhoneVerify, PhoneRefuse,
    Log, PhoneLog, DropLogged, PhoneDropLogged, ImportHoliday, ChangePassword,
    PhoneWithdrawOvertime, PhoneConfirmOvertime,
    ApproveOvertime, RejectOvertime, Withdraw, ConfirmOvertime, NewHoliday, EditHoliday, DropHoliday,
    NewLeave, NewOvertime, NewCorrection, NewEntry, WithdrawLeave, WithdrawCorrection,
    WithdrawFromList, ConfirmFromList, EditProfile,
    Lock, ForceLock, Reopen, Clarify, Resolve, AppendNote, ReadOne, Export,
    PhoneStatus, PhoneCorrection, PhoneEntry, PhoneLeave, PhoneOvertime, PhoneWithdraw, Answer, PhoneProfile,
    PhoneApprove, PhoneReject}
AllOffers == ConsoleOffers \cup RequestOffers
=============================================================================
