----------------------------- MODULE ActionCatalog -----------------------------
(***************************************************************************)
(* The offers of the console and of the phone, as data for the machine of  *)
(* RecordActions.  An offer is described by what its code does in up to    *)
(* three places:                                                           *)
(*   Shown   the statuses of the record, and the roles, for which the page *)
(*           shows the button                                              *)
(*   Fields  the inputs of the form                                        *)
(*   Dialog  what the button or the dialog does: whether there is one, the *)
(*           fields it insists on and sends, and those it sends only with  *)
(*           another; whether it is disabled while its request is pending, *)
(*           stays open after a refusal, or reads the record again after   *)
(*           one                                                           *)
(* Which list shows the record is in ListCatalog.  Optional fields that    *)
(* are treated alike are one field; "an emptied one" is an optional field  *)
(* of an edited record that the user clears.                               *)
(***************************************************************************)
EXTENDS ServerRecords

For(statuses, roles) == [shown |-> statuses, roles |-> roles]

\* A dialog that asks nothing.
Confirm == [dialog |-> TRUE, fields |-> {}, asks |-> {}, sends |-> {}, pairs |-> {},
            guard |-> TRUE, stays |-> TRUE, heals |-> FALSE]
\* A form over the fields, of which some must be filled.
Form(fields, asks) == [Confirm EXCEPT !.fields = fields, !.asks = asks, !.sends = fields]
\* A form over a record that exists: a field that is emptied is left out of the request.
EditForm(fields, asks) == [Form(fields \cup {"an emptied one"}, asks) EXCEPT !.sends = fields]
\* Of each pair <<f, g>>, f goes only where g is filled in.
OnlyWith(form, pairs) == [form EXCEPT !.pairs = pairs]
\* A button without a dialog.
Press == [Confirm EXCEPT !.dialog = FALSE]

Offer(name, kind, op, for, dialog) ==
    [name |-> name, kind |-> kind, op |-> op, shown |-> for.shown, roles |-> for.roles,
     dialog |-> dialog.dialog, fields |-> dialog.fields, asks |-> dialog.asks,
     sends |-> dialog.sends, pairs |-> dialog.pairs, guard |-> dialog.guard,
     stays |-> dialog.stays, heals |-> dialog.heals]

-----------------------------------------------------------------------------
(* Employees and agreements *)

\* The row menu, the columns of the list and the head of the detail page.
EmployeeMenu    == For(Employee, HR)
OffboardShown   == For({"active"}, HR)
\* A termination, or another reason, needs the note too.
OffboardDialog  == Form({"reason", "note"}, {"reason"})
Offboard == Offer("offboard employee", Employee, DeactivateEmployee, OffboardShown, OffboardDialog)
ReactivateEmployeeDialog == Confirm
Reactivate == Offer("reactivate employee", Employee, ReactivateEmployee,
                    For({"inactive"}, HR), ReactivateEmployeeDialog)

EmployeeAsks   == {"full_name", "nik", "position", "join_at", "phone"}
EmployeeFields == EmployeeAsks \cup {"address", "bank_account", "account_holder"}
\* The account goes with its bank or its number, not with the name of its holder alone.
HolderAlone    == {<<"account_holder", "bank_account">>}
CreateEmployeeForm == OnlyWith(Form(EmployeeFields \cup {"login_email"}, EmployeeAsks), HolderAlone)
NewEmployee == Offer("new employee", New, CreateEmployee, For({"absent"}, HR), CreateEmployeeForm)
EditEmployeeForm == OnlyWith(EditForm(EmployeeFields, EmployeeAsks), HolderAlone)
EditEmployee == Offer("edit employee", Employee, UpdateEmployee, EmployeeMenu, EditEmployeeForm)

AgreementShown == For(Running, HR)
RenewDrawer == Form({"type", "start_date", "end_date", "agreement_no", "note"},
                    {"type", "start_date", "end_date"})
Renew == Offer("renew agreement", Agreement, RenewAgreement, AgreementShown, RenewDrawer)
CloseDrawer == Form({"reason", "effective_date", "note"}, {"reason", "effective_date"})
Close == Offer("close agreement", Agreement, CloseAgreement, AgreementShown, CloseDrawer)
AgreementAsks   == {"employee", "type", "start_date", "end_date"}
AgreementFields == AgreementAsks \cup {"agreement_no", "base_salary", "effective_date"}
AgreementForm   == OnlyWith(Form(AgreementFields, AgreementAsks), {<<"effective_date", "base_salary">>})
NewAgreement == Offer("new agreement", New, CreateAgreement, For({"absent"}, HR), AgreementForm)

-----------------------------------------------------------------------------
(* Companies, sites and master data *)

\* A company with placements is offered for deactivation like any other.
CompanyRow == For({"active", "occupied"}, HR)
\* The dialog closes on a refusal.
DeactivateCompanyDialog == [Confirm EXCEPT !.stays = FALSE]
CompanyOff == Offer("deactivate company", Company, DeactivateCompany, CompanyRow, DeactivateCompanyDialog)
ReactivateCompanyDialog == [Confirm EXCEPT !.stays = FALSE]
CompanyOn == Offer("reactivate company", Company, ReactivateCompany, For({"inactive"}, HR),
                   ReactivateCompanyDialog)
CompanyAsks   == {"name", "address"}
CompanyFields == CompanyAsks \cup {"npwp", "pic", "leader_scope"}
CreateCompanyFormSilent == [Form(CompanyFields, CompanyAsks) EXCEPT !.sends = @ \ {"leader_scope"}]
CreateCompanyForm == Form(CompanyFields, CompanyAsks)
NewCompany == Offer("new company", New, CreateCompany, For({"absent"}, HR), CreateCompanyForm)
EditCompanyForm == EditForm(CompanyFields, CompanyAsks)
CompanyHead == For(Company, HR)
EditCompany == Offer("edit company", Company, UpdateCompany, CompanyHead, EditCompanyForm)

SiteAsks   == {"name", "address"}
SiteFields == SiteAsks \cup {"pic", "latitude", "longitude", "geofence_radius", "primary"}
Location   == Together("latitude", "longitude")
SiteDrawer == OnlyWith(Form(SiteFields, SiteAsks), Location)
NewSite == Offer("new site", New, CreateSite, For({"absent"}, HR), SiteDrawer)
SitesPanel == For(Enabled, HR)
\* A cleared location or primary mark is not carried out.
EditSiteDrawer == OnlyWith(EditForm(SiteFields, SiteAsks), Location)
EditSite == Offer("edit site", Enabled, UpdateSite, SitesPanel, EditSiteDrawer)

\* The menu offers the deletion of inactive rows too; its dialog closes on any answer.
LeaveTypeMenu   == For(Enabled, HR)
LeaveTypeAsks   == {"name", "code"}
LeaveTypeFields == LeaveTypeAsks \cup {"default_annual_quota", "is_annual", "color"}
LeaveTypeModal  == Form(LeaveTypeFields, LeaveTypeAsks)
NewLeaveType == Offer("new leave type", New, CreateLeaveType, For({"absent"}, HR), LeaveTypeModal)
EditLeaveTypeModal == EditForm(LeaveTypeFields, LeaveTypeAsks)
EditLeaveType == Offer("edit leave type", Enabled, UpdateLeaveType, LeaveTypeMenu, EditLeaveTypeModal)
DeleteDialog == [Confirm EXCEPT !.stays = FALSE]
DropLeaveType == Offer("delete leave type", Enabled, Unrouted(Enabled), LeaveTypeMenu, DeleteDialog)

CodeMenu   == For(Enabled, HR)
CodeAsks   == {"code", "label", "color"}
CodeFields == CodeAsks \cup {"description", "is_workday"}
CodeModal  == Form(CodeFields, CodeAsks)
NewCode == Offer("new attendance code", New, CreateAttendanceCode, For({"absent"}, HR), CodeModal)
EditCodeModal == EditForm(CodeFields, CodeAsks)
EditCode == Offer("edit attendance code", Enabled, UpdateAttendanceCode, CodeMenu, EditCodeModal)
DropCode == Offer("delete attendance code", Enabled, DeleteAttendanceCode, CodeMenu, DeleteDialog)

-----------------------------------------------------------------------------
(* Users *)

UserMenu == For(User, HR)
ChangeRoleModal == Form({"new_role", "reason"}, {"new_role", "reason"})
ChangeRole == Offer("change role", User, ChangeUserRole, UserMenu, ChangeRoleModal)
EditUserDrawer == Form({"phone", "email"}, {"phone"})
EditUser == Offer("edit user", User, UpdateUser, UserMenu, EditUserDrawer)
SendResetModal == Confirm
SendReset == Offer("send password reset", User, SendUserPasswordReset, UserMenu, SendResetModal)
DeactivateUserModal == Confirm
UserOff == Offer("deactivate user", User, DeactivateUser, For({"enabled"}, HR), DeactivateUserModal)
ReactivateUserModal == Confirm
UserOn == Offer("reactivate user", User, ReactivateUser, For({"disabled"}, HR), ReactivateUserModal)

-----------------------------------------------------------------------------
(* Placements and shift leaders *)

PlacementAsks   == {"employee", "company", "site"}
PlacementFields == PlacementAsks \cup {"agreement", "notes"}
PlacementForm   == Form(PlacementFields, PlacementAsks)
NewPlacement == Offer("new placement", New, CreatePlacement, For({"absent"}, Placers), PlacementForm)
\* canShowActions leaves out a placement that has not begun.
TransferShown == For({"active", "awaiting"}, Placers)
TransferFields == {"company", "transfer_reason"}
TransferModal == Form(TransferFields, TransferFields)
Transfer == Offer("transfer placement", Placement, TransferPlacement, TransferShown, TransferModal)
BackfillShown == For({"awaiting"}, Placers)
BackfillModal == Form({"agreement"}, {"agreement"})
Backfill == Offer("add agreement", Placement, SetAgreement, BackfillShown, BackfillModal)
SeatShown    == For({"vacant"}, HR)
AssignModal  == Form({"employee", "start_date", "notes"}, {"employee", "start_date"})
AssignSeat   == Offer("assign leader", Seat, AssignLeader, SeatShown, AssignModal)
LeaderShown  == For({"leading"}, HR)
ReplaceFields == {"employee", "start_date", "replace_reason"}
ReplaceModal == Form(ReplaceFields, ReplaceFields)
ReplaceSeat  == Offer("replace leader", Leadership, ReplaceLeader, LeaderShown, ReplaceModal)
EndModal     == Confirm
EndSeat      == Offer("end leadership", Leadership, EndLeader, LeaderShown, EndModal)

-----------------------------------------------------------------------------
(* Shifts and schedules *)

\* Whoever may read the shifts is shown the buttons.
ShiftMenu   == For(Enabled, Leaders)
ShiftAsks   == {"name", "start_time", "end_time"}
ShiftFields == ShiftAsks \cup {"break_start", "break_end", "is_active"}
ShiftModal  == Form(ShiftFields, ShiftAsks)
NewShift == Offer("new shift", New, CreateShiftMaster, For({"absent"}, Leaders), ShiftModal)
EditShiftModal == EditForm(ShiftFields, ShiftAsks)
EditShift == Offer("edit shift", Enabled, UpdateShiftMaster, ShiftMenu, EditShiftModal)
ShiftConfirm == [Confirm EXCEPT !.stays = FALSE]
ShiftOff == Offer("deactivate shift", Enabled, DeactivateShiftMaster, For({"active"}, Leaders), ShiftConfirm)
ShiftOn  == Offer("reactivate shift", Enabled, ReactivateShiftMaster, For({"inactive"}, Leaders), ShiftConfirm)

\* The picker of a cell stays open until a call succeeds.
CellEmpty == For({"empty"}, Leaders)
CellTaken == For(Entry, Leaders)
\* An occupied day is replaced without a question.
ForceReplace == Confirm
AssignShift  == Offer("assign shift", Day, ReplaceDay, CellEmpty, ForceReplace)
ShiftPicker  == Confirm
ChangeShift  == Offer("change shift", Day, UpdateEntry("shift"), CellTaken, ShiftPicker)
MarkDayOff   == Confirm
DayOff       == Offer("mark day off", Day, TakeDayOff, CellEmpty, MarkDayOff)
DayOffInstead == Offer("day off instead", Day, UpdateEntry("off"), CellTaken, MarkDayOff)
ClearCell    == Confirm
Clear        == Offer("clear day", Day, DeleteEntry, CellTaken, ClearCell)
BulkAsks     == {"shift", "start_date", "end_date", "weekdays"}
BulkModal    == Form(BulkAsks \cup {"agent"}, BulkAsks)
BulkOverwrite == Offer("bulk apply over existing", Day, BulkApply, For(Day, Leaders), BulkModal)

ConsoleOffers == {
    Offboard, Reactivate, NewEmployee, EditEmployee, Renew, Close, NewAgreement,
    CompanyOff, CompanyOn, NewCompany, EditCompany, NewSite, EditSite,
    NewLeaveType, EditLeaveType, DropLeaveType, NewCode, EditCode, DropCode,
    ChangeRole, EditUser, SendReset, UserOff, UserOn,
    NewPlacement, Transfer, Backfill, AssignSeat, ReplaceSeat, EndSeat,
    NewShift, EditShift, ShiftOff, ShiftOn,
    AssignShift, ChangeShift, DayOff, DayOffInstead, Clear, BulkOverwrite}
=============================================================================
