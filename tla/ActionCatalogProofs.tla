--------------------------- MODULE ActionCatalogProofs ---------------------------
(***************************************************************************)
(* The offers of the console and of the phone obey the rules the theorems  *)
(* of RecordActionsProofs rest on, so that those hold of the clients as    *)
(* they are; and the exceptions named in RecordActions are exactly the     *)
(* offers that break a rule.                                               *)
(***************************************************************************)
EXTENDS RecordActionsProofs, RequestCatalog

-----------------------------------------------------------------------------
(* The rules, for one offer.                                               *)

\* What the page shows and the form asks against what the operation starts from, admits
\* and needs; what the form sends, and the operation stores, against what was entered.
Fits(o) ==
    /\ o.shown \subseteq o.kind /\ o.op.to \subseteq o.kind /\ o.asks \subseteq o.fields
    /\ o.name \in OfferedAnyway <=> ~(o.shown \subseteq o.op.from)
    /\ o.name \in NotServed <=> ~(o.roles \subseteq o.op.roles)
    /\ o.name \in Unasked <=> ~AsksEnough(o)
    /\ o.name \in Dropped <=> ~SendsAll(o) /\ o.op.needs \subseteq o.sends

\* What tells a repeated request from the first, and an overtaken one from one in time, and
\* the user who was overtaken where the item is now.
Tells(o) ==
    /\ {o.dialog, o.guard, o.op.adds} \subseteq BOOLEAN
    /\ o.name \in Repeats <=> ~(WriteTells(o) \/ CheckTells(o))
    /\ o.name \in CheckedEarly <=>
          \E s \in o.op.writes \ (o.op.from \cap o.shown) : ~(o.op.to \subseteq {s})
    /\ o.name \in LeftStale <=> "decided" \in o.kind /\ ~o.heals

Obeys(o) == Fits(o) /\ Tells(o)

-----------------------------------------------------------------------------
(* The offers.                                                             *)

USE DEF OfferedAnyway, NotServed, Unasked, Dropped, Repeats, CheckedEarly, WriteTells,
        CheckTells, HR, Leaders, Clerks, Everyone, New, Op, Unrouted, LockedOp, Needing, Ignoring, Together,
        Make, MakeOnCopy, Set, Add, For, Confirm, Form, EditForm, OnlyWith, Press, Offer,
        AsksEnough, SendsAll, LeftStale

\* Employees and agreements (employee-detail-screen.tsx, the agreement drawers).
LEMMA EmployeeOffers ==
    \A o \in {Offboard, Reactivate, NewEmployee, EditEmployee, Renew, Close,
        NewAgreement} : Obeys(o)
<1>1. Obeys(Offboard)
    <2> USE DEF Offboard, Employee, DeactivateEmployee, OffboardShown, OffboardDialog
    <2>1. Fits(Offboard)
        BY DEF Fits
    <2>2. Tells(Offboard)
        BY DEF Tells
    <2> QED BY <2>1, <2>2 DEF Obeys
<1>2. Obeys(Reactivate)
    <2> USE DEF Reactivate, Employee, ReactivateEmployee, ReactivateEmployeeDialog
    <2>1. Fits(Reactivate)
        BY DEF Fits
    <2>2. Tells(Reactivate)
        BY DEF Tells
    <2> QED BY <2>1, <2>2 DEF Obeys
<1>3. Obeys(NewEmployee)
    <2> USE DEF NewEmployee, CreateEmployee, EmployeeAsks, EmployeeFields, HolderAlone,
        CreateEmployeeForm
    <2>1. AsksEnough(NewEmployee)
        <3>1. NewEmployee.pairs = {<<"account_holder", "bank_account">>}
            OBVIOUS
        <3>2. NewEmployee.op.needs = {"full_name", "nik", "join_at", "position", "phone"}
            OBVIOUS
        <3>3. \A p \in NewEmployee.pairs : p[1] \notin NewEmployee.op.needs
            <4> HIDE DEF NewEmployee
            <4> QED BY <3>1, <3>2
        <3> QED BY <3>3
    <2>2. ~SendsAll(NewEmployee)
        <3>1. NewEmployee.pairs # {}
            OBVIOUS
        <3> QED BY <3>1
    <2>3. /\ NewEmployee.shown \subseteq NewEmployee.kind /\ NewEmployee.op.to \subseteq NewEmployee.kind
          /\ NewEmployee.asks \subseteq NewEmployee.fields
          /\ NewEmployee.name \notin OfferedAnyway /\ NewEmployee.shown \subseteq NewEmployee.op.from
          /\ NewEmployee.name \notin NotServed /\ NewEmployee.roles \subseteq NewEmployee.op.roles
        OBVIOUS
    <2>4. /\ NewEmployee.name \notin Unasked /\ NewEmployee.name \in Dropped
          /\ NewEmployee.op.needs \subseteq NewEmployee.sends
        OBVIOUS
    <2>5. Fits(NewEmployee)
        <3> HIDE DEF NewEmployee, SendsAll, AsksEnough, OfferedAnyway, NotServed, Unasked, Dropped
        <3> QED BY <2>1, <2>2, <2>3, <2>4 DEF Fits
    <2>6. Tells(NewEmployee)
        BY DEF Tells
    <2> QED BY <2>5, <2>6 DEF Obeys
<1>4. Obeys(EditEmployee)
    <2> USE DEF EditEmployee, Employee, UpdateEmployee, EmployeeMenu, EmployeeAsks,
        EmployeeFields, HolderAlone, EditEmployeeForm
    <2>1. Fits(EditEmployee)
        BY ZenonT(30) DEF Fits
    <2>2. Tells(EditEmployee)
        BY DEF Tells
    <2> QED BY <2>1, <2>2 DEF Obeys
<1>5. Obeys(Renew)
    <2> USE DEF Renew, Agreement, Running, RenewAgreement, AgreementShown, RenewDrawer
    <2>1. Fits(Renew)
        BY DEF Fits
    <2>2. Tells(Renew)
        BY ZenonT(30) DEF Tells
    <2> QED BY <2>1, <2>2 DEF Obeys
<1>6. Obeys(Close)
    <2> USE DEF Close, Agreement, Running, CloseAgreement, AgreementShown, CloseDrawer
    <2>1. Fits(Close)
        BY DEF Fits
    <2>2. Tells(Close)
        BY ZenonT(30) DEF Tells
    <2> QED BY <2>1, <2>2 DEF Obeys
<1>7. Obeys(NewAgreement)
    <2> USE DEF NewAgreement, CreateAgreement, AgreementAsks, AgreementFields, AgreementForm
    <2>1. AsksEnough(NewAgreement)
        <3>1. NewAgreement.pairs = {<<"effective_date", "base_salary">>}
            OBVIOUS
        <3>2. NewAgreement.op.needs = {"employee", "type", "start_date", "end_date"}
            OBVIOUS
        <3>3. \A p \in NewAgreement.pairs : p[1] \notin NewAgreement.op.needs
            <4> HIDE DEF NewAgreement
            <4> QED BY <3>1, <3>2
        <3> QED BY <3>3
    <2>2. ~SendsAll(NewAgreement)
        <3>1. NewAgreement.pairs # {}
            OBVIOUS
        <3> QED BY <3>1
    <2>3. /\ NewAgreement.shown \subseteq NewAgreement.kind /\ NewAgreement.op.to \subseteq NewAgreement.kind
          /\ NewAgreement.asks \subseteq NewAgreement.fields
          /\ NewAgreement.name \notin OfferedAnyway /\ NewAgreement.shown \subseteq NewAgreement.op.from
          /\ NewAgreement.name \notin NotServed /\ NewAgreement.roles \subseteq NewAgreement.op.roles
        OBVIOUS
    <2>4. /\ NewAgreement.name \notin Unasked /\ NewAgreement.name \in Dropped
          /\ NewAgreement.op.needs \subseteq NewAgreement.sends
        OBVIOUS
    <2>5. Fits(NewAgreement)
        <3> HIDE DEF NewAgreement, SendsAll, AsksEnough, OfferedAnyway, NotServed, Unasked, Dropped
        <3> QED BY <2>1, <2>2, <2>3, <2>4 DEF Fits
    <2>6. Tells(NewAgreement)
        BY DEF Tells
    <2> QED BY <2>5, <2>6 DEF Obeys
<1> QED BY <1>1, <1>2, <1>3, <1>4, <1>5, <1>6, <1>7

\* Companies, sites, leave types and attendance codes.
LEMMA OrganisationOffers ==
    \A o \in {CompanyOff, CompanyOn, NewCompany, EditCompany, NewSite, EditSite,
        NewLeaveType, EditLeaveType, DropLeaveType, NewCode, EditCode, DropCode} : Obeys(o)
<1>1. Obeys(CompanyOff)
    <2> USE DEF CompanyOff, Company, DeactivateCompany, CompanyRow, DeactivateCompanyDialog
    <2>1. Fits(CompanyOff)
        BY DEF Fits
    <2>2. Tells(CompanyOff)
        BY ZenonT(30) DEF Tells
    <2> QED BY <2>1, <2>2 DEF Obeys
<1>2. Obeys(CompanyOn)
    <2> USE DEF CompanyOn, Company, ReactivateCompany, ReactivateCompanyDialog
    <2>1. Fits(CompanyOn)
        BY DEF Fits
    <2>2. Tells(CompanyOn)
        BY ZenonT(30) DEF Tells
    <2> QED BY <2>1, <2>2 DEF Obeys
<1>3. Obeys(NewCompany)
    <2> USE DEF NewCompany, CreateCompany, CompanyAsks, CompanyFields, CreateCompanyForm
    <2>1. Fits(NewCompany)
        BY DEF Fits
    <2>2. Tells(NewCompany)
        BY DEF Tells
    <2> QED BY <2>1, <2>2 DEF Obeys
<1>4. Obeys(EditCompany)
    <2> USE DEF EditCompany, Company, UpdateCompany, CompanyAsks, CompanyFields,
        EditCompanyForm, CompanyHead
    <2>1. Fits(EditCompany)
        BY DEF Fits
    <2>2. Tells(EditCompany)
        BY DEF Tells
    <2> QED BY <2>1, <2>2 DEF Obeys
<1>5. Obeys(NewSite)
    <2> USE DEF NewSite, CreateSite, SiteAsks, SiteFields, Location, SiteDrawer
    <2>1. AsksEnough(NewSite)
        <3>1. NewSite.pairs = Together("latitude", "longitude")
            OBVIOUS
        <3>2. NewSite.op.needs = {"name", "address"}
            OBVIOUS
        <3>3. \A p \in NewSite.pairs : p[1] \notin NewSite.op.needs
            <4> HIDE DEF NewSite
            <4> QED BY <3>1, <3>2
        <3> QED BY <3>3
    <2>2. ~SendsAll(NewSite)
        <3>1. NewSite.pairs # {}
            OBVIOUS
        <3> QED BY <3>1
    <2>3. /\ NewSite.shown \subseteq NewSite.kind /\ NewSite.op.to \subseteq NewSite.kind
          /\ NewSite.asks \subseteq NewSite.fields
          /\ NewSite.name \notin OfferedAnyway /\ NewSite.shown \subseteq NewSite.op.from
          /\ NewSite.name \notin NotServed /\ NewSite.roles \subseteq NewSite.op.roles
        OBVIOUS
    <2>4. /\ NewSite.name \notin Unasked /\ NewSite.name \in Dropped
          /\ NewSite.op.needs \subseteq NewSite.sends
        OBVIOUS
    <2>5. Fits(NewSite)
        <3> HIDE DEF NewSite, SendsAll, AsksEnough, OfferedAnyway, NotServed, Unasked, Dropped
        <3> QED BY <2>1, <2>2, <2>3, <2>4 DEF Fits
    <2>6. Tells(NewSite)
        BY DEF Tells
    <2> QED BY <2>5, <2>6 DEF Obeys
<1>6. Obeys(EditSite)
    <2> USE DEF EditSite, Enabled, UpdateSite, SiteAsks, SiteFields, Location, SitesPanel,
        EditSiteDrawer
    <2>1. Fits(EditSite)
        BY DEF Fits
    <2>2. Tells(EditSite)
        BY DEF Tells
    <2> QED BY <2>1, <2>2 DEF Obeys
<1>7. Obeys(NewLeaveType)
    <2> USE DEF NewLeaveType, CreateLeaveType, LeaveTypeAsks, LeaveTypeFields, LeaveTypeModal
    <2>1. Fits(NewLeaveType)
        BY DEF Fits
    <2>2. Tells(NewLeaveType)
        BY DEF Tells
    <2> QED BY <2>1, <2>2 DEF Obeys
<1>8. Obeys(EditLeaveType)
    <2> USE DEF EditLeaveType, Enabled, UpdateLeaveType, LeaveTypeMenu, LeaveTypeAsks,
        LeaveTypeFields, EditLeaveTypeModal
    <2>1. Fits(EditLeaveType)
        BY DEF Fits
    <2>2. Tells(EditLeaveType)
        BY DEF Tells
    <2> QED BY <2>1, <2>2 DEF Obeys
<1>9. Obeys(DropLeaveType)
    <2> USE DEF DropLeaveType, Enabled, LeaveTypeMenu, DeleteDialog
    <2>1. Fits(DropLeaveType)
        BY DEF Fits
    <2>2. Tells(DropLeaveType)
        BY DEF Tells
    <2> QED BY <2>1, <2>2 DEF Obeys
<1>10. Obeys(NewCode)
    <2> USE DEF NewCode, CreateAttendanceCode, CodeAsks, CodeFields, CodeModal
    <2>1. Fits(NewCode)
        BY DEF Fits
    <2>2. Tells(NewCode)
        BY DEF Tells
    <2> QED BY <2>1, <2>2 DEF Obeys
<1>11. Obeys(EditCode)
    <2> USE DEF EditCode, Enabled, UpdateAttendanceCode, CodeMenu, CodeAsks, CodeFields,
        EditCodeModal
    <2>1. Fits(EditCode)
        BY DEF Fits
    <2>2. Tells(EditCode)
        BY DEF Tells
    <2> QED BY <2>1, <2>2 DEF Obeys
<1>12. Obeys(DropCode)
    <2> USE DEF DropCode, Enabled, DeleteAttendanceCode, DeleteDialog, CodeMenu
    <2>1. Fits(DropCode)
        BY DEF Fits
    <2>2. Tells(DropCode)
        BY DEF Tells
    <2> QED BY <2>1, <2>2 DEF Obeys
<1> QED BY <1>1, <1>2, <1>3, <1>4, <1>5, <1>6, <1>7, <1>8, <1>9, <1>10, <1>11, <1>12

\* User administration.
LEMMA UserOffers ==
    \A o \in {ChangeRole, EditUser, SendReset, UserOff, UserOn} : Obeys(o)
<1>1. Obeys(ChangeRole)
    <2> USE DEF ChangeRole, User, ChangeUserRole, UserMenu, ChangeRoleModal
    <2>1. Fits(ChangeRole)
        BY DEF Fits
    <2>2. Tells(ChangeRole)
        BY DEF Tells
    <2> QED BY <2>1, <2>2 DEF Obeys
<1>2. Obeys(EditUser)
    <2> USE DEF EditUser, User, UpdateUser, UserMenu, EditUserDrawer
    <2>1. Fits(EditUser)
        BY ZenonT(30) DEF Fits
    <2>2. Tells(EditUser)
        BY DEF Tells
    <2> QED BY <2>1, <2>2 DEF Obeys
<1>3. Obeys(SendReset)
    <2> USE DEF SendReset, User, SendUserPasswordReset, UserMenu, SendResetModal
    <2>1. Fits(SendReset)
        BY DEF Fits
    <2>2. Tells(SendReset)
        BY DEF Tells
    <2> QED BY <2>1, <2>2 DEF Obeys
<1>4. Obeys(UserOff)
    <2> USE DEF UserOff, User, DeactivateUser, DeactivateUserModal
    <2>1. Fits(UserOff)
        BY DEF Fits
    <2>2. Tells(UserOff)
        BY DEF Tells
    <2> QED BY <2>1, <2>2 DEF Obeys
<1>5. Obeys(UserOn)
    <2> USE DEF UserOn, User, ReactivateUser, ReactivateUserModal
    <2>1. Fits(UserOn)
        BY DEF Fits
    <2>2. Tells(UserOn)
        BY DEF Tells
    <2> QED BY <2>1, <2>2 DEF Obeys
<1> QED BY <1>1, <1>2, <1>3, <1>4, <1>5

\* Placements, the backfill of agreements, the seats of shift leaders.
LEMMA PlacementOffers ==
    \A o \in {NewPlacement, Transfer, Backfill, AssignSeat, ReplaceSeat, EndSeat} : Obeys(o)
<1>1. Obeys(NewPlacement)
    <2> USE DEF NewPlacement, Placers, CreatePlacement, PlacementAsks, PlacementFields,
        PlacementForm
    <2>1. Fits(NewPlacement)
        BY DEF Fits
    <2>2. Tells(NewPlacement)
        BY DEF Tells
    <2> QED BY <2>1, <2>2 DEF Obeys
<1>2. Obeys(Transfer)
    <2> USE DEF Transfer, Placers, Placement, Lasting, TransferPlacement, TransferShown,
        TransferFields, TransferModal
    <2>1. Fits(Transfer)
        BY DEF Fits
    <2>2. LET o == Transfer IN "pending" \in o.op.writes \ (o.op.from \cap o.shown)
        OBVIOUS
    <2>3. ~(Transfer.op.to \subseteq {"pending"})
        OBVIOUS
    <2>4. \E s \in Transfer.op.writes \ (Transfer.op.from \cap Transfer.shown) :
             ~(Transfer.op.to \subseteq {s})
        <3> HIDE DEF Transfer
        <3> QED BY <2>2, <2>3
    <2>5. /\ {Transfer.dialog, Transfer.guard, Transfer.op.adds} \subseteq BOOLEAN
          /\ Transfer.name \in CheckedEarly /\ Transfer.name \notin Repeats
          /\ WriteTells(Transfer) \/ CheckTells(Transfer)
        OBVIOUS
    <2>6. Transfer.name \notin LeftStale /\ "decided" \notin Transfer.kind
        OBVIOUS
    <2>7. Tells(Transfer)
        <3> HIDE DEF Transfer, CheckedEarly, Repeats, LeftStale, WriteTells, CheckTells
        <3> QED BY <2>4, <2>5, <2>6 DEF Tells
    <2> QED BY <2>1, <2>7 DEF Obeys
<1>3. Obeys(Backfill)
    <2> USE DEF Backfill, Placers, Placement, Lasting, SetAgreement, BackfillShown,
        BackfillModal
    <2>1. Fits(Backfill)
        BY DEF Fits
    <2>2. Tells(Backfill)
        BY DEF Tells
    <2> QED BY <2>1, <2>2 DEF Obeys
<1>4. Obeys(AssignSeat)
    <2> USE DEF AssignSeat, Seat, AssignLeader, SeatShown, AssignModal
    <2>1. Fits(AssignSeat)
        BY DEF Fits
    <2>2. Tells(AssignSeat)
        BY DEF Tells
    <2> QED BY <2>1, <2>2 DEF Obeys
<1>5. Obeys(ReplaceSeat)
    <2> USE DEF ReplaceSeat, Leadership, ReplaceLeader, LeaderShown, ReplaceFields,
        ReplaceModal
    <2>1. Fits(ReplaceSeat)
        BY DEF Fits
    <2>2. Tells(ReplaceSeat)
        BY DEF Tells
    <2> QED BY <2>1, <2>2 DEF Obeys
<1>6. Obeys(EndSeat)
    <2> USE DEF EndSeat, Leadership, EndLeader, LeaderShown, EndModal
    <2>1. Fits(EndSeat)
        BY DEF Fits
    <2>2. Tells(EndSeat)
        BY DEF Tells
    <2> QED BY <2>1, <2>2 DEF Obeys
<1> QED BY <1>1, <1>2, <1>3, <1>4, <1>5, <1>6

\* Shift masters and the cells of the schedule grid.
LEMMA ShiftOffers ==
    \A o \in {NewShift, EditShift, ShiftOff, ShiftOn, AssignShift, ChangeShift,
        DayOff, DayOffInstead, Clear, BulkOverwrite} : Obeys(o)
<1>1. Obeys(NewShift)
    <2> USE DEF NewShift, Break, CreateShiftMaster, ShiftAsks, ShiftFields, ShiftModal
    <2>1. Fits(NewShift)
        BY DEF Fits
    <2>2. Tells(NewShift)
        BY DEF Tells
    <2> QED BY <2>1, <2>2 DEF Obeys
<1>2. Obeys(EditShift)
    <2> USE DEF EditShift, Enabled, Break, UpdateShiftMaster, ShiftMenu, ShiftAsks,
        ShiftFields, EditShiftModal
    <2>1. Fits(EditShift)
        BY DEF Fits
    <2>2. Tells(EditShift)
        BY DEF Tells
    <2> QED BY <2>1, <2>2 DEF Obeys
<1>3. Obeys(ShiftOff)
    <2> USE DEF ShiftOff, Enabled, DeactivateShiftMaster, ShiftConfirm
    <2>1. Fits(ShiftOff)
        BY DEF Fits
    <2>2. Tells(ShiftOff)
        BY DEF Tells
    <2> QED BY <2>1, <2>2 DEF Obeys
<1>4. Obeys(ShiftOn)
    <2> USE DEF ShiftOn, Enabled, ReactivateShiftMaster, ShiftConfirm
    <2>1. Fits(ShiftOn)
        BY DEF Fits
    <2>2. Tells(ShiftOn)
        BY DEF Tells
    <2> QED BY <2>1, <2>2 DEF Obeys
<1>5. Obeys(AssignShift)
    <2> USE DEF AssignShift, Day, ReplaceDay, CellEmpty, ForceReplace
    <2>1. Fits(AssignShift)
        BY DEF Fits
    <2>2. Tells(AssignShift)
        BY ZenonT(30) DEF Tells
    <2> QED BY <2>1, <2>2 DEF Obeys
<1>6. Obeys(ChangeShift)
    <2> USE DEF ChangeShift, Day, Entry, UpdateEntry, CellTaken, ShiftPicker
    <2>1. Fits(ChangeShift)
        BY DEF Fits
    <2>2. Tells(ChangeShift)
        BY DEF Tells
    <2> QED BY <2>1, <2>2 DEF Obeys
<1>7. Obeys(DayOff)
    <2> USE DEF DayOff, Day, TakeDayOff, CellEmpty, MarkDayOff
    <2>1. Fits(DayOff)
        BY DEF Fits
    <2>2. Tells(DayOff)
        BY DEF Tells
    <2> QED BY <2>1, <2>2 DEF Obeys
<1>8. Obeys(DayOffInstead)
    <2> USE DEF DayOffInstead, Day, Entry, UpdateEntry, CellTaken, MarkDayOff
    <2>1. Fits(DayOffInstead)
        BY DEF Fits
    <2>2. Tells(DayOffInstead)
        BY DEF Tells
    <2> QED BY <2>1, <2>2 DEF Obeys
<1>9. Obeys(Clear)
    <2> USE DEF Clear, Day, Entry, DeleteEntry, CellTaken, ClearCell
    <2>1. Fits(Clear)
        BY DEF Fits
    <2>2. Tells(Clear)
        BY DEF Tells
    <2> QED BY <2>1, <2>2 DEF Obeys
<1>10. Obeys(BulkOverwrite)
    <2> USE DEF BulkOverwrite, Day, ReplaceDay, BulkApply, BulkAsks, BulkModal
    <2>1. Fits(BulkOverwrite)
        BY DEF Fits
    <2>2. Tells(BulkOverwrite)
        BY DEF Tells
    <2> QED BY <2>1, <2>2 DEF Obeys
<1> QED BY <1>1, <1>2, <1>3, <1>4, <1>5, <1>6, <1>7, <1>8, <1>9, <1>10

\* The approval pages, the inbox and the template editor.
LEMMA ApprovalOffers ==
    \A o \in {ApproveItem, RejectItem, ApproveInboxItem, RejectInboxItem,
        BypassItem, SaveTemplate, DropTemplate} : Obeys(o)
<1>1. Obeys(ApproveItem)
    <2> USE DEF ApproveItem, Deciders, Item, ApproveLine, Viewers, ApproveButton
    <2>1. Fits(ApproveItem)
        BY DEF Fits
    <2>2. Tells(ApproveItem)
        BY DEF Tells
    <2> QED BY <2>1, <2>2 DEF Obeys
<1>2. Obeys(RejectItem)
    <2> USE DEF RejectItem, Deciders, Item, RejectLine, Viewers, RejectModal
    <2>1. Fits(RejectItem)
        BY DEF Fits
    <2>2. Tells(RejectItem)
        BY DEF Tells
    <2> QED BY <2>1, <2>2 DEF Obeys
<1>3. Obeys(ApproveInboxItem)
    <2> USE DEF ApproveInboxItem, Item, ApproveLine, ApproveButton, InboxRow
    <2>1. Fits(ApproveInboxItem)
        BY DEF Fits
    <2>2. Tells(ApproveInboxItem)
        BY DEF Tells
    <2> QED BY <2>1, <2>2 DEF Obeys
<1>4. Obeys(RejectInboxItem)
    <2> USE DEF RejectInboxItem, Item, RejectLine, RejectModal, InboxRow, InboxReject
    <2>1. Fits(RejectInboxItem)
        BY DEF Fits
    <2>2. Tells(RejectInboxItem)
        BY DEF Tells
    <2> QED BY <2>1, <2>2 DEF Obeys
<1>5. Obeys(BypassItem)
    <2> USE DEF BypassItem, Item, Bypass, BypassShown, BypassModal
    <2>1. Fits(BypassItem)
        BY DEF Fits
    <2>2. Tells(BypassItem)
        BY DEF Tells
    <2> QED BY <2>1, <2>2 DEF Obeys
<1>6. Obeys(SaveTemplate)
    <2> USE DEF SaveTemplate, New, PutTemplate, TemplateEditor
    <2>1. Fits(SaveTemplate)
        BY DEF Fits
    <2>2. Tells(SaveTemplate)
        BY DEF Tells
    <2> QED BY <2>1, <2>2 DEF Obeys
<1>7. Obeys(DropTemplate)
    <2> USE DEF DropTemplate, Template, DeleteTemplate, TemplateCard, DeleteTemplateDialog
    <2>1. Fits(DropTemplate)
        BY DEF Fits
    <2>2. Tells(DropTemplate)
        BY DEF Tells
    <2> QED BY <2>1, <2>2 DEF Obeys
<1> QED BY <1>1, <1>2, <1>3, <1>4, <1>5, <1>6, <1>7

\* Decisions on leave, payable days, quotas and entitlements.
LEMMA LeaveOffers ==
    \A o \in {ApproveLeave, RejectLeave, FlagDay, Adjust, AddEntitlement,
        EditEntitlement, DropEntitlement} : Obeys(o)
<1>1. Obeys(ApproveLeave)
    <2> USE DEF ApproveLeave, Item, ApproveLine, CanActOnLine, LeaveActions
    <2>1. Fits(ApproveLeave)
        BY DEF Fits
    <2>2. Tells(ApproveLeave)
        BY DEF Tells
    <2> QED BY <2>1, <2>2 DEF Obeys
<1>2. Obeys(RejectLeave)
    <2> USE DEF RejectLeave, Item, RejectLine, CanActOnLine, RejectLeaveModal
    <2>1. Fits(RejectLeave)
        BY DEF Fits
    <2>2. Tells(RejectLeave)
        BY DEF Tells
    <2> QED BY <2>1, <2>2 DEF Obeys
<1>3. Obeys(FlagDay)
    <2> USE DEF FlagDay, Requests, SetDayPayable, PayableDays, PayableSwitch
    <2>1. Fits(FlagDay)
        BY DEF Fits
    <2>2. Tells(FlagDay)
        BY DEF Tells
    <2> QED BY <2>1, <2>2 DEF Obeys
<1>4. Obeys(Adjust)
    <2> USE DEF Adjust, QuotaRow, AdjustQuota, QuotaAsks, QuotaModal
    <2>1. Fits(Adjust)
        BY DEF Fits
    <2>2. Tells(Adjust)
        BY DEF Tells
    <2> QED BY <2>1, <2>2 DEF Obeys
<1>5. Obeys(AddEntitlement)
    <2> USE DEF AddEntitlement, Enabled, AssignEntitlement, AddEntitlementModal
    <2>1. Fits(AddEntitlement)
        BY ZenonT(30) DEF Fits
    <2>2. Tells(AddEntitlement)
        BY DEF Tells
    <2> QED BY <2>1, <2>2 DEF Obeys
<1>6. Obeys(EditEntitlement)
    <2> USE DEF EditEntitlement, Enabled, UpdateEntitlement, EntitlementList, EntitlementEdit
    <2>1. Fits(EditEntitlement)
        BY DEF Fits
    <2>2. Tells(EditEntitlement)
        BY ZenonT(30) DEF Tells
    <2> QED BY <2>1, <2>2 DEF Obeys
<1>7. Obeys(DropEntitlement)
    <2> USE DEF DropEntitlement, Enabled, RemoveEntitlement, EntitlementList,
        EntitlementRemove
    <2>1. Fits(DropEntitlement)
        BY DEF Fits
    <2>2. Tells(DropEntitlement)
        BY DEF Tells
    <2> QED BY <2>1, <2>2 DEF Obeys
<1> QED BY <1>1, <1>2, <1>3, <1>4, <1>5, <1>6, <1>7

\* Decisions on overtime, its confirmation and withdrawal, the holidays.
LEMMA OvertimeOffers ==
    \A o \in {ApproveOvertime, RejectOvertime, Withdraw, ConfirmOvertime,
        NewHoliday, EditHoliday, DropHoliday} : Obeys(o)
<1>1. Obeys(ApproveOvertime)
    <2> USE DEF ApproveOvertime, Deciders, Item, ApproveLine, OvertimeHead, OvertimeActions
    <2>1. Fits(ApproveOvertime)
        BY DEF Fits
    <2>2. Tells(ApproveOvertime)
        BY DEF Tells
    <2> QED BY <2>1, <2>2 DEF Obeys
<1>2. Obeys(RejectOvertime)
    <2> USE DEF RejectOvertime, Deciders, Item, RejectLine, OvertimeHead, RejectOvertimeModal
    <2>1. Fits(RejectOvertime)
        BY DEF Fits
    <2>2. Tells(RejectOvertime)
        BY DEF Tells
    <2> QED BY <2>1, <2>2 DEF Obeys
<1>3. Obeys(Withdraw)
    <2> USE DEF Withdraw, Overtime, WithdrawOvertime, CanWithdraw, WithdrawModal
    <2>1. Fits(Withdraw)
        BY DEF Fits
    <2>2. Tells(Withdraw)
        BY DEF Tells
    <2> QED BY <2>1, <2>2 DEF Obeys
<1>4. Obeys(ConfirmOvertime)
    <2> USE DEF ConfirmOvertime, Overtime, CanConfirm, ConfirmModal
    <2>1. Fits(ConfirmOvertime)
        BY DEF Fits
    <2>2. Tells(ConfirmOvertime)
        BY DEF Tells
    <2> QED BY <2>1, <2>2 DEF Obeys
<1>5. Obeys(NewHoliday)
    <2> USE DEF NewHoliday, CreateHoliday, HolidayAsks, HolidayFields, HolidayModal
    <2>1. Fits(NewHoliday)
        BY DEF Fits
    <2>2. Tells(NewHoliday)
        BY DEF Tells
    <2> QED BY <2>1, <2>2 DEF Obeys
<1>6. Obeys(EditHoliday)
    <2> USE DEF EditHoliday, Enabled, UpdateHoliday, HolidayAsks, HolidayFields, HolidayTable,
        HolidayModal
    <2>1. Fits(EditHoliday)
        BY DEF Fits
    <2>2. Tells(EditHoliday)
        BY DEF Tells
    <2> QED BY <2>1, <2>2 DEF Obeys
<1>7. Obeys(DropHoliday)
    <2> USE DEF DropHoliday, Enabled, DeleteHoliday, HolidayTable, DeleteHolidayConfirm
    <2>1. Fits(DropHoliday)
        BY DEF Fits
    <2>2. Tells(DropHoliday)
        BY DEF Tells
    <2> QED BY <2>1, <2>2 DEF Obeys
<1> QED BY <1>1, <1>2, <1>3, <1>4, <1>5, <1>6, <1>7

\* What employees ask for and take back on their own pages.
LEMMA OwnOffers ==
    \A o \in {NewLeave, NewOvertime, NewCorrection, NewEntry, WithdrawLeave,
        WithdrawCorrection, WithdrawFromList, ConfirmFromList, EditProfile} : Obeys(o)
<1>1. Obeys(NewLeave)
    <2> USE DEF NewLeave, CreateLeave, Self, LeaveAsks, LeaveModal
    <2>1. Fits(NewLeave)
        BY ZenonT(30) DEF Fits
    <2>2. Tells(NewLeave)
        BY DEF Tells
    <2> QED BY <2>1, <2>2 DEF Obeys
<1>2. Obeys(NewOvertime)
    <2> USE DEF NewOvertime, CreateOvertime, Self, OvertimeAsks, OvertimeModal
    <2>1. Fits(NewOvertime)
        BY ZenonT(30) DEF Fits
    <2>2. Tells(NewOvertime)
        BY DEF Tells
    <2> QED BY <2>1, <2>2 DEF Obeys
<1>3. Obeys(NewCorrection)
    <2> USE DEF NewCorrection, CreateCorrection, Self, TimeAsks, CorrectionModal
    <2>1. Fits(NewCorrection)
        BY ZenonT(30) DEF Fits
    <2>2. Tells(NewCorrection)
        BY DEF Tells
    <2> QED BY <2>1, <2>2 DEF Obeys
<1>4. Obeys(NewEntry)
    <2> USE DEF NewEntry, CreateCorrection, Self, EntryAsks, NewEntryModal
    <2>1. Fits(NewEntry)
        BY ZenonT(30) DEF Fits
    <2>2. Tells(NewEntry)
        BY DEF Tells
    <2> QED BY <2>1, <2>2 DEF Obeys
<1>5. Obeys(WithdrawLeave)
    <2> USE DEF WithdrawLeave, Requests, CancelLeave, LeaveStatusModal, WithdrawLeaveButton
    <2>1. Fits(WithdrawLeave)
        BY DEF Fits
    <2>2. Tells(WithdrawLeave)
        BY DEF Tells
    <2> QED BY <2>1, <2>2 DEF Obeys
<1>6. Obeys(WithdrawCorrection)
    <2> USE DEF WithdrawCorrection, Requests, CancelCorrection, CorrectionStatusModal,
        WithdrawCorrectionButton
    <2>1. Fits(WithdrawCorrection)
        BY DEF Fits
    <2>2. Tells(WithdrawCorrection)
        BY DEF Tells
    <2> QED BY <2>1, <2>2 DEF Obeys
<1>7. Obeys(WithdrawFromList)
    <2> USE DEF WithdrawFromList, Overtime, WithdrawOvertime, OvertimeList,
        OvertimeListButtons
    <2>1. Fits(WithdrawFromList)
        BY DEF Fits
    <2>2. Tells(WithdrawFromList)
        BY DEF Tells
    <2> QED BY <2>1, <2>2 DEF Obeys
<1>8. Obeys(ConfirmFromList)
    <2> USE DEF ConfirmFromList, Overtime, CanConfirm, OvertimeListButtons
    <2>1. Fits(ConfirmFromList)
        BY DEF Fits
    <2>2. Tells(ConfirmFromList)
        BY DEF Tells
    <2> QED BY <2>1, <2>2 DEF Obeys
<1>9. Obeys(EditProfile)
    <2> USE DEF EditProfile, ProfileHead, UpdateMyProfile, PhoneProfileFields, ProfileFields, ProfileModal
    <2>1. Fits(EditProfile)
        BY DEF Fits
    <2>2. Tells(EditProfile)
        BY DEF Tells
    <2> QED BY <2>1, <2>2 DEF Obeys
<1> QED BY <1>1, <1>2, <1>3, <1>4, <1>5, <1>6, <1>7, <1>8, <1>9

\* The month-end, clarifications, notes, notifications and exports.
LEMMA MonthOffers ==
    \A o \in {Lock, ForceLock, Reopen, Clarify, Resolve, AppendNote, ReadOne, Export} : Obeys(o)
<1>1. Obeys(Lock)
    <2> USE DEF Lock, Period, LockPeriod, PeriodHead, LockDialog
    <2>1. Fits(Lock)
        BY DEF Fits
    <2>2. Tells(Lock)
        BY DEF Tells
    <2> QED BY <2>1, <2>2 DEF Obeys
<1>2. Obeys(ForceLock)
    <2> USE DEF ForceLock, Period, ForceLockPeriod
    <2>1. Fits(ForceLock)
        BY DEF Fits
    <2>2. LET o == ForceLock IN "open" \in o.op.writes \ (o.op.from \cap o.shown)
        OBVIOUS
    <2>3. ~(ForceLock.op.to \subseteq {"open"})
        OBVIOUS
    <2>4. \E s \in ForceLock.op.writes \ (ForceLock.op.from \cap ForceLock.shown) :
             ~(ForceLock.op.to \subseteq {s})
        <3> HIDE DEF ForceLock
        <3> QED BY <2>2, <2>3
    <2>5. /\ {ForceLock.dialog, ForceLock.guard, ForceLock.op.adds} \subseteq BOOLEAN
          /\ ForceLock.name \in CheckedEarly /\ ForceLock.name \notin Repeats
          /\ WriteTells(ForceLock) \/ CheckTells(ForceLock)
        OBVIOUS
    <2>6. ForceLock.name \notin LeftStale /\ "decided" \notin ForceLock.kind
        OBVIOUS
    <2>7. Tells(ForceLock)
        <3> HIDE DEF ForceLock, CheckedEarly, Repeats, LeftStale, WriteTells, CheckTells
        <3> QED BY <2>4, <2>5, <2>6 DEF Tells
    <2> QED BY <2>1, <2>7 DEF Obeys
<1>3. Obeys(Reopen)
    <2> USE DEF Reopen, Period, ReopenPeriod, ReopenDialog
    <2>1. Fits(Reopen)
        BY DEF Fits
    <2>2. Tells(Reopen)
        BY DEF Tells
    <2> QED BY <2>1, <2>2 DEF Obeys
<1>4. Obeys(Clarify)
    <2> USE DEF Clarify, RaiseClarification, BlockedRow, ClarificationDialog
    <2>1. Fits(Clarify)
        BY DEF Fits
    <2>2. Tells(Clarify)
        BY DEF Tells
    <2> QED BY <2>1, <2>2 DEF Obeys
<1>5. Obeys(Resolve)
    <2> USE DEF Resolve, Clarification, CloseClarification, ManageClarification
    <2>1. Fits(Resolve)
        BY DEF Fits
    <2>2. Tells(Resolve)
        BY DEF Tells
    <2> QED BY <2>1, <2>2 DEF Obeys
<1>6. Obeys(AppendNote)
    <2> USE DEF AppendNote, AuditNoteDrawer, CreateAuditNote, AppendNoteForm
    <2>1. Fits(AppendNote)
        BY ZenonT(30) DEF Fits
    <2>2. Tells(AppendNote)
        BY DEF Tells
    <2> QED BY <2>1, <2>2 DEF Obeys
<1>7. Obeys(ReadOne)
    <2> USE DEF ReadOne, Notification, MarkRead, UnreadCard, MarkReadCard
    <2>1. Fits(ReadOne)
        BY DEF Fits
    <2>2. Tells(ReadOne)
        BY DEF Tells
    <2> QED BY <2>1, <2>2 DEF Obeys
<1>8. Obeys(Export)
    <2> USE DEF Export, CreateExport, ExportButton
    <2>1. Fits(Export)
        BY DEF Fits
    <2>2. Tells(Export)
        BY DEF Tells
    <2> QED BY <2>1, <2>2 DEF Obeys
<1> QED BY <1>1, <1>2, <1>3, <1>4, <1>5, <1>6, <1>7, <1>8

\* The phone.
LEMMA PhoneOffers ==
    \A o \in {PhoneStatus, PhoneCorrection, PhoneEntry, PhoneLeave, PhoneOvertime,
        PhoneWithdraw, Answer, PhoneProfile, PhoneApprove, PhoneReject} : Obeys(o)
<1>1. Obeys(PhoneStatus)
    <2> USE DEF PhoneStatus, CreateCorrection, Self, StatusForm
    <2>1. Fits(PhoneStatus)
        BY ZenonT(30) DEF Fits
    <2>2. Tells(PhoneStatus)
        BY DEF Tells
    <2> QED BY <2>1, <2>2 DEF Obeys
<1>2. Obeys(PhoneCorrection)
    <2> USE DEF PhoneCorrection, CreateCorrection, Self, TimeAsks, PhoneTimeForm
    <2>1. Fits(PhoneCorrection)
        BY ZenonT(30) DEF Fits
    <2>2. Tells(PhoneCorrection)
        BY DEF Tells
    <2> QED BY <2>1, <2>2 DEF Obeys
<1>3. Obeys(PhoneEntry)
    <2> USE DEF PhoneEntry, CreateCorrection, Self, EntryAsks, PhoneEntryForm
    <2>1. Fits(PhoneEntry)
        BY DEF Fits
    <2>2. Tells(PhoneEntry)
        BY DEF Tells
    <2> QED BY <2>1, <2>2 DEF Obeys
<1>4. Obeys(PhoneLeave)
    <2> USE DEF PhoneLeave, CreateLeave, Self, LeaveAsks, PhoneLeaveForm
    <2>1. Fits(PhoneLeave)
        BY ZenonT(30) DEF Fits
    <2>2. Tells(PhoneLeave)
        BY DEF Tells
    <2> QED BY <2>1, <2>2 DEF Obeys
<1>5. Obeys(PhoneOvertime)
    <2> USE DEF PhoneOvertime, CreateOvertime, Self, OvertimeAsks, PhoneOvertimeForm
    <2>1. Fits(PhoneOvertime)
        BY ZenonT(30) DEF Fits
    <2>2. Tells(PhoneOvertime)
        BY DEF Tells
    <2> QED BY <2>1, <2>2 DEF Obeys
<1>6. Obeys(PhoneWithdraw)
    <2> USE DEF PhoneWithdraw, Requests, CancelCorrection, PhoneWithdrawButton
    <2>1. Fits(PhoneWithdraw)
        BY DEF Fits
    <2>2. Tells(PhoneWithdraw)
        BY DEF Tells
    <2> QED BY <2>1, <2>2 DEF Obeys
<1>7. Obeys(Answer)
    <2> USE DEF Answer, Clarification, AnswerClarification, CanAnswer, AnswerForm
    <2>1. Fits(Answer)
        BY DEF Fits
    <2>2. Tells(Answer)
        BY DEF Tells
    <2> QED BY <2>1, <2>2 DEF Obeys
<1>8. Obeys(PhoneProfile)
    <2> USE DEF PhoneProfile, UpdateMyProfile, PhoneProfileFields, PhoneProfileForm
    <2>1. Fits(PhoneProfile)
        BY DEF Fits
    <2>2. Tells(PhoneProfile)
        BY DEF Tells
    <2> QED BY <2>1, <2>2 DEF Obeys
<1>9. Obeys(PhoneApprove)
    <2> USE DEF PhoneApprove, Item, ApproveLine, InboxRow, ApprovalSheet
    <2>1. Fits(PhoneApprove)
        BY DEF Fits
    <2>2. Tells(PhoneApprove)
        BY DEF Tells
    <2> QED BY <2>1, <2>2 DEF Obeys
<1>10. Obeys(PhoneReject)
    <2> USE DEF PhoneReject, Item, RejectLine, InboxRow, DecisionSheet
    <2>1. Fits(PhoneReject)
        BY DEF Fits
    <2>2. Tells(PhoneReject)
        BY DEF Tells
    <2> QED BY <2>1, <2>2 DEF Obeys
<1> QED BY <1>1, <1>2, <1>3, <1>4, <1>5, <1>6, <1>7, <1>8, <1>9, <1>10

\* The decisions on attendance, on the detail page, in the queue and on the phone.
LEMMA AttendanceOffers ==
    \A o \in {Verify, VerifyTimes, Reject, QueueVerify, QueueReject, PhoneVerify, PhoneRefuse} : Obeys(o)
<1>1. Obeys(Verify)
    <2> USE DEF Verify, Record, VerifyAttendance, ToVerify, VerifyDialog
    <2>1. Fits(Verify)
        BY DEF Fits
    <2>2. Tells(Verify)
        BY ZenonT(30) DEF Tells
    <2> QED BY <2>1, <2>2 DEF Obeys
<1>2. Obeys(VerifyTimes)
    <2> USE DEF VerifyTimes, Record, VerifyAttendance, ToVerify, TimesDialog
    <2>1. Fits(VerifyTimes)
        BY DEF Fits
    <2>2. Tells(VerifyTimes)
        BY ZenonT(30) DEF Tells
    <2> QED BY <2>1, <2>2 DEF Obeys
<1>3. Obeys(Reject)
    <2> USE DEF Reject, Record, RejectAttendance, RejectAsks, ToVerify, RejectDialog
    <2>1. Fits(Reject)
        BY DEF Fits
    <2>2. Tells(Reject)
        BY ZenonT(30) DEF Tells
    <2> QED BY <2>1, <2>2 DEF Obeys
<1>4. Obeys(QueueVerify)
    <2> USE DEF QueueVerify, Record, VerifyAttendance, QueueRow, QueueVerifyDialog
    <2>1. Fits(QueueVerify)
        BY DEF Fits
    <2>2. Tells(QueueVerify)
        BY ZenonT(30) DEF Tells
    <2> QED BY <2>1, <2>2 DEF Obeys
<1>5. Obeys(QueueReject)
    <2> USE DEF QueueReject, Record, RejectAttendance, RejectAsks, QueueRow, QueueRejectDialog
    <2>1. Fits(QueueReject)
        BY DEF Fits
    <2>2. Tells(QueueReject)
        BY ZenonT(30) DEF Tells
    <2> QED BY <2>1, <2>2 DEF Obeys
<1>6. Obeys(PhoneVerify)
    <2> USE DEF PhoneVerify, Record, VerifyAttendance, PhoneItem, DetailSheet
    <2>1. Fits(PhoneVerify)
        BY DEF Fits
    <2>2. Tells(PhoneVerify)
        BY ZenonT(30) DEF Tells
    <2> QED BY <2>1, <2>2 DEF Obeys
<1>7. Obeys(PhoneRefuse)
    <2> USE DEF PhoneRefuse, Record, RejectAttendance, RejectAsks, PhoneItem, RejectSheet
    <2>1. Fits(PhoneRefuse)
        BY DEF Fits
    <2>2. Tells(PhoneRefuse)
        BY ZenonT(30) DEF Tells
    <2> QED BY <2>1, <2>2 DEF Obeys
<1> QED BY <1>1, <1>2, <1>3, <1>4, <1>5, <1>6, <1>7

\* What an employee notes on the open record, the import of holidays, a user's password,
\* and the overtime list of the phone.
LEMMA LogOffers ==
    \A o \in {Log, PhoneLog, DropLogged, PhoneDropLogged, ImportHoliday, ChangePassword, PhoneWithdrawOvertime, PhoneConfirmOvertime} : Obeys(o)
<1>1. Obeys(Log)
    <2> USE DEF Log, Presence, LogActivity, ActivityPanel
    <2>1. Fits(Log)
        BY DEF Fits
    <2>2. Tells(Log)
        BY ZenonT(30) DEF Tells
    <2> QED BY <2>1, <2>2 DEF Obeys
<1>2. Obeys(PhoneLog)
    <2> USE DEF PhoneLog, Presence, LogActivity, PhoneActivityRow
    <2>1. Fits(PhoneLog)
        BY DEF Fits
    <2>2. Tells(PhoneLog)
        BY ZenonT(30) DEF Tells
    <2> QED BY <2>1, <2>2 DEF Obeys
<1>3. Obeys(DropLogged)
    <2> USE DEF DropLogged, Activity, DropActivity, ActivityList
    <2>1. Fits(DropLogged)
        BY DEF Fits
    <2>2. Tells(DropLogged)
        BY ZenonT(30) DEF Tells
    <2> QED BY <2>1, <2>2 DEF Obeys
<1>4. Obeys(PhoneDropLogged)
    <2> USE DEF PhoneDropLogged, Activity, DropActivity, PhoneActivityList
    <2>1. Fits(PhoneDropLogged)
        BY DEF Fits
    <2>2. Tells(PhoneDropLogged)
        BY ZenonT(30) DEF Tells
    <2> QED BY <2>1, <2>2 DEF Obeys
<1>5. Obeys(ImportHoliday)
    <2> USE DEF ImportHoliday, CreateHoliday, HolidayAsks, HolidayFields, ImportModal
    <2>1. Fits(ImportHoliday)
        BY DEF Fits
    <2>2. Tells(ImportHoliday)
        BY ZenonT(30) DEF Tells
    <2> QED BY <2>1, <2>2 DEF Obeys
<1>6. Obeys(ChangePassword)
    <2> USE DEF ChangePassword, ChangeOwnPassword, PasswordForm
    <2>1. Fits(ChangePassword)
        BY DEF Fits
    <2>2. Tells(ChangePassword)
        BY ZenonT(30) DEF Tells
    <2> QED BY <2>1, <2>2 DEF Obeys
<1>7. Obeys(PhoneWithdrawOvertime)
    <2> USE DEF PhoneWithdrawOvertime, Overtime, WithdrawOvertime, PhoneOvertimeRow,
        PhoneOvertimeButton
    <2>1. Fits(PhoneWithdrawOvertime)
        BY DEF Fits
    <2>2. Tells(PhoneWithdrawOvertime)
        BY ZenonT(30) DEF Tells
    <2> QED BY <2>1, <2>2 DEF Obeys
<1>8. Obeys(PhoneConfirmOvertime)
    <2> USE DEF PhoneConfirmOvertime, Overtime, PhoneOvertimeButton
    <2>1. Fits(PhoneConfirmOvertime)
        BY DEF Fits
    <2>2. Tells(PhoneConfirmOvertime)
        BY ZenonT(30) DEF Tells
    <2> QED BY <2>1, <2>2 DEF Obeys
<1> QED BY <1>1, <1>2, <1>3, <1>4, <1>5, <1>6, <1>7, <1>8

\* Every offer of the clients obeys the rules it is not named as an exception to.
LEMMA EveryOfferObeys == \A o \in AllOffers : Obeys(o)
BY EmployeeOffers, OrganisationOffers, UserOffers, PlacementOffers, ShiftOffers, ApprovalOffers,
   LeaveOffers, OvertimeOffers, OwnOffers, MonthOffers, PhoneOffers, AttendanceOffers, LogOffers
   DEF AllOffers, ConsoleOffers, RequestOffers

-----------------------------------------------------------------------------
(* The clients as they are: any of their offers.                           *)

\* OfferRules, assumed by RecordActions of any offers, holds of those of the clients.
THEOREM ClientsKeepOfferRules ==
    ASSUME Offers \subseteq AllOffers
    PROVE  \A o \in Offers :
              /\ o.shown \subseteq o.kind /\ o.op.to \subseteq o.kind
              /\ {o.dialog, o.guard, o.op.adds} \subseteq BOOLEAN
              /\ o.name \notin OfferedAnyway => o.shown \subseteq o.op.from
              /\ o.name \notin Repeats => WriteTells(o) \/ CheckTells(o)
<1>1. \A o \in Offers : Obeys(o)
    BY EveryOfferObeys
<1> HIDE DEF OfferedAnyway, Repeats, WriteTells, CheckTells
<1> QED BY <1>1 DEF Obeys, Fits, Tells

\* The named exceptions are exactly the offers that break a rule: none is excused without
\* need, and every other offer of the console and of the phone obeys.
THEOREM ExceptionsAreExact ==
    \A o \in AllOffers :
        /\ o.name \in OfferedAnyway <=> ~(o.shown \subseteq o.op.from)
        /\ o.name \in NotServed <=> ~(o.roles \subseteq o.op.roles)
        /\ o.name \in Unasked <=> ~AsksEnough(o)
        /\ o.name \in Dropped <=> ~SendsAll(o) /\ o.op.needs \subseteq o.sends
        /\ o.name \in Repeats <=> ~(WriteTells(o) \/ CheckTells(o))
        /\ o.name \in CheckedEarly <=>
              \E s \in o.op.writes \ (o.op.from \cap o.shown) : ~(o.op.to \subseteq {s})
        /\ o.name \in LeftStale <=> "decided" \in o.kind /\ ~o.heals
<1> HIDE DEF OfferedAnyway, NotServed, Unasked, Dropped, Repeats, CheckedEarly, LeftStale,
             WriteTells, CheckTells, AsksEnough, SendsAll
<1> QED BY EveryOfferObeys DEF Obeys, Fits, Tells

\* On the clients' own pages a button that is not named is shown to served roles only.
THEOREM ClientsShowToServed ==
    ASSUME Offers \subseteq AllOffers
    PROVE  Spec => []OfferedToServed
<1>1. \A o \in Offers : o.name \notin NotServed => o.roles \subseteq o.op.roles
    <2> HIDE DEF NotServed
    <2> QED BY EveryOfferObeys DEF Obeys, Fits
<1> QED BY <1>1, ShownToServed

\* The clients' forms insist on, and send, what the server needs.
THEOREM ClientsAskEnough ==
    ASSUME Offers \subseteq AllOffers
    PROVE  Spec => []AskedIsEnough
<1>1. \A o \in Offers :
         /\ o.asks \subseteq o.fields
         /\ o.name \notin Unasked => AsksEnough(o)
    <2> HIDE DEF Unasked, AsksEnough
    <2> QED BY EveryOfferObeys DEF Obeys, Fits
<1> QED BY <1>1, FormsComplete

\* The clients announce success only when everything entered went with the request; the
\* status correction of the phone, which leaves a field behind, is never told of one.
THEOREM ClientsKeepEntries ==
    ASSUME Offers \subseteq AllOffers
    PROVE  Spec => []KeepsWhatWasTyped
<1>1. \A o \in Offers :
         /\ o.asks \subseteq o.fields
         /\ o.name \notin Dropped => SendsAll(o) \/ ~(o.op.needs \subseteq o.sends)
    <2> HIDE DEF Dropped, SendsAll
    <2> QED BY EveryOfferObeys DEF Obeys, Fits
<1> QED BY <1>1, EntriesKept

\* A status the clients' requests change was one the operation allows and the page offers,
\* but for the operations that check on a copy.
THEOREM ClientsChangeFromAllowed ==
    ASSUME Offers \subseteq AllOffers
    PROVE  Spec => WrittenFromAllowed
<1>1. \A o \in Offers : o.name \notin CheckedEarly =>
         \A s \in o.op.writes \ (o.op.from \cap o.shown) : o.op.to \subseteq {s}
    <2> HIDE DEF CheckedEarly
    <2> QED BY EveryOfferObeys DEF Obeys, Tells
<1> QED BY <1>1, ChangedFromAllowed
=============================================================================
