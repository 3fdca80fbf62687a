----------------------------- MODULE ListCatalog -----------------------------
(***************************************************************************)
(* The list screens of the console and of the phone, as data for the       *)
(* machine of ListScreens.  A screen is described by what its code does in *)
(* three places:                                                           *)
(*   Search    where the filters are kept ("url", "replaced" for a URL     *)
(*             whose history entry is replaced, or local "state"), what a  *)
(*             new filter resets, what reaches the server                  *)
(*   Controls  the filters a user can set, at once or after a pause, those *)
(*             that go when another is set, the search boxes that keep     *)
(*             their own text (an input with a default value), and the     *)
(*             button that resets the filters                              *)
(*   Table     the filters that make an empty list "filtered", the pager,  *)
(*             what opens when a row is opened ("record" in place of the   *)
(*             list, "above" it, or from the "home" page alone), whether   *)
(*             rows can be selected                                        *)
(* What a row offers is in ActionCatalog.                                  *)
(***************************************************************************)

Reset == {"cursor", "stack"}

\* What most screens do: the URL keeps the search, a new filter drops the cursor and the
\* stack, every key is sent.
UrlSearch   == [store |-> "url", clears |-> Reset, special |-> << >>, masks |-> {},
                unsent |-> {}, widens |-> {}]
StateSearch == [UrlSearch EXCEPT !.store = "state"]
Plain(keys) == [once |-> keys, paused |-> {}, locks |-> {}, drops |-> {}, own |-> {},
                reset |-> FALSE]
Resettable(keys) == [Plain(keys) EXCEPT !.reset = TRUE]
\* The search field of most screens is an input of its own: it only reports what is typed.
Boxed(keys) == [Plain(keys) EXCEPT !.own = {"q"}]
BoxedResettable(keys) == [Boxed(keys) EXCEPT !.reset = TRUE]
\* The pager under the rows, driven by a stack of cursors; a row opens its record.
Paged(keys) == [counted |-> keys, always |-> FALSE, pager |-> "rows", next |-> "push",
                prev |-> "pop", opens |-> "record", ticks |-> FALSE]
OnePage(keys) == [Paged(keys) EXCEPT !.pager = "none", !.opens = "no"]

Screen(name, search, controls, table) ==
    [name |-> name, store |-> search.store, clears |-> search.clears,
     special |-> search.special, masks |-> search.masks, unsent |-> search.unsent,
     widens |-> search.widens, once |-> controls.once, paused |-> controls.paused,
     locks |-> controls.locks, drops |-> controls.drops, own |-> controls.own,
     reset |-> controls.reset, counted |-> table.counted, always |-> table.always,
     pager |-> table.pager, next |-> table.next, prev |-> table.prev, opens |-> table.opens,
     ticks |-> table.ticks]

-----------------------------------------------------------------------------
(* People, agreements and the organisation *)

\* A tab of the employees list stands for a status, which it overrules; q waits 300 ms.
EmployeesSearch   == [UrlSearch EXCEPT !.masks = {<<"tab", "status">>}]
EmployeesControls == [Boxed({"tab", "client_company", "employee_type"}) EXCEPT !.paused = {"q"}]
EmployeesTable    == Paged({"q", "status", "employee_type", "client_company"})
Employees == Screen("employees", EmployeesSearch, EmployeesControls, EmployeesTable)

\* The status select is disabled under every tab but "all".
AgreementsSearch   == [UrlSearch EXCEPT !.masks = {<<"tab", "status">>}]
AgreementsControls == [Boxed({"q", "status", "type", "tab"})
                       EXCEPT !.locks = {<<"tab", "status">>}]
AgreementsTable    == Paged({"q", "status", "type"})
Agreements == Screen("agreements", AgreementsSearch, AgreementsControls, AgreementsTable)

\* The master-data lists read one page of 200.
AttendanceCodesSearch   == StateSearch
AttendanceCodesControls == Plain({"status"})
AttendanceCodesTable    == OnePage({"status"})
AttendanceCodes == Screen("attendance codes", AttendanceCodesSearch, AttendanceCodesControls,
                          AttendanceCodesTable)

\* The leave types' q is applied to the rows that came.
LeaveTypesSearch   == StateSearch
LeaveTypesControls == Boxed({"q", "status"})
LeaveTypesTable    == OnePage({"q", "status"})
LeaveTypes == Screen("leave types", LeaveTypesSearch, LeaveTypesControls, LeaveTypesTable)

\* setFilter drops the cursor whatever it is given, the pager's next cursor included.
ClientCompaniesSearch   == [UrlSearch EXCEPT !.store = "replaced"]
ClientCompaniesControls == Plain({"q", "status"})
ClientCompaniesTable    == [Paged({"q", "status"}) EXCEPT !.pager = "cursor", !.next = "drop",
                                                          !.prev = "home"]
ClientCompanies == Screen("client companies", ClientCompaniesSearch, ClientCompaniesControls,
                          ClientCompaniesTable)

\* The two tabs of a company that list its placements.
RosterPanelSearch   == StateSearch
RosterPanelControls == Boxed({"q", "status"})
RosterPanelTable    == [Paged({"q", "status"}) EXCEPT !.opens = "no"]
RosterPanel == Screen("company tab", RosterPanelSearch, RosterPanelControls, RosterPanelTable)

-----------------------------------------------------------------------------
(* Placements and shifts *)

\* With expiring_soon another list is read, which takes the company alone.
PlacementsSearch   == [UrlSearch EXCEPT !.masks = {"expiring_soon"} \X {"q", "position", "awaiting"}]
PlacementsControls == Boxed({"q", "company_id", "position", "awaiting", "expiring_soon"})
PlacementsTable    == Paged({"q", "company_id", "position", "awaiting"})
Placements == Screen("placements", PlacementsSearch, PlacementsControls, PlacementsTable)

\* The pager of the roster page navigates to the company's page.
RosterSearch   == [UrlSearch EXCEPT !.widens = {"include_history"}]
RosterControls == Boxed({"q", "status", "awaiting", "include_history"})
RosterTable    == [Paged({"q", "status", "awaiting"}) EXCEPT !.next = "leave"]
Roster == Screen("company roster", RosterSearch, RosterControls, RosterTable)

\* The shift masters' pager stays while there is somewhere to go, rows or not.
ShiftMastersSearch   == StateSearch
ShiftMastersControls == Plain({"q", "status"})
ShiftMastersTable    == [Paged({"q", "status"}) EXCEPT !.pager = "cursor", !.opens = "no"]
ShiftMasters == Screen("shift masters", ShiftMastersSearch, ShiftMastersControls, ShiftMastersTable)

-----------------------------------------------------------------------------
(* Attendance *)

\* setSearch leaves the stack of cursors as it is; another company, no site.
DashboardSearch   == [UrlSearch EXCEPT !.clears = {"cursor"}]
DashboardControls == [BoxedResettable({"q", "tab", "company_id", "site_id", "position", "dates"})
                      EXCEPT !.drops = {<<"company_id", "site_id">>}]
DashboardTable    == Paged({"q", "company_id", "site_id", "position", "dates"})
Dashboard == Screen("attendance dashboard", DashboardSearch, DashboardControls, DashboardTable)

\* A new filter drops the selection, a new page keeps it.
VerificationSearch   == [UrlSearch EXCEPT !.clears = {"cursor", "ticks"}]
VerificationControls == Boxed({"q", "company_id", "flag", "escalated_only"})
VerificationTable    == [Paged({"q", "company_id", "flag", "escalated_only"}) EXCEPT !.ticks = TRUE]
Verification == Screen("attendance verification", VerificationSearch, VerificationControls,
                       VerificationTable)

\* A correction is shown in a drawer over the list.
CorrectionsStore    == "url"
CorrectionsSearch   == [UrlSearch EXCEPT !.store = CorrectionsStore, !.unsent = {"q"}]
CorrectionsControls == BoxedResettable({"q", "status", "type"})
CorrectionsTable    == [Paged({"q", "status", "type"}) EXCEPT !.opens = "no"]
Corrections == Screen("corrections", CorrectionsSearch, CorrectionsControls, CorrectionsTable)

-----------------------------------------------------------------------------
(* Leave, overtime and approvals *)

LeaveApprovalsStore    == "state"
LeaveApprovalsSearch   == [UrlSearch EXCEPT !.store = LeaveApprovalsStore]
LeaveApprovalsControls == BoxedResettable({"q", "status", "company_id", "leave_type_id"})
LeaveApprovalsTable    == Paged({"q", "status", "company_id", "leave_type_id"})
LeaveApprovals == Screen("leave approvals", LeaveApprovalsSearch, LeaveApprovalsControls,
                         LeaveApprovalsTable)

\* Prev of the quotas list goes to the first page, and so does opening a row: the record
\* is then looked up among the rows of that page.
LeaveQuotasSearch   == UrlSearch
LeaveQuotasControls == Resettable({"q"})
LeaveQuotasTable    == [Paged({"q"}) EXCEPT !.prev = "home", !.opens = "home"]
LeaveQuotas == Screen("leave quotas", LeaveQuotasSearch, LeaveQuotasControls, LeaveQuotasTable)

\* The company select has no company to choose.
OvertimeApprovalsStore    == "state"
OvertimeApprovalsSearch   == [UrlSearch EXCEPT !.store = OvertimeApprovalsStore, !.unsent = {"q"}]
OvertimeApprovalsControls == BoxedResettable({"q", "source"})
OvertimeApprovalsTable    == Paged({"q", "source"})
OvertimeApprovals == Screen("overtime approvals", OvertimeApprovalsSearch,
                            OvertimeApprovalsControls, OvertimeApprovalsTable)

OvertimeRecordsStore    == "state"
OvertimeRecordsSearch   == [UrlSearch EXCEPT !.store = OvertimeRecordsStore, !.unsent = {"q"}]
OvertimeRecordsControls ==
    BoxedResettable({"q", "dates", "company_id", "tier", "status", "source"})
OvertimeRecordsTable    == [Paged({"q", "dates", "company_id", "tier", "status", "source"})
                            EXCEPT !.opens = "no"]
OvertimeRecords == Screen("overtime records", OvertimeRecordsSearch, OvertimeRecordsControls,
                          OvertimeRecordsTable)

InboxStore    == "state"
InboxSearch   == [UrlSearch EXCEPT !.store = InboxStore, !.unsent = {"q"}]
InboxControls == Boxed({"q", "request_type"})
InboxTable    == Paged({"q", "request_type"})
Inbox == Screen("approval inbox", InboxSearch, InboxControls, InboxTable)

-----------------------------------------------------------------------------
(* Payroll *)

\* The period is part of the search; the employment type is kept beside it and resets
\* nothing.  The page's setSearch drops every cursor, the pager's included.
CompletenessResets   == [employment_type |-> {}, blockers_only |-> Reset]
CompletenessSearch   == [UrlSearch EXCEPT !.clears = {"cursor"}, !.special = CompletenessResets]
CompletenessControls == Plain({"period", "employment_type", "blockers_only"})
CompletenessTable    == [Paged({"blockers_only"}) EXCEPT !.next = "drop", !.opens = "no"]
Completeness == Screen("completeness", CompletenessSearch, CompletenessControls, CompletenessTable)

\* The immutable summary of a locked period: pages and nothing else.
SummarySearch == StateSearch
SummaryTable  == [Paged({}) EXCEPT !.opens = "no"]
PeriodSummary == Screen("period summary", SummarySearch, Plain({}), SummaryTable)

\* The year is set from the start and counts, so the archive is never "fresh"; that it can
\* be emptied is left out.
PayslipArchiveSearch   == StateSearch
PayslipArchiveControls == [Resettable({"employee", "month", "status"})
                           EXCEPT !.own = {"employee"}]
PayslipArchiveTable    == [Paged({"employee", "month", "status"}) EXCEPT !.always = TRUE]
PayslipArchive == Screen("payslip archive", PayslipArchiveSearch, PayslipArchiveControls,
                         PayslipArchiveTable)

\* An agent's own payslips.
MyPayslipsTable == [Paged({}) EXCEPT !.opens = "no"]
MyPayslips == Screen("my payslips", StateSearch, Plain({}), MyPayslipsTable)

-----------------------------------------------------------------------------
(* Reports, users, audit log, notifications *)

BillableStore    == "state"
BillableSearch   == [UrlSearch EXCEPT !.store = BillableStore]
BillableControls == Resettable({"company_id", "position", "group_by"})
BillableTable    == [OnePage({"company_id", "position", "group_by"}) EXCEPT !.always = TRUE]
Billable == Screen("billable report", BillableSearch, BillableControls, BillableTable)

UsersSearch   == UrlSearch
UsersControlsReset == BoxedResettable({"q", "role", "status"})
UsersControls == Boxed({"q", "role", "status"})
UsersTableSome == [Paged({"q", "status"}) EXCEPT !.opens = "no"]
UsersTable    == [Paged({"q", "role", "status"}) EXCEPT !.opens = "no"]
Users == Screen("users", UsersSearch, UsersControls, UsersTable)

AuditLogSearch   == UrlSearch
AuditLogControls == Boxed({"q", "entity_type", "action"})
AuditLogTable    == [Paged({"q", "entity_type", "action"}) EXCEPT !.opens = "no"]
AuditLog == Screen("audit log", AuditLogSearch, AuditLogControls, AuditLogTable)

NotificationsStore    == "state"
NotificationsSearch   == [UrlSearch EXCEPT !.store = NotificationsStore]
NotificationsControls == Resettable({"read_state", "kind"})
NotificationsTable    == Paged({"read_state", "kind"})
Notifications == Screen("notifications", NotificationsSearch, NotificationsControls,
                        NotificationsTable)

-----------------------------------------------------------------------------
(* The lists in an employee's record: the latest 25, without a pager *)

SectionTable == [OnePage({}) EXCEPT !.opens = "record"]
EmployeePlacements == Screen("employee's placements", StateSearch, Plain({}), SectionTable)
EmployeeAttendance == Screen("employee's attendance", StateSearch, Plain({}), SectionTable)
EmployeeLeaves     == Screen("employee's leaves", StateSearch, Plain({}), SectionTable)
EmployeeOvertimes  == Screen("employee's overtimes", StateSearch, Plain({}), SectionTable)

-----------------------------------------------------------------------------
(* An agent's own lists, on the console and on the phone: one page, no pager *)

MyLeavesTable == OnePage({})
MyLeaves == Screen("my leaves", StateSearch, Plain({}), MyLeavesTable)

MyOvertimesTable == OnePage({})
MyOvertimes == Screen("my overtimes", StateSearch, Plain({}), MyOvertimesTable)

MyCorrectionsTable == OnePage({})
MyCorrections == Screen("my corrections", StateSearch, Plain({}), MyCorrectionsTable)

MyNotificationsTable == OnePage({})
MyNotifications == Screen("my notifications", StateSearch, Plain({}), MyNotificationsTable)

\* The record to correct is picked from a filtered list of 30.
PickerSearch   == StateSearch
PickerControls == Resettable({"q", "date_from", "date_to"})
PickerTable    == [OnePage({"q", "date_from", "date_to"}) EXCEPT !.opens = "record"]
Picker == Screen("correction picker", PickerSearch, PickerControls, PickerTable)

\* On the phone the dates are typed: one that is not complete counts, and is not sent.
PhonePickerSearch   == [StateSearch EXCEPT !.unsent = {"partial_date"}]
PhonePickerControls == Resettable({"q", "date_from", "date_to", "partial_date"})
PhonePickerTable    == [OnePage({"q", "date_from", "date_to", "partial_date"})
                        EXCEPT !.opens = "above"]
PhonePicker == Screen("phone correction picker", PhonePickerSearch, PhonePickerControls,
                      PhonePickerTable)

\* The history always has a range (this month at first) and says so when it is empty; only
\* the status can be reset.
KehadiranSearch   == StateSearch
KehadiranControls == Plain({"range", "status"})
KehadiranTable    == [OnePage({"status"}) EXCEPT !.always = TRUE, !.opens = "above"]
Kehadiran == Screen("phone attendance history", KehadiranSearch, KehadiranControls, KehadiranTable)

\* The chips select among the rows that came; an empty selection reads like an empty list.
TrackerControls == Plain({"status"})
TrackerTable    == [OnePage({}) EXCEPT !.opens = "above"]
Tracker == Screen("phone correction tracker", StateSearch, TrackerControls, TrackerTable)

PhoneLeavesTable == [OnePage({}) EXCEPT !.opens = "above"]
PhoneLeaves == Screen("phone leaves", StateSearch, Plain({}), PhoneLeavesTable)

PhoneNotificationsTable == [OnePage({}) EXCEPT !.opens = "above"]
PhoneNotifications == Screen("phone notifications", StateSearch, Plain({}), PhoneNotificationsTable)

-----------------------------------------------------------------------------
(* A shift leader's lists on the phone: one page of 50 *)

PhoneApprovalsTable == [OnePage({}) EXCEPT !.opens = "above"]
PhoneApprovals == Screen("phone approvals", StateSearch, Plain({}), PhoneApprovalsTable)

\* The chips select among the pending rows that came; a row stays selected when the chip
\* takes it off the screen, and an empty selection reads like an empty list.
PhoneVerificationControls == Plain({"exception"})
PhoneVerificationTable    == [OnePage({}) EXCEPT !.opens = "above", !.ticks = TRUE]
PhoneVerification == Screen("phone verification", StateSearch, PhoneVerificationControls,
                            PhoneVerificationTable)

-----------------------------------------------------------------------------
AllScreens ==
    {Employees, Agreements, AttendanceCodes, LeaveTypes, ClientCompanies, RosterPanel,
     Placements, Roster, ShiftMasters, Dashboard, Verification, Corrections, LeaveApprovals,
     LeaveQuotas, OvertimeApprovals, OvertimeRecords, Inbox, Completeness, PeriodSummary,
     PayslipArchive, MyPayslips, Billable, Users, AuditLog, Notifications, MyLeaves,
     MyOvertimes, MyCorrections, MyNotifications, Picker, PhonePicker, Kehadiran, Tracker,
     PhoneLeaves, PhoneNotifications, EmployeePlacements, EmployeeAttendance, EmployeeLeaves,
     EmployeeOvertimes, PhoneApprovals, PhoneVerification}
=============================================================================
