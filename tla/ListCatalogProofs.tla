--------------------------- MODULE ListCatalogProofs ---------------------------
(***************************************************************************)
(* The list screens of the console and of the phone obey the rules the     *)
(* theorems of ListScreensProofs rest on, so that those hold of the        *)
(* screens as they are; and the exceptions named in ListScreens are        *)
(* exactly the screens that break a rule.                                  *)
(***************************************************************************)
EXTENDS ListScreensProofs, ListCatalog

-----------------------------------------------------------------------------
(* The rules, for one screen.                                              *)

\* What a new filter drops, and where the pager leads.
Drops(s) ==
    /\ s.prev \in {"home", "pop"} /\ s.next \in {"push", "drop", "leave"} /\ s.ticks \in BOOLEAN
    /\ s.opens = "home" => s.prev = "home"
    /\ s.name \in OneWayPager <=> s.next # "push"
    /\ s.next # "drop" => \A c \in Resets(s) : "cursor" \in c
    /\ s.name \in KeepStack <=>
          s.next # "drop" /\ s.prev = "pop" /\ \E c \in Resets(s) : "stack" \notin c
    /\ s.name \in KeepTicks <=> s.ticks /\ \E c \in Resets(s) : "ticks" \notin c

\* What is sent of the filters and shown by the boxes, and what of the filters makes an
\* empty list a filtered one.
Narrows(s) ==
    /\ s.name \in SilentKeys <=>
          \/ ~Following(s)
          \/ \E k \in Keys(s) : k \in s.unsent \/ \E m \in Keys(s) : <<m, k>> \in s.masks \ s.locks
    /\ s.name \in TabNotCounted <=>
          ~s.always /\ ~(Keys(s) \subseteq s.counted \cup s.unsent \cup s.widens)

Obeys(s) == Drops(s) /\ Narrows(s)

-----------------------------------------------------------------------------
(* The screens.                                                            *)

USE DEF KeepStack, KeepTicks, OneWayPager, SilentKeys, TabNotCounted, Resets, Keys,
        Reset, UrlSearch, StateSearch, Plain, Resettable, Boxed, BoxedResettable, Paged,
        OnePage, Screen, Following

\* Employees, agreements, master data and companies.
LEMMA PeopleScreens ==
    \A s \in {Employees, Agreements, AttendanceCodes, LeaveTypes, ClientCompanies,
        RosterPanel} : Obeys(s)
<1>1. Obeys(Employees)
    <2> USE DEF Employees, EmployeesSearch, EmployeesControls, EmployeesTable
    <2>1. Drops(Employees)
        BY DEF Drops
    <2>2. Narrows(Employees)
        BY DEF Narrows
    <2> QED BY <2>1, <2>2 DEF Obeys
<1>2. Obeys(Agreements)
    <2> USE DEF Agreements, AgreementsSearch, AgreementsControls, AgreementsTable
    <2>1. Drops(Agreements)
        BY DEF Drops
    <2>2. Narrows(Agreements)
        BY DEF Narrows
    <2> QED BY <2>1, <2>2 DEF Obeys
<1>3. Obeys(AttendanceCodes)
    <2> USE DEF AttendanceCodes, AttendanceCodesSearch, AttendanceCodesControls,
        AttendanceCodesTable
    <2>1. Drops(AttendanceCodes)
        BY DEF Drops
    <2>2. Narrows(AttendanceCodes)
        BY DEF Narrows
    <2> QED BY <2>1, <2>2 DEF Obeys
<1>4. Obeys(LeaveTypes)
    <2> USE DEF LeaveTypes, LeaveTypesSearch, LeaveTypesControls, LeaveTypesTable
    <2>1. Drops(LeaveTypes)
        BY DEF Drops
    <2>2. Narrows(LeaveTypes)
        BY DEF Narrows
    <2> QED BY <2>1, <2>2 DEF Obeys
<1>5. Obeys(ClientCompanies)
    <2> USE DEF ClientCompanies, ClientCompaniesSearch, ClientCompaniesControls,
        ClientCompaniesTable
    <2>1. Drops(ClientCompanies)
        BY DEF Drops
    <2>2. Narrows(ClientCompanies)
        BY DEF Narrows
    <2> QED BY <2>1, <2>2 DEF Obeys
<1>6. Obeys(RosterPanel)
    <2> USE DEF RosterPanel, RosterPanelSearch, RosterPanelControls, RosterPanelTable
    <2>1. Drops(RosterPanel)
        BY DEF Drops
    <2>2. Narrows(RosterPanel)
        BY DEF Narrows
    <2> QED BY <2>1, <2>2 DEF Obeys
<1> QED BY <1>1, <1>2, <1>3, <1>4, <1>5, <1>6

\* Placements, the roster of a company, the shift masters.
LEMMA PlacementScreens ==
    \A s \in {Placements, Roster, ShiftMasters} : Obeys(s)
<1>1. Obeys(Placements)
    <2> USE DEF Placements, PlacementsSearch, PlacementsControls, PlacementsTable
    <2>1. Drops(Placements)
        BY DEF Drops
    <2>2. Narrows(Placements)
        BY DEF Narrows
    <2> QED BY <2>1, <2>2 DEF Obeys
<1>2. Obeys(Roster)
    <2> USE DEF Roster, RosterSearch, RosterControls, RosterTable
    <2>1. Drops(Roster)
        BY DEF Drops
    <2>2. Narrows(Roster)
        BY DEF Narrows
    <2> QED BY <2>1, <2>2 DEF Obeys
<1>3. Obeys(ShiftMasters)
    <2> USE DEF ShiftMasters, ShiftMastersSearch, ShiftMastersControls, ShiftMastersTable
    <2>1. Drops(ShiftMasters)
        BY DEF Drops
    <2>2. Narrows(ShiftMasters)
        BY DEF Narrows
    <2> QED BY <2>1, <2>2 DEF Obeys
<1> QED BY <1>1, <1>2, <1>3

\* The attendance dashboard, the verification queue and the corrections.
LEMMA AttendanceScreens ==
    \A s \in {Dashboard, Verification, Corrections} : Obeys(s)
<1>1. Obeys(Dashboard)
    <2> USE DEF Dashboard, DashboardSearch, DashboardControls, DashboardTable
    <2>1. Resets(Dashboard) = {{"cursor"}}
        OBVIOUS
    <2>2. \E c \in Resets(Dashboard) : "stack" \notin c
        BY <2>1
    <2>3. /\ \A c \in Resets(Dashboard) : "cursor" \in c
          /\ Dashboard.ticks => \A c \in Resets(Dashboard) : "ticks" \in c
        BY <2>1
    <2>4. /\ Dashboard.prev = "pop" /\ Dashboard.next = "push" /\ Dashboard.ticks \in BOOLEAN
          /\ Dashboard.opens # "home" /\ Dashboard.name \in KeepStack
          /\ Dashboard.name \notin OneWayPager /\ Dashboard.name \notin KeepTicks
        OBVIOUS
    <2>5. Drops(Dashboard)
        <3> HIDE DEF Dashboard, Resets, KeepStack, KeepTicks, OneWayPager
        <3> QED BY <2>2, <2>3, <2>4 DEF Drops
    <2>6. Narrows(Dashboard)
        BY DEF Narrows
    <2> QED BY <2>5, <2>6 DEF Obeys
<1>2. Obeys(Verification)
    <2> USE DEF Verification, VerificationSearch, VerificationControls, VerificationTable
    <2>1. Resets(Verification) = {{"cursor", "ticks"}}
        OBVIOUS
    <2>2. \E c \in Resets(Verification) : "stack" \notin c
        BY <2>1
    <2>3. /\ \A c \in Resets(Verification) : "cursor" \in c
          /\ Verification.ticks => \A c \in Resets(Verification) : "ticks" \in c
        BY <2>1
    <2>4. /\ Verification.prev = "pop" /\ Verification.next = "push"
          /\ Verification.ticks \in BOOLEAN
          /\ Verification.opens # "home" /\ Verification.name \in KeepStack
          /\ Verification.name \notin OneWayPager /\ Verification.name \notin KeepTicks
        OBVIOUS
    <2>5. Drops(Verification)
        <3> HIDE DEF Verification, Resets, KeepStack, KeepTicks, OneWayPager
        <3> QED BY <2>2, <2>3, <2>4 DEF Drops
    <2>6. Narrows(Verification)
        BY DEF Narrows
    <2> QED BY <2>5, <2>6 DEF Obeys
<1>3. Obeys(Corrections)
    <2> USE DEF Corrections, CorrectionsStore, CorrectionsSearch, CorrectionsControls,
        CorrectionsTable
    <2>1. Drops(Corrections)
        BY DEF Drops
    <2>2. Narrows(Corrections)
        BY DEF Narrows
    <2> QED BY <2>1, <2>2 DEF Obeys
<1> QED BY <1>1, <1>2, <1>3

\* Leave, overtime and the approval inbox.
LEMMA ApprovalScreens ==
    \A s \in {LeaveApprovals, LeaveQuotas, OvertimeApprovals, OvertimeRecords, Inbox} : Obeys(s)
<1>1. Obeys(LeaveApprovals)
    <2> USE DEF LeaveApprovals, LeaveApprovalsStore, LeaveApprovalsSearch,
        LeaveApprovalsControls, LeaveApprovalsTable
    <2>1. Drops(LeaveApprovals)
        BY DEF Drops
    <2>2. Narrows(LeaveApprovals)
        BY DEF Narrows
    <2> QED BY <2>1, <2>2 DEF Obeys
<1>2. Obeys(LeaveQuotas)
    <2> USE DEF LeaveQuotas, LeaveQuotasSearch, LeaveQuotasControls, LeaveQuotasTable
    <2>1. Drops(LeaveQuotas)
        BY DEF Drops
    <2>2. Narrows(LeaveQuotas)
        BY DEF Narrows
    <2> QED BY <2>1, <2>2 DEF Obeys
<1>3. Obeys(OvertimeApprovals)
    <2> USE DEF OvertimeApprovals, OvertimeApprovalsStore, OvertimeApprovalsSearch,
        OvertimeApprovalsControls, OvertimeApprovalsTable
    <2>1. Drops(OvertimeApprovals)
        BY DEF Drops
    <2>2. Narrows(OvertimeApprovals)
        BY DEF Narrows
    <2> QED BY <2>1, <2>2 DEF Obeys
<1>4. Obeys(OvertimeRecords)
    <2> USE DEF OvertimeRecords, OvertimeRecordsStore, OvertimeRecordsSearch,
        OvertimeRecordsControls, OvertimeRecordsTable
    <2>1. Drops(OvertimeRecords)
        BY DEF Drops
    <2>2. Narrows(OvertimeRecords)
        BY DEF Narrows
    <2> QED BY <2>1, <2>2 DEF Obeys
<1>5. Obeys(Inbox)
    <2> USE DEF Inbox, InboxStore, InboxSearch, InboxControls, InboxTable
    <2>1. Drops(Inbox)
        BY DEF Drops
    <2>2. Narrows(Inbox)
        BY DEF Narrows
    <2> QED BY <2>1, <2>2 DEF Obeys
<1> QED BY <1>1, <1>2, <1>3, <1>4, <1>5

\* The month-end and the payslips.
LEMMA PayrollScreens ==
    \A s \in {Completeness, PeriodSummary, PayslipArchive, MyPayslips} : Obeys(s)
<1>1. Obeys(Completeness)
    <2> USE DEF Completeness, CompletenessResets, CompletenessSearch, CompletenessControls,
        CompletenessTable
    <2>1. Drops(Completeness)
        BY DEF Drops
    <2>2. Narrows(Completeness)
        BY DEF Narrows
    <2> QED BY <2>1, <2>2 DEF Obeys
<1>2. Obeys(PeriodSummary)
    <2> USE DEF PeriodSummary, SummarySearch, SummaryTable
    <2>1. Drops(PeriodSummary)
        BY DEF Drops
    <2>2. Narrows(PeriodSummary)
        BY DEF Narrows
    <2> QED BY <2>1, <2>2 DEF Obeys
<1>3. Obeys(PayslipArchive)
    <2> USE DEF PayslipArchive, PayslipArchiveSearch, PayslipArchiveControls,
        PayslipArchiveTable
    <2>1. Drops(PayslipArchive)
        BY DEF Drops
    <2>2. Narrows(PayslipArchive)
        BY DEF Narrows
    <2> QED BY <2>1, <2>2 DEF Obeys
<1>4. Obeys(MyPayslips)
    <2> USE DEF MyPayslips, MyPayslipsTable
    <2>1. Drops(MyPayslips)
        BY DEF Drops
    <2>2. Narrows(MyPayslips)
        BY DEF Narrows
    <2> QED BY <2>1, <2>2 DEF Obeys
<1> QED BY <1>1, <1>2, <1>3, <1>4

\* Reports, users, the audit log and the notifications.
LEMMA ReportScreens ==
    \A s \in {Billable, Users, AuditLog, Notifications} : Obeys(s)
<1>1. Obeys(Billable)
    <2> USE DEF Billable, BillableStore, BillableSearch, BillableControls, BillableTable
    <2>1. Drops(Billable)
        BY DEF Drops
    <2>2. Narrows(Billable)
        BY DEF Narrows
    <2> QED BY <2>1, <2>2 DEF Obeys
<1>2. Obeys(Users)
    <2> USE DEF Users, UsersSearch, UsersControls, UsersTable
    <2>1. Drops(Users)
        BY DEF Drops
    <2>2. Narrows(Users)
        BY DEF Narrows
    <2> QED BY <2>1, <2>2 DEF Obeys
<1>3. Obeys(AuditLog)
    <2> USE DEF AuditLog, AuditLogSearch, AuditLogControls, AuditLogTable
    <2>1. Drops(AuditLog)
        BY DEF Drops
    <2>2. Narrows(AuditLog)
        BY DEF Narrows
    <2> QED BY <2>1, <2>2 DEF Obeys
<1>4. Obeys(Notifications)
    <2> USE DEF Notifications, NotificationsStore, NotificationsSearch, NotificationsControls,
        NotificationsTable
    <2>1. Drops(Notifications)
        BY DEF Drops
    <2>2. Narrows(Notifications)
        BY DEF Narrows
    <2> QED BY <2>1, <2>2 DEF Obeys
<1> QED BY <1>1, <1>2, <1>3, <1>4

\* The lists in an employee's record, an agent's own lists, and the leader's on the phone.
LEMMA OwnScreens ==
    \A s \in {MyLeaves, MyOvertimes, MyCorrections, MyNotifications, Picker,
        PhonePicker, Kehadiran, Tracker, PhoneLeaves, PhoneNotifications,
        EmployeePlacements, EmployeeAttendance, EmployeeLeaves, EmployeeOvertimes,
        PhoneApprovals, PhoneVerification} : Obeys(s)
<1>1. Obeys(MyLeaves)
    <2> USE DEF MyLeaves, MyLeavesTable
    <2>1. Drops(MyLeaves)
        BY DEF Drops
    <2>2. Narrows(MyLeaves)
        BY DEF Narrows
    <2> QED BY <2>1, <2>2 DEF Obeys
<1>2. Obeys(MyOvertimes)
    <2> USE DEF MyOvertimes, MyOvertimesTable
    <2>1. Drops(MyOvertimes)
        BY DEF Drops
    <2>2. Narrows(MyOvertimes)
        BY DEF Narrows
    <2> QED BY <2>1, <2>2 DEF Obeys
<1>3. Obeys(MyCorrections)
    <2> USE DEF MyCorrections, MyCorrectionsTable
    <2>1. Drops(MyCorrections)
        BY DEF Drops
    <2>2. Narrows(MyCorrections)
        BY DEF Narrows
    <2> QED BY <2>1, <2>2 DEF Obeys
<1>4. Obeys(MyNotifications)
    <2> USE DEF MyNotifications, MyNotificationsTable
    <2>1. Drops(MyNotifications)
        BY DEF Drops
    <2>2. Narrows(MyNotifications)
        BY DEF Narrows
    <2> QED BY <2>1, <2>2 DEF Obeys
<1>5. Obeys(Picker)
    <2> USE DEF Picker, PickerSearch, PickerControls, PickerTable
    <2>1. Drops(Picker)
        BY DEF Drops
    <2>2. Narrows(Picker)
        BY DEF Narrows
    <2> QED BY <2>1, <2>2 DEF Obeys
<1>6. Obeys(PhonePicker)
    <2> USE DEF PhonePicker, PhonePickerSearch, PhonePickerControls, PhonePickerTable
    <2>1. Drops(PhonePicker)
        BY DEF Drops
    <2>2. Narrows(PhonePicker)
        BY DEF Narrows
    <2> QED BY <2>1, <2>2 DEF Obeys
<1>7. Obeys(Kehadiran)
    <2> USE DEF Kehadiran, KehadiranSearch, KehadiranControls, KehadiranTable
    <2>1. Drops(Kehadiran)
        BY DEF Drops
    <2>2. Narrows(Kehadiran)
        BY DEF Narrows
    <2> QED BY <2>1, <2>2 DEF Obeys
<1>8. Obeys(Tracker)
    <2> USE DEF Tracker, TrackerControls, TrackerTable
    <2>1. Drops(Tracker)
        BY DEF Drops
    <2>2. Narrows(Tracker)
        BY DEF Narrows
    <2> QED BY <2>1, <2>2 DEF Obeys
<1>9. Obeys(PhoneLeaves)
    <2> USE DEF PhoneLeaves, PhoneLeavesTable
    <2>1. Drops(PhoneLeaves)
        BY DEF Drops
    <2>2. Narrows(PhoneLeaves)
        BY DEF Narrows
    <2> QED BY <2>1, <2>2 DEF Obeys
<1>10. Obeys(PhoneNotifications)
    <2> USE DEF PhoneNotifications, PhoneNotificationsTable
    <2>1. Drops(PhoneNotifications)
        BY DEF Drops
    <2>2. Narrows(PhoneNotifications)
        BY DEF Narrows
    <2> QED BY <2>1, <2>2 DEF Obeys
<1>11. Obeys(EmployeePlacements)
    <2> USE DEF EmployeePlacements, SectionTable
    <2>1. Drops(EmployeePlacements)
        BY DEF Drops
    <2>2. Narrows(EmployeePlacements)
        BY DEF Narrows
    <2> QED BY <2>1, <2>2 DEF Obeys
<1>12. Obeys(EmployeeAttendance)
    <2> USE DEF EmployeeAttendance, SectionTable
    <2>1. Drops(EmployeeAttendance)
        BY DEF Drops
    <2>2. Narrows(EmployeeAttendance)
        BY DEF Narrows
    <2> QED BY <2>1, <2>2 DEF Obeys
<1>13. Obeys(EmployeeLeaves)
    <2> USE DEF EmployeeLeaves, SectionTable
    <2>1. Drops(EmployeeLeaves)
        BY DEF Drops
    <2>2. Narrows(EmployeeLeaves)
        BY DEF Narrows
    <2> QED BY <2>1, <2>2 DEF Obeys
<1>14. Obeys(EmployeeOvertimes)
    <2> USE DEF EmployeeOvertimes, SectionTable
    <2>1. Drops(EmployeeOvertimes)
        BY DEF Drops
    <2>2. Narrows(EmployeeOvertimes)
        BY DEF Narrows
    <2> QED BY <2>1, <2>2 DEF Obeys
<1>15. Obeys(PhoneApprovals)
    <2> USE DEF PhoneApprovals, PhoneApprovalsTable
    <2>1. Drops(PhoneApprovals)
        BY DEF Drops
    <2>2. Narrows(PhoneApprovals)
        BY DEF Narrows
    <2> QED BY <2>1, <2>2 DEF Obeys
<1>16. Obeys(PhoneVerification)
    <2> USE DEF PhoneVerification, PhoneVerificationControls, PhoneVerificationTable
    <2>1. Resets(PhoneVerification) = {{"cursor", "stack"}}
        OBVIOUS
    <2>2. \A c \in Resets(PhoneVerification) : {"cursor", "stack"} \subseteq c /\ "ticks" \notin c
        BY <2>1
    <2>3. \E c \in Resets(PhoneVerification) : "ticks" \notin c
        BY <2>1
    <2>4. Drops(PhoneVerification)
        BY <2>2, <2>3 DEF Drops
    <2>5. Narrows(PhoneVerification)
        BY DEF Narrows
    <2> QED BY <2>4, <2>5 DEF Obeys
<1> QED BY <1>1, <1>2, <1>3, <1>4, <1>5, <1>6, <1>7, <1>8, <1>9, <1>10, <1>11, <1>12,
           <1>13, <1>14, <1>15, <1>16

\* Every list screen obeys the rules it is not named as an exception to.
LEMMA EveryScreenObeys == \A s \in AllScreens : Obeys(s)
BY PeopleScreens, PlacementScreens, AttendanceScreens, ApprovalScreens, PayrollScreens,
   ReportScreens, OwnScreens DEF AllScreens

-----------------------------------------------------------------------------
(* The clients as they are: any of their list screens.                     *)

\* ScreensReset, assumed by ListScreens of any screens, holds of those of the clients.
THEOREM ClientsResetTheirScreens ==
    ASSUME Screens \subseteq AllScreens
    PROVE  \A s \in Screens :
              /\ s.prev \in {"home", "pop"} /\ s.next \in {"push", "drop", "leave"}
              /\ s.ticks \in BOOLEAN
              /\ s.opens = "home" => s.prev = "home"
              /\ s.name \notin OneWayPager => s.next = "push"
              /\ s.next # "drop" => \A c \in Resets(s) : "cursor" \in c
              /\ s.next # "drop" /\ s.prev = "pop" /\ s.name \notin KeepStack
                    => \A c \in Resets(s) : "stack" \in c
              /\ s.ticks /\ s.name \notin KeepTicks => \A c \in Resets(s) : "ticks" \in c
<1>1. \A s \in Screens : Obeys(s)
    BY EveryScreenObeys
<1> HIDE DEF KeepStack, KeepTicks, OneWayPager, Resets
<1> QED BY <1>1 DEF Obeys, Drops

\* The named exceptions are exactly the screens that break a rule: none is excused without
\* need, and every other screen of the console and of the phone obeys.
THEOREM ExceptionsAreExact ==
    \A s \in AllScreens :
        /\ s.name \in OneWayPager <=> s.next # "push"
        /\ s.name \in KeepStack <=>
              s.next # "drop" /\ s.prev = "pop" /\ \E c \in Resets(s) : "stack" \notin c
        /\ s.name \in KeepTicks <=> s.ticks /\ \E c \in Resets(s) : "ticks" \notin c
        /\ s.name \in SilentKeys <=>
              \/ ~Following(s)
              \/ \E k \in Keys(s) :
                  k \in s.unsent \/ \E m \in Keys(s) : <<m, k>> \in s.masks \ s.locks
        /\ s.name \in TabNotCounted <=>
              ~s.always /\ ~(Keys(s) \subseteq s.counted \cup s.unsent \cup s.widens)
<1> HIDE DEF KeepStack, KeepTicks, OneWayPager, SilentKeys, TabNotCounted, Resets, Keys, Following
<1> QED BY EveryScreenObeys DEF Obeys, Drops, Narrows

\* On the clients' own screens the controls, search boxes with a text of their own included,
\* show what is sent, until the browser's back button moves the search under a box.
THEOREM ClientsShowTheirFilters ==
    ASSUME Screens \subseteq AllScreens
    PROVE  Spec => []FilterShown
<1>1. \A s \in Screens : s.name \notin SilentKeys =>
         /\ Following(s)
         /\ \A k \in Keys(s) : /\ k \notin s.unsent
                               /\ \A m \in Keys(s) : <<m, k>> \in s.masks => <<m, k>> \in s.locks
    <2> HIDE DEF SilentKeys, Keys, Following
    <2> QED BY EveryScreenObeys DEF Obeys, Narrows
<1> QED BY <1>1, ControlsShowTheSearch

\* The clients call a list fresh only when nothing that is sent narrows it.
THEOREM ClientsEmptyHonestly ==
    ASSUME Screens \subseteq AllScreens
    PROVE  Spec => []EmptyIsHonest
<1>1. \A s \in Screens : s.name \notin TabNotCounted =>
         s.always \/ Keys(s) \subseteq s.counted \cup s.unsent \cup s.widens
    <2> HIDE DEF TabNotCounted, Keys
    <2> QED BY EveryScreenObeys DEF Obeys, Narrows
<1> QED BY <1>1, EmptyListsAreHonest
=============================================================================
